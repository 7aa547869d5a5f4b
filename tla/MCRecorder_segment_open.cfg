SPECIFICATION Spec

CONSTANTS
    Visitors = {v1}
    v1 = v1
    NoOne = NoOne
    BlockSize = 2
    OpenFailureLimit = 2
    Segments = TRUE
    StopOnUnstable = FALSE
    FailOnNoSensor = FALSE
    Forces = {"none"}

INVARIANTS
    OpenFailureIsRetried

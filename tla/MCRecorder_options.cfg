SPECIFICATION Spec

CONSTANTS
    Visitors = {v1, v2}
    v1 = v1
    v2 = v2
    NoOne = NoOne
    BlockSize = 2
    OpenFailureLimit = 2
    Segments = TRUE
    StopOnUnstable = TRUE
    FailOnNoSensor = FALSE
    Forces = {"none", "maintenance", "waiting_stable", "recording"}

INVARIANTS
    VisitIsActedOn
    NoSampleCrossesRecordings
    FlushNeverReenters
    GivesUpAtLimit
    ExitLeavesNothingOpen

PROPERTIES
    KeepsThePromise
    NoOpenAfterVisit

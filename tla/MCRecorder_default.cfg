SPECIFICATION FairSpec

CONSTANTS
    Visitors = {v1, v2}
    v1 = v1
    v2 = v2
    NoOne = NoOne
    BlockSize = 2
    OpenFailureLimit = 2
    Segments = FALSE
    StopOnUnstable = FALSE
    FailOnNoSensor = TRUE
    Forces = {"none", "maintenance", "waiting_stable", "recording"}

INVARIANTS
    DiscardHonoured
    RecordingMeansFileOpen

PROPERTIES
    KeepsThePromise
    VisitEndsMeasurement
    SignalEndsProcess

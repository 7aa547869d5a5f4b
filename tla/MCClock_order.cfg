SPECIFICATION Spec

CONSTANTS
    SaveEvery = 2
    MountDelay = 4
    Gap = 1
    LateSync = FALSE
    SavesFail = FALSE
    MaxTime = 12

\* The bound of the time ends the behaviours.
CHECK_DEADLOCK FALSE

PROPERTIES
    CutSeparates
    AheadOnlyBySync

SPECIFICATION Spec

CONSTANTS
    SlotCount = 2
    MaxRecordings = 2
    MaxBlocks = 2
    MaxTurns = 4
    CounterFails = FALSE
    CardFails = TRUE

INVARIANTS
    ListedIsIntact
    UnmarkedIsComplete
    NoLeftoverGoesUnrecovered

PROPERTIES
    OverwritesOnlyByRotation
    KeepsThePromise

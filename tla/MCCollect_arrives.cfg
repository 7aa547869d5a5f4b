SPECIFICATION FairSpec

CONSTANTS
    Names = {n1}
    n1 = n1
    MaxRecordings = 2
    MaxLength = 3
    Attempts = 2
    Copies = 2

INVARIANTS
    FinishedIsWhole
    RetiredIsHeld

PROPERTY
    Arrives

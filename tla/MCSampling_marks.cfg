SPECIFICATION FairSpec

CONSTANTS
    BlockSize = 3
    MinSamples = 5
    Window = 6
    Slowest = 2
    BackoffMin = 1
    BackoffMax = 4

\* In maintenance the thread only sleeps.
CHECK_DEADLOCK FALSE

INVARIANTS
    BlockIsMarked
    RoughIsMarked

PROPERTIES
    StartsSettled
    StartsInTheEnd

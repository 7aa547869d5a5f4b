\* Once the window is shut nothing may ever happen again.
CHECK_DEADLOCK FALSE

SPECIFICATION FairSpec

CONSTANTS
    Hosts = {a, b}
    Slow = {a}
    Nobody = Nobody
    MaxQueue = 1

INVARIANT
    AnswerIsUnderWay

PROPERTIES
    Findable
    NothingHandedDown
    CommandIsAnswered

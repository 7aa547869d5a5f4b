SPECIFICATION Spec

CONSTANTS
    Recordings <- MCRecordings
    Joined <- MCJoined
    FileClicks = {f1}
    GroupClicks = {g1}

\* A click may be made and answered, and then nothing happens.
CHECK_DEADLOCK FALSE

INVARIANTS
    BodyIsOneRun
    PromiseKept
    EitherOrderDelivers
    RetiresOneRun

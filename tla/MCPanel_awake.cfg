SPECIFICATION Spec

CONSTANTS
    Positions = {base, top}
    Addresses = {none, home}
    NoAddress = none
    Reasons = {"unplugged"}
    Faults = {"preempt", "settings", "flap", "idle", "splash"}

INVARIANTS
    StaleIsExplained

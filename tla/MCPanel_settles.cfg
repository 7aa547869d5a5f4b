SPECIFICATION FairSpec

CONSTANTS
    Positions = {base}
    Addresses = {none, home}
    NoAddress = none
    Reasons = {"unplugged"}
    Faults = {"idle", "halfway"}

PROPERTIES
    Settles
    MeasureRepeats

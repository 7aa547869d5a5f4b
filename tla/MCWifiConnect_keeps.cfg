SPECIFICATION Spec

CONSTANTS
    Names = {n1, n2, n3}
    Passwords = {k1, k2}
    Open = Open
    Half = Half
    Absent = Absent
    NotUp = NotUp
    Esc = "e"
    Sep = "s"

SYMMETRY Symmetry

INVARIANTS
    RightPasswordConnects
    NothingHalfStays

PROPERTIES
    KeepsWhatWorks

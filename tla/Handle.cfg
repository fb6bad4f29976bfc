SPECIFICATION Spec
CONSTANTS
    Contexts = {c1, c2, c3}
    None = None
    Names = {1, 2}
    HandleMask = 3
    DefaultSize = 2
    Launchers = 1
    LastHandle = 3
SYMMETRY Symmetry
INVARIANTS
    Reachable
    NamesAreAlive
    AbortMissesNone
CHECK_DEADLOCK FALSE

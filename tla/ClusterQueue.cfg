SPECIFICATION FairSpec
CONSTANTS
    Clients = {c1, c2, c3}
    Local = {c3}
    MaxLocks = 3
    None = None
INVARIANTS
    MutualExclusion
PROPERTIES
    ImplementsFifoLock
    Served
CHECK_DEADLOCK FALSE

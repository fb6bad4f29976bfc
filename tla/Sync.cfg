SPECIFICATION FairSpec
CONSTANTS
    e1 = e1
    e2 = e2
    p1 = p1
    None = None
    Coroutines = {c1, c2, c3}
    Lockers = {k1, k2, k3}
    Ids <- MCIds
    Nests <- MCNests
    MaxDepth = 2
INVARIANTS
    TypeOK
    MutualExclusion
    ResumeAssertion
    PoolQuiescent
    NoLostWakeup
PROPERTIES
    ImplementsFifoLock
    WaitersServed

SPECIFICATION FairSpec
CONSTANTS
    None = None
    Orders = {1, 2}
    Stuck = {1}
    Passes = {a}
    CheckCnt = 2
    MaxCopies = 1
    Objs = {o1, o2}
    MaxCrashes = 1
INVARIANTS
    TypeOK
    CreditedOnce
    SettledIsCredited
PROPERTIES
    Settles
CHECK_DEADLOCK FALSE

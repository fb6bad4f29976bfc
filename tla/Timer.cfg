SPECIFICATION Spec
CONSTANTS
    MaxId = 3
    Names = {a}
    LoopCounts = {1, 2}
    MaxCalls = 2
    None = None
INVARIANTS
    RecordsApart
    WaitedForOnce
    LoopsAsOften
CHECK_DEADLOCK FALSE

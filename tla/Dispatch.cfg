SPECIFICATION Spec
CONSTANTS
    boot = boot
    other = other
    w1 = w1
    w2 = w2
    timer = timer
    socket = socket
    None = None
    Services = {boot, other}
    Boot = boot
    Workers = {w1, w2}
    TimerThread = timer
    SocketThread = socket
    Weight <- MCWeight
    MaxMessages = 2
    IdleLoops = 1
INVARIANTS
    Scheduled
    RefCounted
    NotFreedWhileReferenced
    AssertionsHold
    AllAwake
PROPERTIES
    ImplementsServices
CHECK_DEADLOCK FALSE

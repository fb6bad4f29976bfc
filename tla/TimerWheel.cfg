SPECIFICATION FairSpec
CONSTANTS
    Timeouts = {t1, t2}
    Near = 2
    Level = 2
    Levels = 3
    MaxDelay = 18
    MaxLag = 2
INVARIANTS
    InPlace
PROPERTIES
    ImplementsAlarm
    Rings

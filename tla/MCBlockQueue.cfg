SPECIFICATION FairSpec
CONSTANTS
    Putters = {q1}
    CacheSize = 2
    Mode = "Blocking"
    MaxIndex = 4
    MaxExternal = 1
    Bad = {2}
    Start = 0
    None = None
CHECK_DEADLOCK FALSE
INVARIANTS RingSound
PROPERTIES PendingKept NextApplied

SPECIFICATION SyncSpec
CONSTANTS
    Putters = {q1}
    CacheSize = 4
    Mode = "NonBlocking"
    MaxIndex = 4
    MaxExternal = 0
    Bad = {}
    MaxBad = 1
    MaxLost = 1
    MaxHashesCount = 2
    Start = 0
    None = None
CHECK_DEADLOCK FALSE
PROPERTY EveryBlockFetched

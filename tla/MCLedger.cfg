SPECIFICATION Spec
CONSTANTS
    Batch = 2
    GCPeriod = 2
    MTBs <- OneMTB
    Interval = 3
    Word = 1000
    PagesCache = 1
    MaxHeight = 17
    MaxHeaders = 2
    MaxCrashes = 1
INVARIANTS
    Restartable
    TraceableKept
    SyncPointKept
    StorageBounded
CHECK_DEADLOCK FALSE

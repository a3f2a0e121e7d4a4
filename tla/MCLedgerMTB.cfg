SPECIFICATION Spec
CONSTANTS
    Batch = 2
    GCPeriod = 1
    MTBs <- LoweredMTB
    Interval = 0
    Word = 1000
    PagesCache = 1
    MaxHeight = 12
    MaxHeaders = 2
    MaxCrashes = 1
INVARIANTS
    TraceableKept
CHECK_DEADLOCK FALSE

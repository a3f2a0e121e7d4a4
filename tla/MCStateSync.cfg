SPECIFICATION Spec
CONSTANTS
    r = r
    t = t
    a = a
    c = c
    b = b
    l = l
    m = m
    Modes = {"MPTBased", "ContractStorageBased"}
    Interval = 2
    MaxTraceableBlocks = 2
    Heights = {3, 4, 6, 8}
    MaxHeight = 9
    HeaderBatch = 2
    Nodes = {r, t, a, c, b, l, m}
    Children <- MCChildren
    Roots = {r, t}
    Bad = Bad
    Messages <- MCMessages
    Items = 3
    ItemBatch = 2
    Objects = {"state", "other"}
    StateRootInHeader = TRUE
    MaxCrashes = 2
INVARIANTS
    PoolIsFrontier
    SyncedIsWhole
    JumpIsBacked
PROPERTIES
    EventuallyJumps

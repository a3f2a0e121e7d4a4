SPECIFICATION Spec
CONSTANTS
    Senders <- MCSenders
    singleCap = 2
    Index = 1
    Worlds <- MCDesignated
    voteValidEndInc = 1
    rootValidEndInc = 2
    maxRetries = 1
    MaxLost = 1
INVARIANT
    KeysOfHeight
CHECK_DEADLOCK FALSE

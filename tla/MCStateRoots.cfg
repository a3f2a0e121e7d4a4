SPECIFICATION Spec
CONSTANTS
    Senders <- MCSenders
    singleCap = 2
    Index = 1
    Worlds <- MCWorlds
    voteValidEndInc = 1
    rootValidEndInc = 2
    maxRetries = 1
    MaxLost = 1
INVARIANTS
    RootsBacked
    FirstTurnSends
PROPERTIES
    TimelyValidated
CHECK_DEADLOCK FALSE

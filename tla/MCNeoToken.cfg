SPECIFICATION Spec
CONSTANTS
    Accounts = {a, b}
    Owner = a
    Keys = {1, 2, 3}
    Applicants = {2, 3}
    standbyKeys <- MCStandby
    validatorsCount = 1
    NEOTotalSupply = 2
    GasPerBlock = {1, 2}
    voterRewardFactor = 2
    MaxHeight = 4
    MaxRestarts = 1
    MaxCalls = 5
INVARIANTS
    BalancesAddUp
    HoldersPaid
    RewardsGrow
PROPERTIES
    CommitteeElected
CHECK_DEADLOCK FALSE

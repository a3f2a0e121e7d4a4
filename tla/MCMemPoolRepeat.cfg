SPECIFICATION Spec
CONSTANTS
    t1 = t1
    t2 = t2
    t3 = t3
    t4 = t4
    t5 = t5
    t6 = t6
    t7 = t7
    t8 = t8
    a = a
    b = b
    Txs = {t1, t2, t3}
    Tx <- Repeating
    NoOracle = NoOracle
    Payers = {a, b}
    Balances <- TwoBalances
    Policies = {1}
    Capacity = 3
    Word = 64
CHECK_DEADLOCK FALSE
INVARIANT FeesCovered

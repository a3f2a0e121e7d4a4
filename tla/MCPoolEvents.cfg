SPECIFICATION FairSpec
CONSTANTS
    Adders = {a1, a2}
    Txs = {x, y}
    None = None
INVARIANTS EventsAccountForPool
PROPERTY NobodyStuck

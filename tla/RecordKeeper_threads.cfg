SPECIFICATION Spec
CONSTANTS
    Threads = {i1, i2}
    Blocks = {g, b1, b2, b3}
    Genesis = g
    None = none
    Txns = {"v", "a", "r", "c", "s"}
    Stacking = {"s"}
    Registering = {"v"}
    Creator <- MCCreator
    Follows <- MCFollows
    Rivals <- MCRivals
    MaxPending = 2
    Elsewhere = {{"v"}, {"s"}, {"a", "c"}}
    Offered = {"a", "r", "c", "s"}
    MaxPkg = 2
SYMMETRY Symmetry
INVARIANTS
    BlocksComplete
    HistoryConsistent
    PoolHasNoRivals
PROPERTIES
    ImportCleansPool
    NoTxnLost

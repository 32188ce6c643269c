CONSTANTS
    ex = ex
    ey = ey
    x = x
    y = y
    Ids = {nokey, x, y}
    Endpoints = {ex, ey}
    None = None
    NoKey = nokey
    Seeds <- MCSeeds
    MaxScore = 0
    SAVED_NODES_COUNT = 2
    Own <- MCOwn
    Reach <- MCReach
    Tcp = {ey}
    Incompatible = {y}
    MyId = me
    MinNodes = 1
    AttachNodes = 2
    MAX_ABUSES = 0
    Files <- MCFiles
    MaxOpening = 1
    MaxUnsent = 1
    IdxCycle = 2
SPECIFICATION Spec
INVARIANT KeyedByAddress
INVARIANT UnsentOnlyWhileAlone
PROPERTY EveryNodeTried
CHECK_DEADLOCK FALSE

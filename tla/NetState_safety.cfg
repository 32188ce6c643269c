SPECIFICATION NetSpec
CONSTANTS
    Blocks = {g, b1, b2, b3, b4}
    Genesis = g
    Zero = zero
    None = none
    MaxHeight = 4
    MaxPkg = 2
    AdminBins <- MCAdminBins
    AdminBin <- ADMIN
    AdminValues <- MCAdminValues
    Validators = {"val", "new"}
    Plots = {"p", "q"}
    RawEvents = {"e", "f"}
    Mutations <- MCMutations
    GenesisMut <- MCGenesis
    BucketSize = 1
    MaxTick = 1
    StakeRange = 32
    Reward = 10
SYMMETRY Symmetry
INVARIANTS
    StakesFollowChain
    LastingValuesFollowChain
    NoStrayEvents
PROPERTIES
    ValuesCommitted

CONSTANTS
    e1 = e1
    e2 = e2
    Ids = {nokey, x, y}
    Endpoints = {e1, e2}
    None = None
    Torn = Torn
    NoKey = nokey
    Seeds <- MCSeeds
    MaxScore = 2
    SAVED_NODES_COUNT = 2
SPECIFICATION RepoSpec
INVARIANT RepoConsistent
INVARIANT CleanIsSaved

CONSTANTS
    Peers = {p1, p2}
    None = None
    MaxHeight = 2
    PackageSize = 1
    MAX_JOB_RETRIES = 1
    MaxQueue = 2
    MaxFaults = 1
SPECIFICATION Spec
INVARIANT CurrentCovered
INVARIANT RequestsCovered
PROPERTY JobsEnd
PROPERTY SyncBringsTarget
CHECK_DEADLOCK FALSE

CONSTANTS
    Keys = {k1}
    None = None
    ReqValidators <- MCReqValidators
    Epoch = 1000
    Tasks = {t1, t2}
    MaxWait = 2
    MaxHeight = 3
    MaxEvents = 2
    MaxUncles = 1
    MaxErrors = 1
SPECIFICATION Spec
INVARIANT CandidateTimed
INVARIANT NobodyForgotten
CHECK_DEADLOCK FALSE
PROPERTY ForgingEnds

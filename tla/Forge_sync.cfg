CONSTANTS
    Keys = {k1}
    None = None
    ReqValidators <- MCReqValidators
    Epoch = 1000
    Tasks = {t1, t2}
    MaxWait = 2
    MaxHeight = 2
    MaxEvents = 2
    MaxUncles = 0
    MaxErrors = 0
SPECIFICATION Spec
CHECK_DEADLOCK FALSE
PROPERTY ForgingResumes

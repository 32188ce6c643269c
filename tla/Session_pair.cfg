CONSTANTS
    Peers = {p1, p2}
    Nothing = Nothing
    TIMEOUT_TOLERANCE = 1
    MaxFaults = 1
    MaxUpsets = 1
    MaxOpening = 1
SPECIFICATION SessionSpec
PROPERTY NoFalseTimeout
PROPERTY HalfOpenEnds
PROPERTY IntroductionEnds

CONSTANTS
    Size = 5
    MenRows = 1
    MaxTurn = 8
    MaxPath = 2
SPECIFICATION BoardSpec
INVARIANT PlayExact
CHECK_DEADLOCK FALSE

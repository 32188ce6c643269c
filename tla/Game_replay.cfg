CONSTANTS
    a = a
    b = b
    Size = 3
    MenRows = 1
    Players = {a, b}
    Zero = Zero
    Starts <- MCStarts
    Moves <- MCMoves
    MAX_TURNS = 4
    MaxHeight = 2
    MaxBlocks = 3
SPECIFICATION Spec

INVARIANT ReplaysWork
CHECK_DEADLOCK FALSE

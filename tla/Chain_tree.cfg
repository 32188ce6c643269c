SPECIFICATION Spec
CONSTANTS
    Blocks = {g, b1, b2, b3, b4, b5}
    Genesis = g
    Zero = zero
    None = none
    MaxHeight = 4
    MaxPkg = 2
    Limits = {1, 2}
SYMMETRY Symmetry
INVARIANTS
    TypeOK
    HeightCachesExact
    CurrentChainExact
    UndoAvailable
    BlockPathExact
    AncestorExact
    SyncReachesTarget
    CutSyncIsImportable
PROPERTIES
    ImplementsBlockTree
    ReorgReported
    AddBlockAsserts

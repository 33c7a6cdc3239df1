SPECIFICATION SpecNoTrunc
CONSTANTS
    BlockCount = 3
    InodeCount = 3
    BlockSize = 2
    MaxPos = 7
    Handle = {h1, h2}
    NoHandle = NoHandle
SYMMETRY HandleSymmetry
INVARIANTS
    NoLostBlocks
    SizeBacked
    ListComplete
PROPERTY ShortWriteMeansFull

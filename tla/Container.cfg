SPECIFICATION Spec
CONSTANTS
    InodeCount = 2
    MaxId = 4
    MaxBlocks = 5
    MaxFaults = 2
INVARIANTS
    Reopens
    OpenIsComplete
    BlocksReadable
    HintsFindFree
PROPERTY
    UsedBlocksKept

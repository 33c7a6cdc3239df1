SPECIFICATION Spec
CONSTANTS
    BlockCount = 3
    InodeCount = 3
    BlockSize = 2
    MaxPos = 4
    Handle = {h1, h2}
    NoHandle = NoHandle
SYMMETRY HandleSymmetry
INVARIANT ListComplete

SPECIFICATION FileSpec
CONSTANTS
    BlockCount = 2
    InodeCount = 3
    BlockSize = 2
    MaxPos = 5
    Handle = {h1, h2}
    NoHandle = NoHandle
    Data <- MCData
SYMMETRY HandleSymmetry
PROPERTIES
    FilesSpec

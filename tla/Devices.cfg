SPECIFICATION Spec
CONSTANTS
    Byte = {0, 1}
    MaxSize = 3
    MaxRead = 2
    Data <- MCData
    Bounds <- MCBounds
    BlockSize = 2
    BlockCount = 2
    BlocksAt = 0
INVARIANTS
    DevicesOK
    BlocksKept
PROPERTIES
    DeviceSpec

SPECIFICATION Spec
CONSTANTS
    BlockCount = 3
    InodeCount = 3
    MaxCrashes = 2
    MaxHarms = 1
INVARIANTS
    LeakBounded
    SizeBackedAfterCrash
    TornWipeContained
CHECK_DEADLOCK FALSE

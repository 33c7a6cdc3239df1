SPECIFICATION Spec
CONSTANTS
    InodeCount = 3
    Name = {"ac", "bB", "x", "long"}
    TooLong = {"long"}
    HashOf <- MCHashOf
INVARIANT UnlinkAllOrNothing

SPECIFICATION FairSpec
CONSTANTS
    Process = {p1, p2, p3}
INVARIANTS
    ViewsHold
PROPERTIES
    SharedSpec
    LockReleased
    WaitEnds

CONSTANT
    NumConns = 2
SPECIFICATION Spec
INVARIANTS
    ReadyNotStopped
PROPERTIES
    InitEnds
    StopReachesOnStop
CHECK_DEADLOCK FALSE

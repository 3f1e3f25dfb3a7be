CONSTANTS
    c1 = c1
    c2 = c2
    Producer = p1
    Consumers <- TwoConsumers
    TryPoppers <- OneOfThem
    Size = 2
    Garbage <- Behind
    MaxItems = 3
    MaxCrashes = 1
SPECIFICATION Spec
INVARIANTS
    WaitingWhole
    PoppedOnce
    CopyWhole
PROPERTIES
    WaiterServed
    JoinEnds
CHECK_DEADLOCK FALSE

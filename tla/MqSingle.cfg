CONSTANTS
    p1 = p1
    p2 = p2
    s1 = s1
    Producers <- OneProducer
    Subs <- OneSub
    RingSize = 2
    IsSingleP = TRUE
    MaxMessages = 4
    LastGetNew = 4
SPECIFICATION Spec
PROPERTIES
    LogSpec
CHECK_DEADLOCK FALSE

CONSTANTS
    p1 = p1
    p2 = p2
    s1 = s1
    Producers <- TwoProducers
    Subs <- OneSub
    RingSize = 3
    IsSingleP = FALSE
    MaxMessages = 4
    LastGetNew = 1
SPECIFICATION FairSpec
INVARIANTS
    InFlightOwned
    PublishedWindow
    Intact
    CursorBehindTail
PROPERTIES
    PublishedInOrder
    ClaimIsPublished
CHECK_DEADLOCK FALSE

CONSTANTS
    p1 = p1
    g1 = g1
    Pollers <- OnePoller
    Getters <- OneGetter
    BlockNum = 3
    MaxUpdates = 4
SPECIFICATION Spec
INVARIANTS
    RingWindow
    IntactUntilLapped
    NeverOlderThanTag
PROPERTIES
    NeverBackwards
    FeedSpec
CHECK_DEADLOCK FALSE

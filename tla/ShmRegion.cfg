CONSTANTS
    s1 = s1
    Strategies <- OneStrategy
    Lists <- ShortAndFull
    Added <- AddedThree
    MaxNum = 3
    InstrumentBytes = 11200040
    PageBytes = 4096
    InitsPerRun = 2
    MaxRegions = 3
    MaxUpdates = 1
SPECIFICATION Spec
INVARIANTS
    FreshSurvives
    SnapshotComplete
    SameHead
PROPERTIES
    HeadsKept
    AttachEnds
CHECK_DEADLOCK FALSE

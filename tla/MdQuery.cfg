\* A ring of five that wraps while it is searched.
CONSTANTS
    Pollers = {}
    Getters = {}
    BlockNum = 5
    MaxUpdates = 7
    PerSecond = 1
    Feeds <- MCFeeds
    Tps <- MCTps
    Offsets = {0, 3}
    Years = {1970, 1999, 2000, 2024, 2099, 2100}

SPECIFICATION QuerySpec

CHECK_DEADLOCK FALSE

INVARIANTS
    ByTpFinds
    RangeFinds
    DayIsADay

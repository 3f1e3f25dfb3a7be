CONSTANTS
    binance = binance
    other = other
    Libs <- BothLibs
    LibPath <- ThreeConns
    MaxSignals = 2
SPECIFICATION Spec
INVARIANTS
    MappedUntilReleased
    StartedIsManaged
PROPERTIES
    EarlySignalHeard
CHECK_DEADLOCK FALSE

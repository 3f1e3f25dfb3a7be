CONSTANTS
    binance = binance
    other = other
    Libs <- BothLibs
    LibPath <- ThreeConns
    MaxSignals = 2
SPECIFICATION Spec
PROPERTIES
    SignalWakes
CHECK_DEADLOCK FALSE

\* Two senders, three messages, three failures.
CONSTANTS
    Senders <- MCSenders
    MaxSends = 3
    MaxFailures = 3

SPECIFICATION Spec

CHECK_DEADLOCK FALSE

INVARIANTS
    FlagOwned
    WritesFront
    OneConnection

PROPERTIES
    WrittenInOrder
    ComesBack
    SentUnlessLost

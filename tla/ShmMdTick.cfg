\* Three heads for one instrument from the start and two that come later, one
\* reader (readers share nothing they write), four updates of each instrument: the three slots wrap.
CONSTANTS
    Instruments <- MCInstruments
    Added <- MCAdded
    MaxNum = 3
    Readers = {r1}
    MaxUpdates = 4

SPECIFICATION Spec

CHECK_DEADLOCK FALSE

INVARIANTS
    AttachFinds
    IntactOneBehind
    TickNotOlder

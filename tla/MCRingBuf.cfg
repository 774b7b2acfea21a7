CONSTANTS
    BufSize = 4
    Byte = {0, 1}
    Writes <- MCWrites
SPECIFICATION RingSpec
INVARIANTS
    NoSlotRace
PROPERTY
    ImplementsFifo

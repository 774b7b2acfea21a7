CONSTANTS
    ByteMax = 4
    CrcSize = 1
    IdSize = 1
    MaxData = 2
    PacketTimeout = 1
    Crc <- MCCrc
    Messages <- MCMessages
    MaxFaults = 1
SPECIFICATION Spec
INVARIANTS
    TypeOK
    CleanPacketArrives

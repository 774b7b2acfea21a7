CONSTANTS
    BufSize = 3
    Byte = {0, 1}
    CR = 0
    LF = 1
    Requests <- MCRequests
    MaxTx = 4
    MaxRx = 3
SPECIFICATION Spec
INVARIANTS
    TypeOK
    TransmitInOrder
    ReceiveInOrder
    NoLostWakeup
PROPERTIES
    FlushMeansSent
    EverythingIsSent
    CallsReturn

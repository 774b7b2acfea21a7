CONSTANTS
    Tasks = {shell, sensors}
    Shell = shell
    TxSize = 2
    RxSize = 2
    AppSize = 4
    PacketSize = 2
    CR = 13
    LF = 10
    Letters = {97}
    Texts <- MCTexts
    ReadLen = 2
    Scenarios <- MCScenarios
SPECIFICATION Spec
INVARIANTS
    TypeOK
    WritesInOrder
    NoLostWakeup
    ReadsWhatWasTyped
PROPERTY
    OutputKeepsFlowing

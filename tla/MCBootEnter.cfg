CONSTANTS
    Sectors <- MCSectors
    Sections <- MCSections
    OldImage <- MCOldImage
    AckWindow = 1
    MaxFaults = 1
SPECIFICATION Spec
PROPERTY
    EnteringEnds

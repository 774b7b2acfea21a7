CONSTANTS
    Sectors <- MCSectors
    Sections <- MCSections
    OldImage <- MCOldImage
    AckWindow = 1
    MaxFaults = 4
SPECIFICATION Spec
INVARIANTS
    VerifiedSections
PROPERTIES
    ImplementsFirmware
    RetrySucceeds
    IntactAppRuns

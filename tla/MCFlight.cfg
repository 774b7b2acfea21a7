CONSTANTS
    NumMotors = 2
    RcTimeout = 1
    TAlign = 1
    TSteps = {2}
    TRun = 3
    UStart = 1
    UMax = 1
    DuMax = 1
    Reversed = {2}
    RcModes <- MCRcModes
    Measurements <- MCMeasurements
SPECIFICATION Spec
INVARIANTS
    StartsFromRest
PROPERTIES
    StoppedWhenDisarmed
    FailSafe
    ArmedMotorsRun
    KeepsDirection

CONSTANTS
    min_width = 2
    max_width = 6
    sync_width = 9
    expected_channels = 3
    RC_MAX_CHANNELS = 4
    FrameLimit = 16
    Modulus = 48
    Widths = {3, 5}
    Scenarios <- MCScenarios
SPECIFICATION PpmSpec
INVARIANTS
    PpmTypeOK
    CounterReachesArr
PROPERTIES
    ValidFrameIsWhatWasSent
    Recovers

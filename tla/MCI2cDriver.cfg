CONSTANTS
    sensors = sensors
    usb_shell = usb_shell
    uart_shell = uart_shell
    None = None
    Tasks <- MCTasks
    Scenarios <- MCScenarios
SPECIFICATION Spec
INVARIANTS
    MutualExclusion
    CleanStart
PROPERTIES
    OkMeansServed
    ImplementsService
    CallsReturn

CONSTANTS
    sensors = sensors
    usb_shell = usb_shell
    uart_shell = uart_shell
    None = None
    Tasks <- MCTasks
    Scenarios <- MCSharedFaulty
SPECIFICATION Spec
INVARIANT
    MutualExclusion

CONSTANTS
    NumParams = 2
    Values = {2, 3}
    Default = 2
    usb_shell = usb_shell
    uart_shell = uart_shell
    init_task = init_task
    Shells <- MCShells
    MaxCuts = 1
SYMMETRY Symmetry
SPECIFICATION Spec
INVARIANTS
    WholeImage
PROPERTIES
    SavedIsStored
    LoadRestores
CHECK_DEADLOCK FALSE

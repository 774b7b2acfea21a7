----------------------------- MODULE MCI2cDriver -----------------------------
EXTENDS I2cDriver

CONSTANTS sensors, usb_shell, uart_shell

MCTasks == {sensors, usb_shell, uart_shell}

\* All tasks on a bus whose slaves may not answer, and one task alone on a
\* bus that shows every fault.
MCScenarios ==
    {[clients |-> MCTasks, faults |-> {"nak"}],
     [clients |-> {sensors}, faults |-> Faults]}

\* Two i2c_scan commands at once, on the USB and on the serial shell, on a bus
\* with faults.
MCSharedFaulty ==
    {[clients |-> {usb_shell, uart_shell}, faults |-> Faults]}
=============================================================================

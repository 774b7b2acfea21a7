----------------------------- MODULE MCParameter -----------------------------
EXTENDS Parameter, TLC

CONSTANTS usb_shell, uart_shell

MCShells == {usb_shell, uart_shell}

Symmetry == Permutations(MCShells)
=============================================================================

------------------------------- MODULE Firmware -------------------------------
(***************************************************************************)
(* What the boot loader promises about the application in the flash: it    *)
(* runs only when it is whole, and it is only changed while it does not    *)
(* run, whatever the host sends, whatever gets lost and whenever the power *)
(* fails.                                                                  *)
(***************************************************************************)


CONSTANT Images    \* the whole images: the old one and the new one

VARIABLES image,   \* the image in the flash, or "part" of one
          running  \* the application has been started

vars == <<image, running>>

Init == /\ image \in Images \cup {"part"}
        /\ running \in BOOLEAN
        /\ running => image # "part"

\* Erasing and writing.
Change == /\ ~running
          /\ image' \in Images \cup {"part"}
          /\ UNCHANGED running

Start == /\ ~running /\ image # "part"
         /\ running' = TRUE
         /\ UNCHANGED image

Reset == /\ running
         /\ running' = FALSE
         /\ UNCHANGED image

Next == Change \/ Start \/ Reset

Spec == Init /\ [][Next]_vars
=============================================================================

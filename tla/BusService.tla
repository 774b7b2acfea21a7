------------------------------ MODULE BusService ------------------------------
(***************************************************************************)
(* What the I2C driver promises its tasks: whoever has the bus has it for  *)
(* a whole call, the register number of a read and its data together, and  *)
(* a call that succeeds had every transfer of it completed on the bus, one *)
(* after the other, with none of another task in between.                  *)
(***************************************************************************)
CONSTANTS Tasks, None

VARIABLES call,    \* per task: what it asked for, or which part of it is under
                   \* way, and "done" once it has succeeded
          owner,   \* the task that has the bus, or None
          served   \* the bus has completed the transfer that is under way

vars == <<call, owner, served>>

Init == /\ call = [t \in Tasks |-> "none"]
        /\ owner = None /\ served = FALSE

Ask(t) ==
    /\ owner # t
    /\ \E o \in {"read_reg", "write"} : call' = [call EXCEPT ![t] = o]
    /\ UNCHANGED <<owner, served>>

Begin(t) ==
    /\ owner = None /\ call[t] \in {"read_reg", "write"}
    /\ owner' = t
    /\ UNCHANGED <<call, served>>

Serve ==
    /\ owner # None
    /\ served' = TRUE
    /\ UNCHANGED <<call, owner>>

\* The transfer that was served was the first of a read, or the last one.
Go(t) ==
    /\ owner = t /\ served
    /\ \/ call[t] = "read_reg" /\ call' = [call EXCEPT ![t] = "read_data"]
       \/ call[t] \in {"read_data", "write"} /\ call' = [call EXCEPT ![t] = "done"]
    /\ served' = FALSE
    /\ UNCHANGED owner

\* Done, or failed at any point.
Return(t) ==
    /\ owner = t
    /\ owner' = None /\ served' = FALSE
    /\ UNCHANGED call

Next == Serve \/ \E t \in Tasks : Ask(t) \/ Begin(t) \/ Go(t) \/ Return(t)

Spec == Init /\ [][Next]_vars
=============================================================================

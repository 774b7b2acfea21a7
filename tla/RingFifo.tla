------------------------------- MODULE RingFifo ------------------------------
(***************************************************************************)
(* What ringbuf.h promises to one reader and one writer: a bounded first-  *)
(* in, first-out queue of bytes.  A write appends a prefix of the bytes it *)
(* was given, in one indivisible step; a read removes the oldest bytes and *)
(* returns them.  Nothing is lost, duplicated, reordered or invented.      *)
(***************************************************************************)
EXTENDS Integers, Sequences

CONSTANTS Capacity, Byte

VARIABLES q,     \* the bytes in the queue, oldest first
          data,  \* the bytes the current rb_write was called with
          got    \* the bytes the latest rb_read returned

fifoVars == <<q, data, got>>

Init == q = <<>> /\ data = <<>> /\ got = <<>>

\* rb_write is called.
Request == /\ data' \in Seq(Byte)
           /\ UNCHANGED <<q, got>>

\* rb_write takes effect and returns.
Put == /\ \E n \in 0 .. Len(data) :
             /\ Len(q) + n <= Capacity
             /\ q' = q \o SubSeq(data, 1, n)
       /\ UNCHANGED <<data, got>>

\* rb_read takes effect and returns.
Get == /\ \E n \in 0 .. Len(q) :
             /\ got' = SubSeq(q, 1, n)
             /\ q' = SubSeq(q, n + 1, Len(q))
       /\ UNCHANGED data

Next == Request \/ Put \/ Get

Spec == Init /\ [][Next]_fifoVars
=============================================================================

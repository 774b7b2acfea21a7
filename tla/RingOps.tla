------------------------------- MODULE RingOps -------------------------------
(***************************************************************************)
(* The pure part of ringbuf.h (Bootloader/ and Source/ hold identical      *)
(* copies): what a struct ringbuf is, how many bytes it holds, which       *)
(* slots a call may touch and how a position moves.  Positions never leave *)
(* 0 .. BufSize-1, so the 32-bit unsigned arithmetic of the C code cannot  *)
(* wrap and plain integers are exact (the signed "int ret" of              *)
(* rb_bytes_used included).                                                *)
(***************************************************************************)
EXTENDS Integers, Sequences

CONSTANTS BufSize,   \* the "size" of RINGBUF( size ); 4096 in uart.c
          Byte       \* the values of a char

ASSUME BufSizeAssumption == BufSize \in Nat \ {0}

Slots == 0 .. BufSize - 1

Ring == [buf : [Slots -> Byte], read_pos : Slots, write_pos : Slots]

EmptyRings == [buf : [Slots -> Byte], read_pos : {0}, write_pos : {0}]

\* RINGBUF( size ): a static buffer, all zero.
RINGBUF == [buf |-> [s \in Slots |-> 0], read_pos |-> 0, write_pos |-> 0]

BytesUsed(rb) ==
    LET ret == rb.write_pos - rb.read_pos
    IN  IF ret < 0 THEN ret + BufSize ELSE ret

\* A mutant: no slot is kept free.
BytesFreeNoGap(rb) == BufSize - BytesUsed(rb)

BytesFree(rb) == BufSize - BytesUsed(rb) - 1

Modes == {"RB_READ", "RB_WRITE"}

(***************************************************************************)
(* What rb_get_pointers hands out: up to nbyte bytes in a first chunk      *)
(* at slot ptr1 and, after a wrap, a second chunk at slot 0.               *)
(***************************************************************************)
Chunks == [ptr1 : Slots, len1 : Nat, len2 : Nat]

Pointers(rb, mode, nbyte) ==
    LET pos      == IF mode = "RB_READ" THEN rb.read_pos ELSE rb.write_pos
        maxBytes == IF mode = "RB_READ" THEN BytesUsed(rb) ELSE BytesFree(rb)
        n        == IF nbyte > maxBytes THEN maxBytes ELSE nbyte
        len1     == IF n > BufSize - pos THEN BufSize - pos ELSE n
    IN  [ptr1 |-> pos, len1 |-> len1, len2 |-> n - len1]

Total(ck) == ck.len1 + ck.len2

\* The slot that byte i (0, 1, ...) of the two memcpy calls goes to or
\* comes from.
SlotOf(ck, i) == IF i < ck.len1 THEN ck.ptr1 + i ELSE i - ck.len1

\* A mutant: ">" for ">=".
AdvanceOffByOne(pos, nbyte) ==
    IF pos + nbyte > BufSize THEN pos + nbyte - BufSize ELSE pos + nbyte

Advance(pos, nbyte) ==
    IF pos + nbyte >= BufSize THEN pos + nbyte - BufSize ELSE pos + nbyte

Commit(rb, mode, nbyte) ==
    IF mode = "RB_READ"
    THEN [rb EXCEPT !.read_pos  = Advance(@, nbyte)]
    ELSE [rb EXCEPT !.write_pos = Advance(@, nbyte)]

\* The bytes the ring holds, oldest first.
Contents(rb) ==
    [i \in 1 .. BytesUsed(rb) |-> rb.buf[Advance(rb.read_pos, i - 1)]]
=============================================================================

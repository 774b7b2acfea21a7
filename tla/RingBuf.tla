-------------------------------- MODULE RingBuf -------------------------------
(***************************************************************************)
(* ringbuf.h as a "lock-free single reader/single writer ring buffer": one *)
(* thread is in rb_write while another is in rb_read, and every access to  *)
(* memory the two share is a step of its own.  rb_putchar and rb_getchar   *)
(* are the calls with nbyte = 1.  The compiler is assumed to keep the      *)
(* order of the stores to the buffer and to the volatile positions.        *)
(* (RingInit, RingNext, ...: Uart_proofs extends this module and Uart.)     *)
(***************************************************************************)
EXTENDS RingOps

CONSTANT Writes   \* the byte sequences rb_write is called with

ASSUME WritesAssumption == Writes \subseteq Seq(Byte)

VARIABLES rb,       \* the shared struct ringbuf
          writer,   \* locals of the thread in rb_write
          reader    \* locals of the thread in rb_read

ringVars == <<rb, writer, reader>>

NoChunks == [ptr1 |-> 0, len1 |-> 0, len2 |-> 0]

RingInit ==
    /\ rb \in EmptyRings
    /\ writer = [busy |-> FALSE, data |-> <<>>, ck |-> NoChunks, done |-> 0]
    /\ reader = [busy |-> FALSE, data |-> <<>>, ck |-> NoChunks, got |-> <<>>]

-----------------------------------------------------------------------------
(* rb_write                                                                *)

\* rb_get_pointers samples the reader's position: the space found is a lower
\* bound of what is free later.
WriteBegin ==
    /\ ~writer.busy
    /\ \E data \in Writes :
          writer' = [busy |-> TRUE, data |-> data, done |-> 0,
                     ck   |-> Pointers(rb, "RB_WRITE", Len(data))]
    /\ UNCHANGED <<rb, reader>>

\* One byte of the memcpy calls.
WriteByte ==
    /\ writer.busy
    /\ writer.done < Total(writer.ck)
    /\ rb' = [rb EXCEPT !.buf[SlotOf(writer.ck, writer.done)]
                            = writer.data[writer.done + 1]]
    /\ writer' = [writer EXCEPT !.done = @ + 1]
    /\ UNCHANGED reader

\* A mutant: the position moves before the bytes are there.
WriteCommitEarly ==
    /\ writer.busy
    /\ rb' = Commit(rb, "RB_WRITE", Total(writer.ck))
    /\ writer' = [writer EXCEPT !.busy = FALSE]
    /\ UNCHANGED reader

WriteCommit ==
    /\ writer.busy
    /\ writer.done = Total(writer.ck)
    /\ rb' = Commit(rb, "RB_WRITE", writer.done)
    /\ writer' = [writer EXCEPT !.busy = FALSE]
    /\ UNCHANGED reader

-----------------------------------------------------------------------------
(* rb_read                                                                 *)

ReadBegin ==
    /\ ~reader.busy
    /\ \E nbyte \in 0 .. BufSize :
          reader' = [reader EXCEPT !.busy = TRUE, !.data = <<>>,
                                   !.ck = Pointers(rb, "RB_READ", nbyte)]
    /\ UNCHANGED <<rb, writer>>

ReadByte ==
    /\ reader.busy
    /\ Len(reader.data) < Total(reader.ck)
    /\ reader' = [reader EXCEPT
                    !.data = Append(@, rb.buf[SlotOf(reader.ck, Len(@))])]
    /\ UNCHANGED <<rb, writer>>

\* The position is released once the bytes are copied out.
ReadCommit ==
    /\ reader.busy
    /\ Len(reader.data) = Total(reader.ck)
    /\ rb' = Commit(rb, "RB_READ", Len(reader.data))
    /\ reader' = [reader EXCEPT !.busy = FALSE, !.got = reader.data]
    /\ UNCHANGED writer

RingNext == \/ WriteBegin \/ WriteByte \/ WriteCommit
            \/ ReadBegin  \/ ReadByte  \/ ReadCommit

RingSpec == RingInit /\ [][RingNext]_ringVars

-----------------------------------------------------------------------------
(* Properties                                                              *)

Writers == [busy : BOOLEAN, data : Seq(Byte), ck : Chunks, done : Nat]
Readers == [busy : BOOLEAN, data : Seq(Byte), ck : Chunks, got : Seq(Byte)]

RingTypeOK == rb \in Ring /\ writer \in Writers /\ reader \in Readers

\* The bytes a call still has claimed, as slots.
Claimed(ck) == {SlotOf(ck, i) : i \in 0 .. Total(ck) - 1}

\* Between rb_get_pointers and rb_commit the writer and the reader never own
\* a slot in common, whatever the other side does meanwhile: neither memcpy
\* can touch a byte the other one is copying (rb_bytes_free keeps one slot
\* unused, rb_commit publishes a slot only after its copy).
NoSlotRace ==
    writer.busy /\ reader.busy
        => Claimed(writer.ck) \cap Claimed(reader.ck) = {}

\* rb_read and rb_write implement the queue of RingFifo: the reader gets
\* exactly the bytes the writer stored, in order, across every wrap-around.
Fifo == INSTANCE RingFifo
          WITH Capacity <- BufSize - 1, q <- Contents(rb),
               data <- writer.data, got <- reader.got

ImplementsFifo == Fifo!Spec

\* A claim starts at the owner's position and wraps only at the end.
WellFormed(ck, pos) ==
    /\ ck.ptr1 = pos
    /\ ck.len1 <= BufSize - pos
    /\ ck.len2 > 0 => ck.len1 = BufSize - pos

\* The claims are exact: each fits what is free or used at this moment, what
\* the writer has copied so far is in the slots it will publish, and what the
\* reader has copied so far is still what the ring holds.  (With RingTypeOK
\* this is inductive.)
ClaimsValid ==
    /\ writer.busy =>
         /\ WellFormed(writer.ck, rb.write_pos)
         /\ Total(writer.ck) <= Len(writer.data)
         /\ Total(writer.ck) <= BytesFree(rb)
         /\ writer.done <= Total(writer.ck)
         /\ \A i \in 0 .. writer.done - 1 :
               rb.buf[SlotOf(writer.ck, i)] = writer.data[i + 1]
    /\ reader.busy =>
         /\ WellFormed(reader.ck, rb.read_pos)
         /\ Total(reader.ck) <= BytesUsed(rb)
         /\ Len(reader.data) <= Total(reader.ck)
         /\ \A i \in 0 .. Len(reader.data) - 1 :
               rb.buf[SlotOf(reader.ck, i)] = reader.data[i + 1]
=============================================================================

------------------------------ MODULE Uart_proofs -----------------------------
(***************************************************************************)
(* Proofs about the ring buffer and about the serial port that is built    *)
(* on it, for every ring size and every byte sequence.                     *)
(*                                                                         *)
(* RingBuf: the claims of the reader and the writer stay valid, they never *)
(* share a slot, and the ring implements the queue of RingFifo.            *)
(*                                                                         *)
(* Uart: nothing is lost between the main program and the interrupt        *)
(* handler, no byte waits with the transmit interrupt off, and uart_flush  *)
(* returns on an empty line.                                               *)
(***************************************************************************)
EXTENDS Uart, RingBuf, SequenceTheorems, TLAPS

-----------------------------------------------------------------------------
(* What is used and free in a ring, and what a commit changes              *)

LEMMA UsedFree ==
    ASSUME NEW r \in Ring
    PROVE  /\ BytesUsed(r) \in 0 .. BufSize - 1
           /\ BytesFree(r) \in 0 .. BufSize - 1
           /\ BytesUsed(r) + BytesFree(r) = BufSize - 1
BY BufSizeAssumption DEF Ring, Slots, BytesUsed, BytesFree

LEMMA AdvanceInSlots ==
    ASSUME NEW pos \in Slots, NEW n \in 0 .. BufSize
    PROVE  Advance(pos, n) \in Slots
BY BufSizeAssumption DEF Slots, Advance

LEMMA CommitOfRead ==
    ASSUME NEW r \in Ring, NEW n \in 0 .. BytesUsed(r)
    PROVE  LET s == Commit(r, "RB_READ", n)
           IN  /\ s \in Ring
               /\ s = [r EXCEPT !.read_pos = Advance(r.read_pos, n)]
               /\ BytesUsed(s) = BytesUsed(r) - n
               /\ BytesFree(s) = BytesFree(r) + n
<1>1. BytesUsed(r) \in 0 .. BufSize - 1  BY UsedFree
<1>2. Advance(r.read_pos, n) \in Slots
      BY <1>1, AdvanceInSlots, BufSizeAssumption DEF Ring
<1> DEFINE s == [r EXCEPT !.read_pos = Advance(r.read_pos, n)]
<1>3. s = Commit(r, "RB_READ", n)  BY DEF Commit
<1>4. /\ s \in Ring
      /\ s.read_pos = Advance(r.read_pos, n)
      /\ s.write_pos = r.write_pos
      BY <1>2 DEF Ring
<1> HIDE DEF s
<1>5. BytesUsed(s) = BytesUsed(r) - n
      BY <1>1, <1>4, BufSizeAssumption DEF Ring, BytesUsed, Advance, Slots
<1> QED  BY <1>1, <1>3, <1>4, <1>5, BufSizeAssumption DEF BytesFree, s

LEMMA CommitOfWrite ==
    ASSUME NEW r \in Ring, NEW n \in 0 .. BytesFree(r)
    PROVE  LET s == Commit(r, "RB_WRITE", n)
           IN  /\ s \in Ring
               /\ s = [r EXCEPT !.write_pos = Advance(r.write_pos, n)]
               /\ BytesUsed(s) = BytesUsed(r) + n
               /\ BytesFree(s) = BytesFree(r) - n
<1>1. /\ BytesUsed(r) \in 0 .. BufSize - 1
      /\ BytesFree(r) \in 0 .. BufSize - 1
      BY UsedFree
<1>2. Advance(r.write_pos, n) \in Slots
      BY <1>1, AdvanceInSlots, BufSizeAssumption DEF Ring
<1> DEFINE s == [r EXCEPT !.write_pos = Advance(r.write_pos, n)]
<1>3. s = Commit(r, "RB_WRITE", n)  BY DEF Commit
<1>4. /\ s \in Ring
      /\ s.write_pos = Advance(r.write_pos, n)
      /\ s.read_pos = r.read_pos
      BY <1>2 DEF Ring
<1> HIDE DEF s
<1>5. BytesUsed(s) = BytesUsed(r) + n
  <2>1. n \in Nat /\ n <= BufSize - 1 - BytesUsed(r)
        BY <1>1, BufSizeAssumption DEF BytesFree
  <2>2. r.read_pos \in Slots /\ r.write_pos \in Slots  BY DEF Ring
  <2> QED  BY <1>4, <2>1, <2>2, BufSizeAssumption DEF BytesUsed, Advance, Slots
<1> QED  BY <1>1, <1>3, <1>4, <1>5, BufSizeAssumption DEF BytesFree, s

\* A free slot is none of the used ones.
LEMMA FreeNotUsed ==
    ASSUME NEW r \in Ring,
           NEW i \in 0 .. BytesFree(r) - 1, NEW j \in 0 .. BytesUsed(r) - 1
    PROVE  Advance(r.write_pos, i) # Advance(r.read_pos, j)
BY BufSizeAssumption DEF Ring, Slots, BytesUsed, BytesFree, Advance

LEMMA ContentsIsSeq ==
    ASSUME NEW r \in Ring
    PROVE  /\ Contents(r) \in Seq(Byte)
           /\ Len(Contents(r)) = BytesUsed(r)
           /\ \A i \in 1 .. BytesUsed(r) :
                 Contents(r)[i] = r.buf[Advance(r.read_pos, i - 1)]
<1>1. BytesUsed(r) \in 0 .. BufSize - 1  BY UsedFree
<1>2. \A i \in 1 .. BytesUsed(r) : Advance(r.read_pos, i - 1) \in Slots
      BY <1>1, AdvanceInSlots, BufSizeAssumption DEF Ring
<1>3. Contents(r) \in [1 .. BytesUsed(r) -> Byte]
      BY <1>2 DEF Contents, Ring
<1>4. Contents(r) \in Seq(Byte)  BY <1>1, <1>3, SeqDef, BufSizeAssumption
<1>5. Len(Contents(r)) = BytesUsed(r)
      BY <1>1, <1>3, <1>4, LenProperties, BufSizeAssumption
<1> QED  BY <1>4, <1>5 DEF Contents

-----------------------------------------------------------------------------
(* What rb_get_pointers hands out                                          *)

LEMMA SlotIsAdvance ==
    ASSUME NEW pos \in Slots, NEW ck \in Chunks, WellFormed(ck, pos),
           NEW i \in 0 .. Total(ck) - 1
    PROVE  SlotOf(ck, i) = Advance(pos, i)
BY BufSizeAssumption DEF Slots, Advance, SlotOf, WellFormed, Total, Chunks

LEMMA PointersOfRead ==
    ASSUME NEW r \in Ring, NEW nbyte \in Nat
    PROVE  LET ck == Pointers(r, "RB_READ", nbyte)
           IN  /\ ck \in Chunks
               /\ WellFormed(ck, r.read_pos)
               /\ Total(ck) <= nbyte
               /\ Total(ck) <= BytesUsed(r)
<1>1. BytesUsed(r) \in 0 .. BufSize - 1  BY UsedFree
<1>2. r.read_pos \in Slots  BY DEF Ring
<1> QED  BY <1>1, <1>2, BufSizeAssumption
         DEF Pointers, Chunks, WellFormed, Total, Slots

LEMMA PointersOfWrite ==
    ASSUME NEW r \in Ring, NEW nbyte \in Nat
    PROVE  LET ck == Pointers(r, "RB_WRITE", nbyte)
           IN  /\ ck \in Chunks
               /\ WellFormed(ck, r.write_pos)
               /\ Total(ck) <= nbyte
               /\ Total(ck) <= BytesFree(r)
<1>1. BytesFree(r) \in 0 .. BufSize - 1  BY UsedFree
<1>2. r.write_pos \in Slots  BY DEF Ring
<1> QED  BY <1>1, <1>2, BufSizeAssumption
         DEF Pointers, Chunks, WellFormed, Total, Slots

-----------------------------------------------------------------------------
(* The inductive invariant                                                 *)

RingInv == RingTypeOK /\ ClaimsValid

LEMMA RingInitStep == RingInit => RingInv
<1> SUFFICES ASSUME RingInit PROVE RingInv  OBVIOUS
<1>1. rb \in Ring  BY BufSizeAssumption DEF RingInit, EmptyRings, Ring, Slots
<1>2. NoChunks \in Chunks
      BY BufSizeAssumption DEF NoChunks, Chunks, Slots
<1> QED  BY <1>1, <1>2 DEF RingInit, RingInv, RingTypeOK, Writers, Readers, ClaimsValid

LEMMA WriteBeginStep == RingInv /\ WriteBegin => RingInv'
<1> SUFFICES ASSUME RingInv, WriteBegin PROVE RingInv'  OBVIOUS
<1> USE DEF RingInv, RingTypeOK
<1>1. PICK data \in Writes :
        writer' = [busy |-> TRUE, data |-> data, done |-> 0,
                   ck   |-> Pointers(rb, "RB_WRITE", Len(data))]
      BY DEF WriteBegin
<1>2. data \in Seq(Byte)  BY <1>1, WritesAssumption
<1> DEFINE ck == Pointers(rb, "RB_WRITE", Len(data))
<1>3. /\ ck \in Chunks
      /\ WellFormed(ck, rb.write_pos)
      /\ Total(ck) <= Len(data)
      /\ Total(ck) <= BytesFree(rb)
      BY <1>2, PointersOfWrite
<1> HIDE DEF ck
<1>4. writer' = [busy |-> TRUE, data |-> data, done |-> 0, ck |-> ck]
      BY <1>1 DEF ck
<1>5. UNCHANGED <<rb, reader>>  BY DEF WriteBegin
<1>6. RingTypeOK'  BY <1>2, <1>3, <1>4, <1>5 DEF Writers
<1>7. 0 <= Total(ck)  BY <1>3 DEF Chunks, Total
<1>8. ClaimsValid'  BY <1>3, <1>4, <1>5, <1>7 DEF ClaimsValid
<1> QED  BY <1>6, <1>8

LEMMA WriteByteStep == RingInv /\ WriteByte => RingInv'
<1> SUFFICES ASSUME RingInv, WriteByte PROVE RingInv'  OBVIOUS
<1> USE DEF RingInv, RingTypeOK
<1> DEFINE k == writer.done
           slot == SlotOf(writer.ck, k)
           byte == writer.data[k + 1]
<1>1. /\ writer.busy
      /\ k \in 0 .. Total(writer.ck) - 1
      /\ rb' = [rb EXCEPT !.buf[slot] = byte]
      /\ writer' = [writer EXCEPT !.done = k + 1]
      /\ UNCHANGED reader
      BY DEF WriteByte, Writers, Chunks, Total
<1>2. slot = Advance(rb.write_pos, k)
      BY <1>1, SlotIsAdvance DEF ClaimsValid, Ring, Writers
<1>3. k \in 0 .. BytesFree(rb) - 1
      BY <1>1, UsedFree DEF ClaimsValid, Writers, Chunks, Total
<1>4. slot \in Slots
      BY <1>2, <1>3, AdvanceInSlots, UsedFree, BufSizeAssumption DEF Ring
<1>5. byte \in Byte
      BY <1>1 DEF ClaimsValid, Writers, Chunks, Total
<1> HIDE DEF slot, byte
<1>6. /\ rb' \in Ring
      /\ rb'.read_pos = rb.read_pos
      /\ rb'.write_pos = rb.write_pos
      /\ rb'.buf = [rb.buf EXCEPT ![slot] = byte]
      BY <1>1, <1>4, <1>5 DEF Ring
<1>7. BytesUsed(rb') = BytesUsed(rb) /\ BytesFree(rb') = BytesFree(rb)
      BY <1>6 DEF BytesUsed, BytesFree
<1>8. writer' \in Writers
      BY <1>1 DEF Writers
<1>9. \A i \in 0 .. k : rb'.buf[SlotOf(writer.ck, i)] = writer.data[i + 1]
  <2> SUFFICES ASSUME NEW i \in 0 .. k
               PROVE  rb'.buf[SlotOf(writer.ck, i)] = writer.data[i + 1]
      OBVIOUS
  <2>1. CASE i = k
        BY <2>1, <1>4, <1>6 DEF slot, byte, Ring
  <2>2. CASE i # k
    <3>1. i \in 0 .. k - 1 /\ i \in 0 .. Total(writer.ck) - 1
          BY <1>1, <2>2 DEF Writers, Chunks, Total
    <3>2. rb.buf[SlotOf(writer.ck, i)] = writer.data[i + 1]
          BY <3>1, <1>1 DEF ClaimsValid
    <3>3. SlotOf(writer.ck, i) = Advance(rb.write_pos, i)
          BY <1>1, <3>1, SlotIsAdvance DEF ClaimsValid, Ring, Writers
    <3>4. SlotOf(writer.ck, i) # slot
          BY <1>2, <1>3, <2>2, <3>1, <3>3, UsedFree, BufSizeAssumption
          DEF Advance, Ring, Slots
    <3>5. SlotOf(writer.ck, i) \in Slots
          BY <1>3, <3>1, <3>3, AdvanceInSlots, UsedFree, BufSizeAssumption
          DEF Ring
    <3> QED  BY <1>6, <3>2, <3>4, <3>5 DEF Ring
  <2> QED  BY <2>1, <2>2
<1>10. ASSUME reader.busy, NEW i \in 0 .. Len(reader.data) - 1
       PROVE  rb'.buf[SlotOf(reader.ck, i)] = rb.buf[SlotOf(reader.ck, i)]
  <2>1. i \in 0 .. Total(reader.ck) - 1
        BY <1>10 DEF ClaimsValid, Readers, Chunks, Total
  <2>2. SlotOf(reader.ck, i) = Advance(rb.read_pos, i)
        BY <1>10, <2>1, SlotIsAdvance DEF ClaimsValid, Ring, Readers
  <2>3. i \in 0 .. BytesUsed(rb) - 1
        BY <1>10, <2>1, UsedFree DEF ClaimsValid, Readers, Chunks, Total
  <2>4. SlotOf(reader.ck, i) # slot
        BY <1>2, <1>3, <2>2, <2>3, FreeNotUsed
  <2>5. SlotOf(reader.ck, i) \in Slots
        BY <2>2, <2>3, AdvanceInSlots, UsedFree, BufSizeAssumption DEF Ring
  <2> QED  BY <1>6, <2>4, <2>5 DEF Ring
<1>11. ClaimsValid'
  <2>1. writer'.busy /\ writer'.ck = writer.ck /\ writer'.data = writer.data
           /\ writer'.done = k + 1
        BY <1>1 DEF Writers
  <2>2. k + 1 <= Total(writer.ck) /\ 0 .. writer'.done - 1 = 0 .. k
        BY <1>1, <2>1 DEF Writers, Chunks, Total
  <2> QED  BY <1>1, <1>6, <1>7, <1>9, <1>10, <2>1, <2>2 DEF ClaimsValid
<1> QED  BY <1>1, <1>6, <1>8, <1>11

LEMMA WriteCommitStep == RingInv /\ WriteCommit => RingInv'
<1> SUFFICES ASSUME RingInv, WriteCommit PROVE RingInv'  OBVIOUS
<1> USE DEF RingInv, RingTypeOK
<1> DEFINE n == writer.done
<1>1. /\ writer.busy
      /\ rb' = Commit(rb, "RB_WRITE", n)
      /\ writer' = [writer EXCEPT !.busy = FALSE]
      /\ UNCHANGED reader
      BY DEF WriteCommit
<1>2. n \in 0 .. BytesFree(rb)
      BY <1>1, UsedFree DEF ClaimsValid, Writers, Chunks, Total
<1>3. /\ rb' \in Ring
      /\ rb' = [rb EXCEPT !.write_pos = Advance(rb.write_pos, n)]
      /\ BytesUsed(rb') = BytesUsed(rb) + n
      BY <1>1, <1>2, CommitOfWrite
<1>4. rb'.buf = rb.buf /\ rb'.read_pos = rb.read_pos  BY <1>3 DEF Ring
<1>5. writer' \in Writers /\ ~writer'.busy  BY <1>1 DEF Writers
<1>6. BytesUsed(rb) <= BytesUsed(rb') /\ BytesUsed(rb) \in Int
      BY <1>2, <1>3, UsedFree
<1>7. reader.busy => Total(reader.ck) <= BytesUsed(rb')
      BY <1>3, <1>6, UsedFree DEF ClaimsValid, Readers, Chunks, Total
<1>8. ClaimsValid'  BY <1>1, <1>4, <1>5, <1>7 DEF ClaimsValid
<1> QED  BY <1>1, <1>3, <1>5, <1>8

LEMMA ReadBeginStep == RingInv /\ ReadBegin => RingInv'
<1> SUFFICES ASSUME RingInv, ReadBegin PROVE RingInv'  OBVIOUS
<1> USE DEF RingInv, RingTypeOK
<1>1. PICK nbyte \in 0 .. BufSize :
        reader' = [reader EXCEPT !.busy = TRUE, !.data = <<>>,
                                 !.ck = Pointers(rb, "RB_READ", nbyte)]
      BY DEF ReadBegin
<1> DEFINE ck == Pointers(rb, "RB_READ", nbyte)
<1>2. /\ ck \in Chunks
      /\ WellFormed(ck, rb.read_pos)
      /\ Total(ck) <= BytesUsed(rb)
      BY PointersOfRead, BufSizeAssumption
<1> HIDE DEF ck
<1>3. /\ reader' \in Readers
      /\ reader'.data = <<>>
      /\ reader'.ck = ck
  <2>1. reader' = [reader EXCEPT !.busy = TRUE, !.data = <<>>, !.ck = ck]
        BY <1>1 DEF ck
  <2>2. <<>> \in Seq(Byte)  OBVIOUS
  <2> QED  BY <1>2, <2>1, <2>2, Zenon DEF Readers
<1>4. UNCHANGED <<rb, writer>>  BY DEF ReadBegin
<1>5. 0 <= Total(ck)  BY <1>2 DEF Chunks, Total
<1>6. ClaimsValid'  BY <1>2, <1>3, <1>4, <1>5 DEF ClaimsValid
<1> QED  BY <1>3, <1>4, <1>6

LEMMA ReadByteStep == RingInv /\ ReadByte => RingInv'
<1> SUFFICES ASSUME RingInv, ReadByte PROVE RingInv'  OBVIOUS
<1> USE DEF RingInv, RingTypeOK
<1> DEFINE k == Len(reader.data)
           byte == rb.buf[SlotOf(reader.ck, k)]
<1>1. /\ reader.busy
      /\ k \in 0 .. Total(reader.ck) - 1
      /\ reader' = [reader EXCEPT !.data = Append(reader.data, byte)]
      /\ UNCHANGED <<rb, writer>>
      BY DEF ReadByte, Readers, Chunks, Total
<1>2. SlotOf(reader.ck, k) = Advance(rb.read_pos, k)
      BY <1>1, SlotIsAdvance DEF ClaimsValid, Ring, Readers
<1>3. k \in 0 .. BufSize
      BY <1>1, UsedFree, BufSizeAssumption
      DEF ClaimsValid, Readers, Chunks, Total
<1>4. SlotOf(reader.ck, k) \in Slots
      BY <1>2, <1>3, AdvanceInSlots DEF Ring
<1>5. byte \in Byte  BY <1>4 DEF Ring
<1> HIDE DEF byte
<1>6. /\ reader' \in Readers
      /\ reader'.busy
      /\ reader'.ck = reader.ck
      /\ reader'.data = Append(reader.data, byte)
      /\ Len(reader'.data) = k + 1
  <2>1. reader.data \in Seq(Byte)  BY DEF Readers
  <2>2. /\ Append(reader.data, byte) \in Seq(Byte)
        /\ Len(Append(reader.data, byte)) = k + 1
        BY <1>5, <2>1, AppendProperties
  <2> DEFINE d == Append(reader.data, byte)
  <2> HIDE DEF d, k
  <2>3. reader' = [reader EXCEPT !.data = d]  BY <1>1 DEF d
  <2>4. d \in Seq(Byte) /\ Len(d) = k + 1  BY <2>2 DEF d
  <2> QED  BY <1>1, <2>3, <2>4 DEF Readers, d
<1>7. \A i \in 0 .. k : rb.buf[SlotOf(reader.ck, i)] = reader'.data[i + 1]
  <2> SUFFICES ASSUME NEW i \in 0 .. k
               PROVE  rb.buf[SlotOf(reader.ck, i)] = reader'.data[i + 1]
      OBVIOUS
  <2>1. CASE i = k  BY <2>1, <1>1, <1>5, <1>6 DEF byte, Readers
  <2>2. CASE i # k
    <3>1. i \in 0 .. k - 1  BY <1>1, <2>2
    <3>2. reader'.data[i + 1] = reader.data[i + 1]
          BY <1>1, <1>5, <1>6, <3>1 DEF Readers
    <3> QED  BY <1>1, <3>1, <3>2 DEF ClaimsValid
  <2> QED  BY <2>1, <2>2
<1>8. k + 1 <= Total(reader.ck) /\ 0 .. Len(reader'.data) - 1 = 0 .. k
      BY <1>1, <1>6 DEF Readers, Chunks, Total
<1>9. ClaimsValid'  BY <1>1, <1>6, <1>7, <1>8 DEF ClaimsValid
<1> QED  BY <1>1, <1>6, <1>9

LEMMA ReadCommitStep == RingInv /\ ReadCommit => RingInv'
<1> SUFFICES ASSUME RingInv, ReadCommit PROVE RingInv'  OBVIOUS
<1> USE DEF RingInv, RingTypeOK
<1> DEFINE n == Len(reader.data)
<1>1. /\ reader.busy
      /\ rb' = Commit(rb, "RB_READ", n)
      /\ reader' = [reader EXCEPT !.busy = FALSE, !.got = reader.data]
      /\ UNCHANGED writer
      BY DEF ReadCommit
<1>2. n \in 0 .. BytesUsed(rb)
      BY <1>1, UsedFree DEF ClaimsValid, ReadCommit, Readers, Chunks, Total
<1>3. /\ rb' \in Ring
      /\ rb' = [rb EXCEPT !.read_pos = Advance(rb.read_pos, n)]
      /\ BytesFree(rb') = BytesFree(rb) + n
      BY <1>1, <1>2, CommitOfRead
<1>4. rb'.buf = rb.buf /\ rb'.write_pos = rb.write_pos  BY <1>3 DEF Ring
<1>5. reader' \in Readers /\ ~reader'.busy  BY <1>1 DEF Readers
<1>6. writer.busy => Total(writer.ck) <= BytesFree(rb')
      BY <1>2, <1>3, UsedFree DEF ClaimsValid, Writers, Chunks, Total
<1>7. ClaimsValid'  BY <1>1, <1>4, <1>5, <1>6 DEF ClaimsValid
<1> QED  BY <1>1, <1>3, <1>5, <1>7

LEMMA RingStep == RingInv /\ [RingNext]_ringVars => RingInv'
<1> SUFFICES ASSUME RingInv, [RingNext]_ringVars PROVE RingInv'  OBVIOUS
<1>1. CASE WriteBegin   BY <1>1, WriteBeginStep
<1>2. CASE WriteByte    BY <1>2, WriteByteStep
<1>3. CASE WriteCommit  BY <1>3, WriteCommitStep
<1>4. CASE ReadBegin    BY <1>4, ReadBeginStep
<1>5. CASE ReadByte     BY <1>5, ReadByteStep
<1>6. CASE ReadCommit   BY <1>6, ReadCommitStep
<1>7. CASE UNCHANGED ringVars
      BY <1>7 DEF ringVars, RingInv, RingTypeOK, ClaimsValid
<1> QED  BY <1>1, <1>2, <1>3, <1>4, <1>5, <1>6, <1>7 DEF RingNext

\* At every moment, for every size and every write, the shared structure and
\* the locals of both threads are well typed and both claims are exact.
THEOREM ClaimsAlwaysValid == RingSpec => [](RingTypeOK /\ ClaimsValid)
<1>1. RingInit => RingInv  BY RingInitStep
<1>2. RingInv /\ [RingNext]_ringVars => RingInv'  BY RingStep
<1> QED  BY <1>1, <1>2, PTL DEF RingSpec, RingInv

\* The bytes an rb_write is still filling and the bytes an rb_read is still
\* copying are never the same slot.
THEOREM NoSlotRaceTheorem == RingSpec => []NoSlotRace
<1>1. RingInv => NoSlotRace
  <2> SUFFICES ASSUME RingInv, writer.busy, reader.busy,
                      NEW i \in 0 .. Total(writer.ck) - 1,
                      NEW j \in 0 .. Total(reader.ck) - 1
               PROVE  SlotOf(writer.ck, i) # SlotOf(reader.ck, j)
      BY DEF NoSlotRace, Claimed
  <2>1. i \in 0 .. BytesFree(rb) - 1 /\ j \in 0 .. BytesUsed(rb) - 1
        BY UsedFree
        DEF RingInv, RingTypeOK, ClaimsValid, Writers, Readers, Chunks, Total
  <2>2. SlotOf(writer.ck, i) = Advance(rb.write_pos, i)
        BY SlotIsAdvance DEF RingInv, RingTypeOK, ClaimsValid, Ring, Writers
  <2>3. SlotOf(reader.ck, j) = Advance(rb.read_pos, j)
        BY SlotIsAdvance DEF RingInv, RingTypeOK, ClaimsValid, Ring, Readers
  <2> QED  BY <2>1, <2>2, <2>3, FreeNotUsed DEF RingInv, RingTypeOK
<1>2. RingSpec => []RingInv  BY ClaimsAlwaysValid DEF RingInv
<1> QED  BY <1>1, <1>2, PTL

-----------------------------------------------------------------------------
(* RingBuf implements RingFifo                                             *)

\* Filling free slots does not change what the ring holds.
LEMMA WriteByteIsStutter == RingInv /\ WriteByte => Contents(rb') = Contents(rb)
<1> SUFFICES ASSUME RingInv, WriteByte PROVE Contents(rb') = Contents(rb)
    OBVIOUS
<1> USE DEF RingInv, RingTypeOK
<1> DEFINE k == writer.done
           slot == SlotOf(writer.ck, k)
<1>1. /\ writer.busy
      /\ k \in 0 .. Total(writer.ck) - 1
      /\ rb' = [rb EXCEPT !.buf[slot] = writer.data[k + 1]]
      BY DEF WriteByte, Writers, Chunks, Total
<1>2. slot = Advance(rb.write_pos, k)
      BY <1>1, SlotIsAdvance DEF ClaimsValid, Ring, Writers
<1>3. k \in 0 .. BytesFree(rb) - 1
      BY <1>1, UsedFree DEF ClaimsValid, Writers, Chunks, Total
<1> HIDE DEF slot
<1>4. /\ rb'.read_pos = rb.read_pos
      /\ rb'.write_pos = rb.write_pos
      /\ \A t \in Slots : t # slot => rb'.buf[t] = rb.buf[t]
      BY <1>1 DEF Ring
<1>5. BytesUsed(rb') = BytesUsed(rb)  BY <1>4 DEF BytesUsed
<1>6. \A i \in 1 .. BytesUsed(rb) :
         rb'.buf[Advance(rb.read_pos, i - 1)] = rb.buf[Advance(rb.read_pos, i - 1)]
  <2> SUFFICES ASSUME NEW i \in 1 .. BytesUsed(rb)
               PROVE  rb'.buf[Advance(rb.read_pos, i - 1)]
                         = rb.buf[Advance(rb.read_pos, i - 1)]
      OBVIOUS
  <2>1. i - 1 \in 0 .. BytesUsed(rb) - 1 /\ i - 1 \in 0 .. BufSize
        BY UsedFree, BufSizeAssumption
  <2>2. Advance(rb.read_pos, i - 1) \in Slots
        BY <2>1, AdvanceInSlots DEF Ring
  <2>3. Advance(rb.read_pos, i - 1) # slot
        BY <1>2, <1>3, <2>1, FreeNotUsed
  <2> QED  BY <1>4, <2>2, <2>3
<1> QED  BY <1>4, <1>5, <1>6 DEF Contents

LEMMA WriteCommitIsPut == RingInv /\ WriteCommit => Fifo!Put
<1> SUFFICES ASSUME RingInv, WriteCommit PROVE Fifo!Put  OBVIOUS
<1> USE DEF RingInv, RingTypeOK
<1> DEFINE n == writer.done
           q == Contents(rb)
           sub == SubSeq(writer.data, 1, n)
<1>1. /\ writer.busy
      /\ n = Total(writer.ck)
      /\ rb' = Commit(rb, "RB_WRITE", n)
      /\ writer' = [writer EXCEPT !.busy = FALSE]
      /\ UNCHANGED reader
      BY DEF WriteCommit
<1>2. n \in 0 .. BytesFree(rb) /\ n \in 0 .. Len(writer.data)
      BY <1>1, UsedFree, LenProperties
      DEF ClaimsValid, Writers, Chunks, Total
<1>3. /\ rb' \in Ring
      /\ rb' = [rb EXCEPT !.write_pos = Advance(rb.write_pos, n)]
      /\ BytesUsed(rb') = BytesUsed(rb) + n
      BY <1>1, <1>2, CommitOfWrite
<1>4. rb'.buf = rb.buf /\ rb'.read_pos = rb.read_pos  BY <1>3 DEF Ring
<1>5. /\ sub \in Seq(Byte)
      /\ Len(sub) = n
      /\ \A i \in 1 .. n : sub[i] = writer.data[i]
  <2>1. \A i \in 1 .. n : writer.data[i] \in Byte
        BY <1>2, ElementOfSeq DEF Writers
  <2> QED  BY <1>2, <2>1, SubSeqProperties
<1>6. /\ q \in Seq(Byte)
      /\ Len(q) = BytesUsed(rb)
      /\ \A i \in 1 .. BytesUsed(rb) :
            q[i] = rb.buf[Advance(rb.read_pos, i - 1)]
      BY ContentsIsSeq
<1>7. /\ Contents(rb') \in Seq(Byte)
      /\ Len(Contents(rb')) = BytesUsed(rb) + n
      /\ \A i \in 1 .. BytesUsed(rb) + n :
            Contents(rb')[i] = rb.buf[Advance(rb.read_pos, i - 1)]
      BY <1>3, <1>4, ContentsIsSeq
<1>8. \A i \in 0 .. n - 1 :
         rb.buf[Advance(rb.read_pos, BytesUsed(rb) + i)] = writer.data[i + 1]
  <2> SUFFICES ASSUME NEW i \in 0 .. n - 1
               PROVE  rb.buf[Advance(rb.read_pos, BytesUsed(rb) + i)]
                         = writer.data[i + 1]
      OBVIOUS
  <2>1. SlotOf(writer.ck, i) = Advance(rb.write_pos, i)
        BY <1>1, SlotIsAdvance DEF ClaimsValid, Ring, Writers
  <2>2. i \in 0 .. BytesFree(rb) - 1  BY <1>2, UsedFree
  <2>3. Advance(rb.write_pos, i) = Advance(rb.read_pos, BytesUsed(rb) + i)
        BY <2>2, BufSizeAssumption
        DEF Advance, BytesUsed, BytesFree, Ring, Slots
  <2> QED  BY <1>1, <2>1, <2>3 DEF ClaimsValid
<1> HIDE DEF q, sub, n
<1>9. BytesUsed(rb) \in Nat /\ n \in Nat  BY <1>2, UsedFree, BufSizeAssumption
<1>10. Contents(rb') = q \o sub
  <2>1. /\ q \o sub \in Seq(Byte)
        /\ Len(q \o sub) = BytesUsed(rb) + n
        /\ \A i \in 1 .. BytesUsed(rb) + n :
              (q \o sub)[i] = IF i <= BytesUsed(rb)
                              THEN q[i] ELSE sub[i - BytesUsed(rb)]
    <3>1. /\ q \o sub \in Seq(Byte)
          /\ Len(q \o sub) = Len(q) + Len(sub)
          /\ \A i \in 1 .. Len(q) + Len(sub) :
                (q \o sub)[i] = IF i <= Len(q) THEN q[i] ELSE sub[i - Len(q)]
          BY <1>5, <1>6, ConcatProperties
    <3>2. Len(q) = BytesUsed(rb) /\ Len(sub) = n  BY <1>5, <1>6
    <3> QED  BY <3>1, <3>2
  <2>2. \A i \in 1 .. BytesUsed(rb) + n : Contents(rb')[i] = (q \o sub)[i]
    <3> SUFFICES ASSUME NEW i \in 1 .. BytesUsed(rb) + n
                 PROVE  Contents(rb')[i] = (q \o sub)[i]
        OBVIOUS
    <3>1. CASE i <= BytesUsed(rb)
      <4>1. i \in 1 .. BytesUsed(rb)  BY <3>1, <1>9
      <4> QED  BY <3>1, <4>1, <1>6, <1>7, <2>1
    <3>2. CASE i > BytesUsed(rb)
      <4> DEFINE j == i - BytesUsed(rb)
      <4>1. /\ j \in 1 .. n /\ j - 1 \in 0 .. n - 1
            /\ BytesUsed(rb) + (j - 1) = i - 1 /\ (j - 1) + 1 = j
            BY <3>2, <1>2, UsedFree
      <4>2. (q \o sub)[i] = sub[j]  BY <3>2, <2>1, UsedFree
      <4>3. Contents(rb')[i] = rb.buf[Advance(rb.read_pos, i - 1)]  BY <1>7
      <4> HIDE DEF j
      <4>4. rb.buf[Advance(rb.read_pos, BytesUsed(rb) + (j - 1))]
               = writer.data[(j - 1) + 1]
            BY <4>1, <1>8
      <4> QED  BY <4>1, <4>2, <4>3, <4>4, <1>5
    <3>3. i <= BytesUsed(rb) \/ i > BytesUsed(rb)  BY <1>9
    <3> QED  BY <3>1, <3>2, <3>3
  <2> QED  BY <1>7, <2>1, <2>2, SeqEqual
<1>11. Len(q) + n <= BufSize - 1
       BY <1>2, <1>6, UsedFree DEF BytesFree
<1>12. writer'.data = writer.data /\ reader'.got = reader.got
       BY <1>1 DEF Writers
<1> QED  BY <1>2, <1>10, <1>11, <1>12 DEF Fifo!Put, q, sub

LEMMA ReadCommitIsGet == RingInv /\ ReadCommit => Fifo!Get
<1> SUFFICES ASSUME RingInv, ReadCommit PROVE Fifo!Get  OBVIOUS
<1> USE DEF RingInv, RingTypeOK
<1> DEFINE n == Len(reader.data)
           q == Contents(rb)
<1>1. /\ reader.busy
      /\ n = Total(reader.ck)
      /\ rb' = Commit(rb, "RB_READ", n)
      /\ reader' = [reader EXCEPT !.busy = FALSE, !.got = reader.data]
      /\ UNCHANGED writer
      BY DEF ReadCommit
<1>2. n \in 0 .. BytesUsed(rb) /\ reader.data \in Seq(Byte)
      BY <1>1, UsedFree DEF ClaimsValid, Readers, Chunks, Total
<1>3. /\ rb' \in Ring
      /\ rb' = [rb EXCEPT !.read_pos = Advance(rb.read_pos, n)]
      /\ BytesUsed(rb') = BytesUsed(rb) - n
      BY <1>1, <1>2, CommitOfRead
<1>4. rb'.buf = rb.buf /\ rb'.read_pos = Advance(rb.read_pos, n)
      BY <1>3 DEF Ring
<1>5. /\ q \in Seq(Byte)
      /\ Len(q) = BytesUsed(rb)
      /\ \A i \in 1 .. BytesUsed(rb) :
            q[i] = rb.buf[Advance(rb.read_pos, i - 1)]
      BY ContentsIsSeq
<1>6. /\ Contents(rb') \in Seq(Byte)
      /\ Len(Contents(rb')) = BytesUsed(rb) - n
      /\ \A i \in 1 .. BytesUsed(rb) - n :
            Contents(rb')[i] = rb.buf[Advance(Advance(rb.read_pos, n), i - 1)]
      BY <1>3, <1>4, ContentsIsSeq
<1>7. \A i \in 1 .. n : reader.data[i] = q[i]
  <2> SUFFICES ASSUME NEW i \in 1 .. n PROVE reader.data[i] = q[i]  OBVIOUS
  <2>1. i - 1 \in 0 .. n - 1 /\ i \in 1 .. BytesUsed(rb)  BY <1>2, UsedFree
  <2>2. SlotOf(reader.ck, i - 1) = Advance(rb.read_pos, i - 1)
        BY <1>1, <2>1, SlotIsAdvance DEF ClaimsValid, Ring, Readers
  <2>3. rb.buf[SlotOf(reader.ck, i - 1)] = reader.data[(i - 1) + 1]
        BY <1>1, <2>1 DEF ClaimsValid
  <2> QED  BY <1>5, <2>1, <2>2, <2>3
<1> HIDE DEF q, n
<1>8. reader.data = SubSeq(q, 1, n)
  <2>1. \A i \in 1 .. n : q[i] \in Byte
        BY <1>2, <1>5, ElementOfSeq, UsedFree
  <2>2. /\ SubSeq(q, 1, n) \in Seq(Byte)
        /\ Len(SubSeq(q, 1, n)) = n
        /\ \A i \in 1 .. n : SubSeq(q, 1, n)[i] = q[i]
        BY <1>2, <2>1, SubSeqProperties, UsedFree
  <2> QED  BY <1>2, <1>7, <2>2, SeqEqual DEF n
<1>9. Contents(rb') = SubSeq(q, n + 1, Len(q))
  <2>1. \A i \in n + 1 .. Len(q) : q[i] \in Byte
        BY <1>2, <1>5, ElementOfSeq, UsedFree
  <2>2. /\ SubSeq(q, n + 1, Len(q)) \in Seq(Byte)
        /\ Len(SubSeq(q, n + 1, Len(q))) = BytesUsed(rb) - n
        /\ \A i \in 1 .. BytesUsed(rb) - n :
              SubSeq(q, n + 1, Len(q))[i] = q[n + i]
    <3>1. n + 1 \in Int /\ Len(q) \in Int /\ Len(q) - (n + 1) + 1 = BytesUsed(rb) - n
          BY <1>2, <1>5, UsedFree
    <3>2. /\ SubSeq(q, n + 1, Len(q)) \in Seq(Byte)
          /\ Len(SubSeq(q, n + 1, Len(q)))
                = IF n + 1 <= Len(q) THEN Len(q) - (n + 1) + 1 ELSE 0
          /\ \A i \in 1 .. Len(q) - (n + 1) + 1 :
                SubSeq(q, n + 1, Len(q))[i] = q[n + 1 + i - 1]
          BY <2>1, <3>1, SubSeqProperties
    <3> QED  BY <1>2, <1>5, <3>1, <3>2, UsedFree
  <2>3. \A i \in 1 .. BytesUsed(rb) - n :
           Contents(rb')[i] = SubSeq(q, n + 1, Len(q))[i]
    <3> SUFFICES ASSUME NEW i \in 1 .. BytesUsed(rb) - n
                 PROVE  Contents(rb')[i] = q[n + i]
        BY <2>2
    <3>1. Advance(Advance(rb.read_pos, n), i - 1) = Advance(rb.read_pos, n + i - 1)
          BY <1>2, UsedFree, BufSizeAssumption DEF Advance, Ring, Slots
    <3>2. n + i \in 1 .. BytesUsed(rb)  BY <1>2, UsedFree
    <3>3. q[n + i] = rb.buf[Advance(rb.read_pos, (n + i) - 1)]
          BY <1>5, <3>2
    <3>4. (n + i) - 1 = n + i - 1  BY <1>2
    <3> QED  BY <1>6, <3>1, <3>3, <3>4
  <2> QED  BY <1>6, <2>2, <2>3, SeqEqual
<1>10. writer'.data = writer.data /\ reader'.got = reader.data
       BY <1>1 DEF Readers
<1> QED  BY <1>2, <1>5, <1>8, <1>9, <1>10 DEF Fifo!Put, Fifo!Get, q

\* Whatever the interleaving, size and requests, the lock-free ring buffer
\* behaves as an atomic bounded FIFO queue of BufSize - 1 bytes.
THEOREM RingImplementsFifo == RingSpec => ImplementsFifo
<1>1. RingInit => Fifo!Init
  <2> SUFFICES ASSUME RingInit PROVE Fifo!Init  OBVIOUS
  <2>1. BytesUsed(rb) = 0 /\ rb \in Ring
        BY BufSizeAssumption DEF RingInit, EmptyRings, BytesUsed, Ring, Slots
  <2>2. Contents(rb) = <<>>
        BY <2>1, ContentsIsSeq, EmptySeq, SeqEqual
  <2> QED  BY <2>2 DEF RingInit, Fifo!Init
<1>2. RingInv /\ [RingNext]_ringVars => [Fifo!Next]_(Fifo!fifoVars)
  <2> SUFFICES ASSUME RingInv, [RingNext]_ringVars
               PROVE  Fifo!Next \/ UNCHANGED Fifo!fifoVars
      OBVIOUS
  <2> USE DEF RingInv, RingTypeOK, Fifo!fifoVars
  <2>1. CASE WriteBegin
    <3>1. writer'.data \in Seq(Byte) /\ UNCHANGED <<rb, reader>>
          BY <2>1, WriteBeginStep DEF WriteBegin, Writers
    <3> QED  BY <3>1 DEF Fifo!Request, Fifo!Next
  <2>2. CASE WriteByte
    <3>1. writer'.data = writer.data /\ reader' = reader
          BY <2>2 DEF WriteByte, Writers
    <3> QED  BY <2>2, <3>1, WriteByteIsStutter
  <2>3. CASE WriteCommit
        BY <2>3, WriteCommitIsPut DEF Fifo!Next
  <2>4. CASE ReadBegin
    <3>1. reader'.got = reader.got /\ UNCHANGED <<rb, writer>>
          BY <2>4 DEF ReadBegin, Readers
    <3> QED  BY <3>1
  <2>5. CASE ReadByte
    <3>1. reader'.got = reader.got /\ UNCHANGED <<rb, writer>>
          BY <2>5 DEF ReadByte, Readers
    <3> QED  BY <3>1
  <2>6. CASE ReadCommit
        BY <2>6, ReadCommitIsGet DEF Fifo!Next
  <2>7. CASE UNCHANGED ringVars
        BY <2>7 DEF ringVars
  <2> QED  BY <2>1, <2>2, <2>3, <2>4, <2>5, <2>6, <2>7 DEF RingNext
<1>3. RingSpec => []RingInv  BY ClaimsAlwaysValid DEF RingInv
<1> QED  BY <1>1, <1>2, <1>3, PTL DEF RingSpec, ImplementsFifo, Fifo!Spec

-----------------------------------------------------------------------------
(* The serial port: what its invariants need besides                       *)

IInv == /\ TypeOK
        /\ TransmitInOrder /\ ReceiveInOrder
        /\ NoLostWakeup /\ CallInProgress

MainType == [pc : PcValues, todo : Seq(Byte), slot : Slots, ok : BOOLEAN, c : Byte]

\* rb_get_pointers for one character finds a slot exactly when there is one.
LEMMA PointerOfOne ==
    ASSUME NEW r \in Ring
    PROVE  /\ Pointers(r, "RB_READ", 1).ptr1 = r.read_pos
           /\ Pointers(r, "RB_WRITE", 1).ptr1 = r.write_pos
           /\ Pointers(r, "RB_READ", 1).len1 = 1 <=> BytesUsed(r) > 0
           /\ Pointers(r, "RB_WRITE", 1).len1 = 1 <=> BytesFree(r) > 0
<1>1. /\ BytesUsed(r) \in 0 .. BufSize - 1
      /\ BytesFree(r) \in 0 .. BufSize - 1
      BY UsedFree
<1>2. r.read_pos \in Slots /\ r.write_pos \in Slots  BY DEF Ring
<1> QED  BY <1>1, <1>2, BufSizeAssumption DEF Pointers, Slots

\* Storing a character in the first free slot changes nothing yet.
LEMMA StoreKeepsContents ==
    ASSUME NEW r \in Ring, NEW c \in Byte, BytesFree(r) > 0
    PROVE  LET s == [r EXCEPT !.buf[r.write_pos] = c]
           IN  /\ s \in Ring
               /\ s.buf[s.write_pos] = c
               /\ BytesUsed(s) = BytesUsed(r)
               /\ BytesFree(s) = BytesFree(r)
               /\ Contents(s) = Contents(r)
<1> DEFINE s == [r EXCEPT !.buf[r.write_pos] = c]
<1>1. /\ BytesUsed(r) \in 0 .. BufSize - 1
      /\ BytesFree(r) \in 0 .. BufSize - 1
      BY UsedFree
<1>2. r.read_pos \in Slots /\ r.write_pos \in Slots /\ r.buf \in [Slots -> Byte]
      BY DEF Ring
<1>3. /\ s \in Ring
      /\ s.read_pos = r.read_pos /\ s.write_pos = r.write_pos
      /\ s.buf = [r.buf EXCEPT ![r.write_pos] = c]
      BY <1>2 DEF Ring
<1> HIDE DEF s
<1>4. BytesUsed(s) = BytesUsed(r) /\ BytesFree(s) = BytesFree(r)
      BY <1>3 DEF BytesUsed, BytesFree
<1>5. \A i \in 1 .. BytesUsed(r) :
         s.buf[Advance(r.read_pos, i - 1)] = r.buf[Advance(r.read_pos, i - 1)]
  <2> SUFFICES ASSUME NEW i \in 1 .. BytesUsed(r)
               PROVE  s.buf[Advance(r.read_pos, i - 1)]
                        = r.buf[Advance(r.read_pos, i - 1)]
      OBVIOUS
  <2>1. i - 1 \in 0 .. BytesUsed(r) - 1 /\ i - 1 \in 0 .. BufSize
        BY <1>1, BufSizeAssumption
  <2>2. Advance(r.read_pos, i - 1) # Advance(r.write_pos, 0)
        BY <1>1, <2>1, FreeNotUsed
  <2>3. Advance(r.write_pos, 0) = r.write_pos
        BY <1>2, BufSizeAssumption DEF Advance, Slots
  <2>4. Advance(r.read_pos, i - 1) \in Slots
        BY <1>2, <2>1, AdvanceInSlots
  <2> QED  BY <1>2, <1>3, <2>2, <2>3, <2>4
<1>6. Contents(s) = Contents(r)
      BY <1>3, <1>4, <1>5 DEF Contents
<1>7. s.buf[s.write_pos] = c  BY <1>2, <1>3
<1> QED  BY <1>3, <1>4, <1>6, <1>7 DEF s

\* rb_putchar: the character in the first free slot becomes the newest.
LEMMA CommitOfOneWrite ==
    ASSUME NEW r \in Ring, BytesFree(r) > 0
    PROVE  LET s == Commit(r, "RB_WRITE", 1)
           IN  /\ s \in Ring
               /\ s.buf = r.buf
               /\ BytesUsed(s) = BytesUsed(r) + 1
               /\ Contents(s) = Append(Contents(r), r.buf[r.write_pos])
<1> DEFINE s == Commit(r, "RB_WRITE", 1)
           n == BytesUsed(r)
<1>1. n \in 0 .. BufSize - 1 /\ BytesFree(r) = BufSize - 1 - n
      BY UsedFree, BufSizeAssumption
<1>2. /\ s \in Ring
      /\ s = [r EXCEPT !.write_pos = Advance(r.write_pos, 1)]
      /\ BytesUsed(s) = n + 1
      BY <1>1, CommitOfWrite, BufSizeAssumption
<1>3. s.buf = r.buf /\ s.read_pos = r.read_pos  BY <1>2 DEF Ring
<1>4. r.read_pos \in Slots /\ r.write_pos \in Slots /\ r.buf \in [Slots -> Byte]
      BY DEF Ring
<1>5. Advance(r.read_pos, n) = r.write_pos
      BY <1>1, <1>4, BufSizeAssumption DEF BytesUsed, Advance, Slots
<1> HIDE DEF s
<1>6. /\ Contents(r) \in Seq(Byte) /\ Len(Contents(r)) = n
      /\ \A i \in 1 .. n : Contents(r)[i] = r.buf[Advance(r.read_pos, i - 1)]
      BY ContentsIsSeq
<1>7. /\ Contents(s) \in Seq(Byte) /\ Len(Contents(s)) = n + 1
      /\ \A i \in 1 .. n + 1 : Contents(s)[i] = r.buf[Advance(r.read_pos, i - 1)]
      BY <1>2, <1>3, ContentsIsSeq
<1> DEFINE q == Append(Contents(r), r.buf[r.write_pos])
<1>8. /\ q \in Seq(Byte) /\ Len(q) = n + 1
      /\ \A i \in 1 .. n : q[i] = Contents(r)[i]
      /\ q[n + 1] = r.buf[r.write_pos]
      BY <1>4, <1>6, AppendProperties
<1> HIDE DEF q
<1>9. \A i \in 1 .. n + 1 : Contents(s)[i] = q[i]
  <2> SUFFICES ASSUME NEW i \in 1 .. n + 1 PROVE Contents(s)[i] = q[i]
      OBVIOUS
  <2>1. CASE i = n + 1
        <3>1. i - 1 = n  BY <1>1, <2>1
        <3> QED  BY <1>5, <1>7, <1>8, <2>1, <3>1
  <2>2. CASE i \in 1 .. n
        BY <1>6, <1>7, <1>8, <2>2
  <2> QED  BY <1>1, <2>1, <2>2
<1>10. Contents(s) = q  BY <1>7, <1>8, <1>9, SeqEqual
<1> QED  BY <1>2, <1>3, <1>10 DEF s, q

\* rb_getchar: the oldest character leaves.
LEMMA CommitOfOneRead ==
    ASSUME NEW r \in Ring, BytesUsed(r) > 0
    PROVE  LET s == Commit(r, "RB_READ", 1)
           IN  /\ s \in Ring
               /\ BytesUsed(s) = BytesUsed(r) - 1
               /\ Contents(r) = <<r.buf[r.read_pos]>> \o Contents(s)
<1> DEFINE s == Commit(r, "RB_READ", 1)
           n == BytesUsed(r)
<1>1. n \in 1 .. BufSize - 1  BY UsedFree, BufSizeAssumption
<1>2. /\ s \in Ring
      /\ s = [r EXCEPT !.read_pos = Advance(r.read_pos, 1)]
      /\ BytesUsed(s) = n - 1
      BY <1>1, CommitOfRead, BufSizeAssumption
<1>3. s.buf = r.buf /\ s.read_pos = Advance(r.read_pos, 1)  BY <1>2 DEF Ring
<1>4. r.read_pos \in Slots /\ r.buf \in [Slots -> Byte]  BY DEF Ring
<1> HIDE DEF s
<1>5. /\ Contents(r) \in Seq(Byte) /\ Len(Contents(r)) = n
      /\ \A i \in 1 .. n : Contents(r)[i] = r.buf[Advance(r.read_pos, i - 1)]
      BY ContentsIsSeq
<1>6. /\ Contents(s) \in Seq(Byte) /\ Len(Contents(s)) = n - 1
      /\ \A i \in 1 .. n - 1 :
            Contents(s)[i] = r.buf[Advance(Advance(r.read_pos, 1), i - 1)]
      BY <1>2, <1>3, ContentsIsSeq
<1> DEFINE first == <<r.buf[r.read_pos]>>
           q == first \o Contents(s)
<1>7. first \in Seq(Byte) /\ Len(first) = 1 /\ first[1] = r.buf[r.read_pos]
      BY <1>4
<1> HIDE DEF first
<1>8. /\ q \in Seq(Byte) /\ Len(q) = n
      /\ \A i \in 1 .. n : q[i] = IF i <= 1 THEN first[i] ELSE Contents(s)[i - 1]
  <2> HIDE DEF q
  <2>1. /\ q \in Seq(Byte) /\ Len(q) = Len(first) + Len(Contents(s))
        /\ \A i \in 1 .. Len(first) + Len(Contents(s)) :
              q[i] = IF i <= Len(first) THEN first[i] ELSE Contents(s)[i - Len(first)]
        BY <1>6, <1>7, ConcatProperties DEF q
  <2>2. Len(first) + Len(Contents(s)) = n  BY <1>1, <1>6, <1>7
  <2> QED  BY <1>7, <2>1, <2>2
<1> HIDE DEF q
<1>9. \A i \in 1 .. n : Contents(r)[i] = q[i]
  <2> SUFFICES ASSUME NEW i \in 1 .. n PROVE Contents(r)[i] = q[i]
      OBVIOUS
  <2>1. CASE i = 1
        <3>1. Advance(r.read_pos, 0) = r.read_pos
              BY <1>4, BufSizeAssumption DEF Advance, Slots
        <3> QED  BY <1>5, <1>7, <1>8, <2>1, <3>1
  <2>2. CASE i > 1
        <3>1. i - 1 \in 1 .. n - 1 /\ i - 2 \in 0 .. BufSize - 2
              BY <1>1, <2>2, BufSizeAssumption
        <3>2. Advance(Advance(r.read_pos, 1), i - 2) = Advance(r.read_pos, i - 1)
              BY <1>4, <3>1, BufSizeAssumption DEF Advance, Slots
        <3>3. (i - 1) - 1 = i - 2  OBVIOUS
        <3> QED  BY <1>5, <1>6, <1>8, <2>2, <3>1, <3>2, <3>3
  <2> QED  BY <1>1, <2>1, <2>2
<1>10. Contents(r) = q  BY <1>5, <1>8, <1>9, SeqEqual
<1> QED  BY <1>2, <1>10 DEF s, q, first

-----------------------------------------------------------------------------
(* Sequences and rings                                                     *)

LEMMA EmptyRing ==
    /\ RINGBUF \in Ring
    /\ BytesUsed(RINGBUF) = 0
    /\ Contents(RINGBUF) = <<>>
<1>1. RINGBUF \in Ring /\ RINGBUF.read_pos = 0 /\ RINGBUF.write_pos = 0
      BY BufSizeAssumption, UartAssumption DEF RINGBUF, Ring, Slots
<1>2. BytesUsed(RINGBUF) = 0  BY <1>1 DEF BytesUsed
<1>3. Contents(RINGBUF) \in Seq(Byte) /\ Len(Contents(RINGBUF)) = 0
      BY <1>1, <1>2, ContentsIsSeq
<1> QED  BY <1>1, <1>2, <1>3, EmptySeq

LEMMA NotEmpty ==
    ASSUME NEW s \in Seq(Byte), Len(s) # 0
    PROVE  s # <<>>
<1>1. Len(<<>>) = 0  BY EmptySeq
<1> QED  BY <1>1, Zenon

\* What went in, and what is on its way out, around one character.
LEMMA AppendBehind ==
    ASSUME NEW a \in Seq(Byte), NEW b \in Seq(Byte), NEW c \in Byte
    PROVE  Append(a \o b, c) = a \o Append(b, c)
<1>1. <<c>> \in Seq(Byte)  OBVIOUS
<1>2. a \o b \in Seq(Byte)  BY ConcatProperties
<1>3. Append(a \o b, c) = (a \o b) \o <<c>>  BY <1>2, AppendIsConcat
<1>4. Append(b, c) = b \o <<c>>  BY AppendIsConcat
<1>5. (a \o b) \o <<c>> = a \o (b \o <<c>>)  BY <1>1, ConcatAssociative
<1> QED  BY <1>3, <1>4, <1>5

\* The types of the parts, each as a fact of its own.
LEMMA Parts ==
    ASSUME IInv
    PROVE  /\ tx_buf \in Ring /\ rx_buf \in Ring
           /\ txeie \in BOOLEAN /\ tc \in BOOLEAN
           /\ tdr \in Seq(Byte) /\ shift \in Seq(Byte) /\ rdr \in Seq(Byte)
           /\ main \in MainType
           /\ submitted \in Seq(Byte) /\ wire \in Seq(Byte)
           /\ accepted \in Seq(Byte) /\ got \in Seq(Byte)
           /\ Contents(tx_buf) \in Seq(Byte) /\ Contents(rx_buf) \in Seq(Byte)
<1>1. \A s \in OneOrNone : s \in Seq(Byte)
  <2>1. <<>> \in Seq(Byte) /\ \A b \in Byte : <<b>> \in Seq(Byte)  OBVIOUS
  <2> QED  BY <2>1 DEF OneOrNone
<1> QED  BY <1>1, ContentsIsSeq DEF IInv, TypeOK, MainType

-----------------------------------------------------------------------------
(* The actions                                                             *)

LEMMA InitIInv == Init => IInv
<1> SUFFICES ASSUME Init PROVE IInv  OBVIOUS
<1>1. TypeOK
  <2>1. main \in MainType
        BY BufSizeAssumption, UartAssumption DEF Init, MainType, PcValues, Slots
  <2> QED  BY <2>1, EmptyRing DEF Init, TypeOK, OneOrNone, MainType
<1>2. TransmitInOrder /\ ReceiveInOrder
      BY EmptyRing DEF Init, TransmitInOrder, ReceiveInOrder
<1>3. NoLostWakeup /\ CallInProgress
      BY EmptyRing DEF Init, NoLostWakeup, CallInProgress
<1> QED  BY <1>1, <1>2, <1>3 DEF IInv

\* Steps of the main program that touch nothing but its locals.
LEMMA LocalStep ==
    ASSUME IInv, UNCHANGED <<tx, rx>>, main' \in MainType, NoLostWakeup', CallInProgress'
    PROVE  IInv'
BY DEF IInv, TypeOK, MainType, TransmitInOrder, ReceiveInOrder, tx, rx

LEMMA BeginStep ==
    ASSUME IInv, uart_write \/ printf_putchar
    PROVE  IInv'
<1>1. PICK bytes \in Seq(Byte) \ {<<>>} : Begin(bytes)
  <2>1. CASE uart_write
        BY <2>1, UartAssumption DEF uart_write
  <2>2. CASE printf_putchar
        <3>1. PICK c \in Byte : Begin(IF c = LF THEN <<CR, LF>> ELSE <<c>>)
              BY <2>2 DEF printf_putchar
        <3>2. (IF c = LF THEN <<CR, LF>> ELSE <<c>>) \in Seq(Byte) \ {<<>>}
              BY UartAssumption
        <3> QED  BY <3>1, <3>2
  <2> QED  BY <2>1, <2>2
<1>2. /\ main' \in MainType
      /\ main'.pc = "space" /\ main'.todo = bytes
      BY <1>1, Parts DEF Begin, MainType, PcValues
<1>3. CallInProgress'
      BY <1>1, <1>2 DEF Begin, IInv, CallInProgress, tx, rx
<1>4. NoLostWakeup'
      BY <1>1, <1>2 DEF Begin, IInv, NoLostWakeup, tx, rx
<1> QED  BY <1>1, <1>2, <1>3, <1>4, LocalStep DEF Begin

LEMMA PutcSpaceStep == ASSUME IInv, PutcSpace PROVE IInv'
<1> DEFINE ck == Pointers(tx_buf, "RB_WRITE", 1)
<1>1. /\ ck.ptr1 = tx_buf.write_pos /\ tx_buf.write_pos \in Slots
      /\ ck.len1 = 1 <=> BytesFree(tx_buf) > 0
      BY Parts, PointerOfOne DEF Ring
<1> HIDE DEF ck
<1>2. main' = [main EXCEPT !.slot = ck.ptr1, !.ok = ck.len1 = 1,
                           !.pc = IF ck.len1 = 1 THEN "store" ELSE "enable"]
      BY DEF PutcSpace, ck
<1>3. /\ main' \in MainType
      /\ main'.pc = IF ck.len1 = 1 THEN "store" ELSE "enable"
      /\ main'.slot = ck.ptr1 /\ main'.todo = main.todo
      BY <1>1, <1>2, Parts DEF MainType, PcValues
<1>4. CallInProgress'
      BY <1>1, <1>3 DEF PutcSpace, IInv, CallInProgress, tx, rx
<1>5. NoLostWakeup'
      BY <1>3 DEF PutcSpace, IInv, NoLostWakeup, tx, rx
<1> QED  BY <1>3, <1>4, <1>5, LocalStep DEF PutcSpace

LEMMA PutcStoreStep == ASSUME IInv, PutcStore PROVE IInv'
<1> DEFINE c == Head(main.todo)
<1>1. /\ main.todo \in Seq(Byte) /\ main.todo # <<>>
      /\ main.slot = tx_buf.write_pos /\ BytesFree(tx_buf) > 0
      BY Parts DEF IInv, CallInProgress, PutcStore, MainType
<1>2. c \in Byte  BY <1>1, HeadTailProperties
<1> HIDE DEF c
<1>3. tx_buf' = [tx_buf EXCEPT !.buf[tx_buf.write_pos] = c]
      BY <1>1 DEF PutcStore, c
<1>4. /\ tx_buf' \in Ring
      /\ tx_buf'.buf[tx_buf'.write_pos] = c
      /\ BytesUsed(tx_buf') = BytesUsed(tx_buf)
      /\ BytesFree(tx_buf') = BytesFree(tx_buf)
      /\ Contents(tx_buf') = Contents(tx_buf)
      BY <1>1, <1>2, <1>3, Parts, StoreKeepsContents
<1>5. main' \in MainType /\ main'.pc = "commit" /\ main'.todo = main.todo
      BY Parts DEF PutcStore, MainType, PcValues
<1>6. TypeOK'
      BY <1>4, <1>5 DEF PutcStore, IInv, TypeOK, MainType, rx
<1>7. TransmitInOrder' /\ ReceiveInOrder'
      BY <1>4 DEF PutcStore, IInv, TransmitInOrder, ReceiveInOrder, rx
<1>8. CallInProgress'
      BY <1>1, <1>4, <1>5 DEF PutcStore, IInv, CallInProgress, rx, c
<1>9. NoLostWakeup'
      BY <1>4, <1>5 DEF PutcStore, IInv, NoLostWakeup
<1> QED  BY <1>6, <1>7, <1>8, <1>9 DEF IInv

LEMMA PutcCommitStep == ASSUME IInv, PutcCommit PROVE IInv'
<1> DEFINE c == Head(main.todo)
<1>1. /\ main.todo \in Seq(Byte) /\ main.todo # <<>>
      /\ tx_buf.buf[tx_buf.write_pos] = c /\ BytesFree(tx_buf) > 0
      BY Parts DEF IInv, CallInProgress, PutcCommit, MainType
<1>2. c \in Byte  BY <1>1, HeadTailProperties
<1> HIDE DEF c
<1>3. /\ tx_buf' \in Ring
      /\ Contents(tx_buf') = Append(Contents(tx_buf), c)
      BY <1>1, Parts, CommitOfOneWrite DEF PutcCommit
<1>4. main' \in MainType /\ main'.pc = "enable" /\ main'.todo = main.todo
      BY Parts DEF PutcCommit, MainType, PcValues
<1>5. submitted' = Append(submitted, c) /\ submitted' \in Seq(Byte)
      BY <1>2, Parts, AppendProperties DEF PutcCommit, c
<1>6. TypeOK'
      BY <1>3, <1>4, <1>5 DEF PutcCommit, IInv, TypeOK, MainType, rx
<1>7. TransmitInOrder'
  <2> DEFINE ahead == wire \o shift \o tdr
  <2>1. ahead \in Seq(Byte)  BY Parts, ConcatProperties
  <2>2. submitted = ahead \o Contents(tx_buf)  BY DEF IInv, TransmitInOrder
  <2>3. ahead' = ahead  BY DEF PutcCommit
  <2> HIDE DEF ahead
  <2>4. Append(ahead \o Contents(tx_buf), c) = ahead \o Append(Contents(tx_buf), c)
        BY <1>2, <2>1, Parts, AppendBehind
  <2>5. submitted' = ahead' \o Contents(tx_buf)'
        BY <1>3, <1>5, <2>2, <2>3, <2>4
  <2> QED  BY <2>5 DEF TransmitInOrder, ahead
<1>8. ReceiveInOrder'
      BY DEF PutcCommit, IInv, ReceiveInOrder, rx
<1>9. CallInProgress'
      BY <1>1, <1>4 DEF PutcCommit, IInv, CallInProgress, rx
<1>10. NoLostWakeup'
      BY <1>4 DEF NoLostWakeup
<1> QED  BY <1>6, <1>7, <1>8, <1>9, <1>10 DEF IInv

LEMMA PutcEnableStep == ASSUME IInv, PutcEnable PROVE IInv'
<1>1. main.todo \in Seq(Byte) /\ main.todo # <<>>
      BY Parts DEF IInv, CallInProgress, PutcEnable, MainType
<1>2. Tail(main.todo) \in Seq(Byte) /\ Len(Tail(main.todo)) = Len(main.todo) - 1
      BY <1>1, HeadTailProperties
<1>3. Len(main.todo) \in Nat \ {0}  BY <1>1, EmptySeq
<1>4. /\ main' \in MainType
      /\ \/ main'.pc = "idle"
         \/ main'.pc = "space" /\ main'.todo # <<>>
  <2>1. CASE ~main.ok
        BY <1>1, <2>1, Parts DEF PutcEnable, PutcContinue, MainType, PcValues
  <2>2. CASE main.ok /\ Len(main.todo) = 1
        BY <1>2, <2>2, Parts DEF PutcEnable, PutcContinue, MainType, PcValues
  <2>3. CASE main.ok /\ Len(main.todo) # 1
        <3>1. Len(Tail(main.todo)) # 0  BY <1>2, <1>3, <2>3
        <3>2. Tail(main.todo) # <<>>  BY <1>2, <3>1, NotEmpty
        <3> QED  BY <1>2, <2>3, <3>2, Parts
                 DEF PutcEnable, PutcContinue, MainType, PcValues
  <2> QED  BY <2>1, <2>2, <2>3, Parts DEF MainType
<1>5. TypeOK'
      BY <1>4 DEF PutcEnable, IInv, TypeOK, MainType, rx
<1>6. TransmitInOrder' /\ ReceiveInOrder'
      BY DEF PutcEnable, IInv, TransmitInOrder, ReceiveInOrder, rx
<1>7. CallInProgress'
      BY <1>4 DEF PutcEnable, IInv, CallInProgress, rx
<1>8. NoLostWakeup'
      BY DEF PutcEnable, NoLostWakeup
<1> QED  BY <1>5, <1>6, <1>7, <1>8 DEF IInv

LEMMA GetcStep == ASSUME IInv, uart_getc PROVE IInv'
<1> DEFINE ck == Pointers(rx_buf, "RB_READ", 1)
<1>1. /\ ck.ptr1 = rx_buf.read_pos /\ rx_buf.read_pos \in Slots
      /\ ck.len1 = 1 <=> BytesUsed(rx_buf) > 0
      BY Parts, PointerOfOne DEF Ring
<1> HIDE DEF ck
<1>2. ck.len1 = 1 /\ main' = [main EXCEPT !.pc = "load", !.slot = ck.ptr1]
      BY DEF uart_getc, ck
<1>3. main' \in MainType /\ main'.pc = "load" /\ main'.slot = ck.ptr1
      BY <1>1, <1>2, Parts DEF MainType, PcValues
<1>4. CallInProgress'
      BY <1>1, <1>2, <1>3 DEF uart_getc, IInv, CallInProgress, tx, rx
<1>5. NoLostWakeup'
      BY <1>3 DEF uart_getc, IInv, NoLostWakeup, tx, rx
<1> QED  BY <1>3, <1>4, <1>5, LocalStep DEF uart_getc

LEMMA GetcLoadStep == ASSUME IInv, GetcLoad PROVE IInv'
<1>1. main.slot = rx_buf.read_pos /\ BytesUsed(rx_buf) > 0 /\ main.slot \in Slots
      BY Parts DEF IInv, CallInProgress, GetcLoad, MainType
<1>2. rx_buf.buf[main.slot] \in Byte  BY <1>1, Parts DEF Ring
<1>3. main' \in MainType /\ main'.pc = "release" /\ main'.c = rx_buf.buf[rx_buf.read_pos]
      BY <1>1, <1>2, Parts DEF GetcLoad, MainType, PcValues
<1>4. CallInProgress'
      BY <1>1, <1>3 DEF GetcLoad, IInv, CallInProgress, tx, rx
<1>5. NoLostWakeup'
      BY <1>3 DEF GetcLoad, IInv, NoLostWakeup, tx, rx
<1> QED  BY <1>3, <1>4, <1>5, LocalStep DEF GetcLoad

LEMMA GetcReleaseStep == ASSUME IInv, GetcRelease PROVE IInv'
<1>1. main.c = rx_buf.buf[rx_buf.read_pos] /\ BytesUsed(rx_buf) > 0 /\ main.c \in Byte
      BY Parts DEF IInv, CallInProgress, GetcRelease, MainType
<1>2. /\ rx_buf' \in Ring
      /\ Contents(rx_buf) = <<main.c>> \o Contents(rx_buf')
      BY <1>1, Parts, CommitOfOneRead DEF GetcRelease
<1>3. main' \in MainType /\ main'.pc = "idle"
      BY Parts DEF GetcRelease, MainType, PcValues
<1>4. got' = got \o <<main.c>> /\ got' \in Seq(Byte)
      BY <1>1, Parts, AppendProperties, AppendIsConcat DEF GetcRelease
<1>5. TypeOK'
      BY <1>2, <1>3, <1>4 DEF GetcRelease, IInv, TypeOK, MainType, tx
<1>6. ReceiveInOrder'
  <2>1. Contents(rx_buf') \in Seq(Byte)  BY <1>2, ContentsIsSeq
  <2>2. <<main.c>> \in Seq(Byte)  BY <1>1
  <2>3. accepted' = got \o (<<main.c>> \o Contents(rx_buf'))
        BY <1>2 DEF GetcRelease, IInv, ReceiveInOrder
  <2>4. got \o (<<main.c>> \o Contents(rx_buf')) = (got \o <<main.c>>) \o Contents(rx_buf')
    <3>1. got \in Seq(Byte)  BY Parts
    <3> QED  BY <2>1, <2>2, <3>1, ConcatAssociative
  <2>5. accepted' = got' \o Contents(rx_buf)'  BY <1>4, <2>3, <2>4
  <2> QED  BY <2>5 DEF ReceiveInOrder
<1>7. TransmitInOrder' /\ NoLostWakeup' /\ CallInProgress'
      BY <1>3 DEF GetcRelease, IInv, TransmitInOrder, NoLostWakeup, CallInProgress, tx
<1> QED  BY <1>5, <1>6, <1>7 DEF IInv

LEMMA FlushStep ==
    ASSUME IInv, uart_flush \/ FlushRing \/ FlushTc
    PROVE  IInv'
<1>1. main' \in MainType
      BY Parts DEF uart_flush, FlushRing, FlushTc, MainType, PcValues
<1>2. CallInProgress'
  <2>1. CASE uart_flush
        <3>1. main'.pc = "flush_ring"  BY <2>1, Parts DEF uart_flush, MainType
        <3> QED  BY <2>1, <3>1 DEF uart_flush, IInv, CallInProgress, tx, rx
  <2>2. CASE FlushRing
        <3>1. main'.pc = "flush_tc"  BY <2>2, Parts DEF FlushRing, MainType
        <3> QED  BY <2>2, <3>1 DEF FlushRing, IInv, CallInProgress, tx, rx
  <2>3. CASE FlushTc
        <3>1. main'.pc = "idle"  BY <2>3, Parts DEF FlushTc, MainType
        <3> QED  BY <2>3, <3>1 DEF FlushTc, IInv, CallInProgress, tx, rx
  <2> QED  BY <2>1, <2>2, <2>3
<1>3. NoLostWakeup'
      BY DEF uart_flush, FlushRing, FlushTc, IInv, NoLostWakeup, tx, rx
<1> QED  BY <1>1, <1>2, <1>3, LocalStep DEF uart_flush, FlushRing, FlushTc

\* The receiving half of the handler: what the main program sees of rx_buf.
LEMMA ReceiveIrqStep ==
    ASSUME IInv, ReceiveIrq
    PROVE  /\ rx_buf' \in Ring /\ rdr' \in OneOrNone
           /\ accepted' \in Seq(Byte) /\ got' = got
           /\ accepted' = got' \o Contents(rx_buf')
           /\ rx_buf'.read_pos = rx_buf.read_pos
           /\ BytesUsed(rx_buf) > 0 =>
                /\ BytesUsed(rx_buf') > 0
                /\ rx_buf'.buf[rx_buf.read_pos] = rx_buf.buf[rx_buf.read_pos]
<1> DEFINE ck == Pointers(rx_buf, "RB_WRITE", 1)
           c  == Head(rdr)
           r  == [rx_buf EXCEPT !.buf[rx_buf.write_pos] = c]
<1>1. /\ ck.ptr1 = rx_buf.write_pos
      /\ ck.len1 = 1 <=> BytesFree(rx_buf) > 0
      /\ BytesUsed(rx_buf) \in 0 .. BufSize - 1
      /\ rx_buf.read_pos \in Slots /\ rx_buf.write_pos \in Slots
      /\ rx_buf.buf \in [Slots -> Byte]
      BY Parts, PointerOfOne, UsedFree DEF Ring
<1>2. rdr \in OneOrNone /\ accepted = got \o Contents(rx_buf)
      BY DEF IInv, TypeOK, ReceiveInOrder
<1>3. CASE UNCHANGED <<rx_buf, accepted, got>> /\ rdr' \in OneOrNone
      BY <1>2, <1>3, Parts
<1>4. CASE ~RXNE
  <2>1. UNCHANGED <<rx_buf, rdr, accepted, got>>  BY <1>4 DEF ReceiveIrq, rx
  <2> QED  BY <1>2, <1>3, <2>1
<1>5. CASE RXNE /\ ck.len1 # 1
  <2>1. rdr' = <<>> /\ UNCHANGED <<rx_buf, accepted, got>>
        BY <1>5 DEF ReceiveIrq
  <2> QED  BY <1>3, <2>1 DEF OneOrNone
<1>6. CASE RXNE /\ ck.len1 = 1
  <2>1. /\ rx_buf' = Commit([rx_buf EXCEPT !.buf[ck.ptr1] = Head(rdr)], "RB_WRITE", 1)
        /\ accepted' = Append(accepted, c)
        /\ got' = got /\ rdr' = <<>>
        BY <1>6 DEF ReceiveIrq
  <2>2. rx_buf' = Commit(r, "RB_WRITE", 1)
    <3> HIDE DEF ck
    <3> QED  BY <1>1, <2>1
  <2>3. c \in Byte  BY <1>2, <1>6 DEF RXNE, OneOrNone
  <2> HIDE DEF c, ck
  <2>4. /\ r \in Ring
        /\ r.buf[r.write_pos] = c
        /\ BytesUsed(r) = BytesUsed(rx_buf)
        /\ BytesFree(r) = BytesFree(rx_buf)
        /\ Contents(r) = Contents(rx_buf)
        BY <1>1, <1>6, <2>3, Parts, StoreKeepsContents
  <2>5. /\ r.read_pos = rx_buf.read_pos
        /\ BytesUsed(rx_buf) > 0 =>
              r.buf[rx_buf.read_pos] = rx_buf.buf[rx_buf.read_pos]
    <3>1. BytesUsed(rx_buf) > 0 => rx_buf.read_pos # rx_buf.write_pos
          BY <1>1 DEF BytesUsed, Slots
    <3>2. /\ r.read_pos = rx_buf.read_pos
          /\ r.buf = [rx_buf.buf EXCEPT ![rx_buf.write_pos] = c]
          BY Parts DEF Ring
    <3> QED  BY <1>1, <3>1, <3>2
  <2> HIDE DEF r
  <2>6. /\ rx_buf' \in Ring
        /\ rx_buf'.buf = r.buf
        /\ BytesUsed(rx_buf') = BytesUsed(r) + 1
        /\ Contents(rx_buf') = Append(Contents(r), c)
        BY <1>1, <1>6, <2>2, <2>4, CommitOfOneWrite
  <2>7. rx_buf'.read_pos = r.read_pos
        BY <2>2, <2>4 DEF Commit, Ring
  <2>8. accepted' \in Seq(Byte)
        BY <2>1, <2>3, Parts, AppendProperties
  <2>9. accepted' = got' \o Contents(rx_buf')
    <3>1. Append(got \o Contents(rx_buf), c) = got \o Append(Contents(rx_buf), c)
          BY <2>3, Parts, AppendBehind
    <3> QED  BY <1>2, <2>1, <2>4, <2>6, <3>1
  <2>10. rdr' \in OneOrNone  BY <2>1 DEF OneOrNone
  <2>11. BytesUsed(rx_buf) > 0 =>
           /\ BytesUsed(rx_buf') > 0
           /\ rx_buf'.buf[rx_buf.read_pos] = rx_buf.buf[rx_buf.read_pos]
         BY <1>1, <2>4, <2>5, <2>6
  <2> QED  BY <2>1, <2>5, <2>6, <2>7, <2>8, <2>9, <2>10, <2>11
<1> QED  BY <1>4, <1>5, <1>6

\* The transmitting half: what the main program sees of tx_buf.
LEMMA TransmitIrqStep ==
    ASSUME IInv, TransmitIrq
    PROVE  /\ tx_buf' \in Ring /\ tdr' \in OneOrNone
           /\ txeie' \in BOOLEAN /\ tc' \in BOOLEAN
           /\ UNCHANGED <<shift, submitted, wire>>
           /\ TransmitInOrder'
           /\ BytesUsed(tx_buf') > 0 => BytesUsed(tx_buf) > 0 /\ txeie' = txeie
           /\ BytesFree(tx_buf) > 0 => BytesFree(tx_buf') > 0
           /\ tx_buf'.write_pos = tx_buf.write_pos
           /\ tx_buf'.buf = tx_buf.buf
           /\ tc' => tc /\ tdr' = tdr
<1> DEFINE ck == Pointers(tx_buf, "RB_READ", 1)
           b  == tx_buf.buf[tx_buf.read_pos]
<1>1. /\ ck.ptr1 = tx_buf.read_pos
      /\ ck.len1 = 1 <=> BytesUsed(tx_buf) > 0
      /\ BytesUsed(tx_buf) \in 0 .. BufSize - 1
      /\ tx_buf.read_pos \in Slots /\ tx_buf.buf \in [Slots -> Byte]
      BY Parts, PointerOfOne, UsedFree DEF Ring
<1>2. /\ tdr \in OneOrNone /\ txeie \in BOOLEAN /\ tc \in BOOLEAN
      /\ submitted = wire \o shift \o tdr \o Contents(tx_buf)
      BY DEF IInv, TypeOK, TransmitInOrder
<1>3. CASE ~TXE
  <2>1. UNCHANGED tx  BY <1>3 DEF TransmitIrq
  <2> QED  BY <1>2, <2>1, Parts DEF tx, TransmitInOrder
<1>4. CASE TXE /\ ck.len1 # 1
  <2>1. txeie' = FALSE /\ UNCHANGED <<tx_buf, tdr, shift, tc, submitted, wire>>
        BY <1>4 DEF TransmitIrq
  <2>2. BytesUsed(tx_buf) = 0  BY <1>1, <1>4
  <2>3. TransmitInOrder'  BY <1>2, <2>1 DEF TransmitInOrder
  <2>4. txeie' \in BOOLEAN /\ tc' \in BOOLEAN /\ (tc' => tc /\ tdr' = tdr)
        BY <1>2, <2>1
  <2>5. ~(BytesUsed(tx_buf') > 0)  BY <2>1, <2>2
  <2> QED  BY <1>2, <2>1, <2>3, <2>4, <2>5, Parts
<1>5. CASE TXE /\ ck.len1 = 1
  <2>1. /\ tdr' = <<b>> /\ tc' = FALSE
        /\ tx_buf' = Commit(tx_buf, "RB_READ", 1)
        /\ UNCHANGED <<txeie, shift, submitted, wire>>
        BY <1>1, <1>5 DEF TransmitIrq
  <2>2. b \in Byte  BY <1>1
  <2>3. /\ tx_buf' \in Ring
        /\ BytesUsed(tx_buf') = BytesUsed(tx_buf) - 1
        /\ Contents(tx_buf) = <<b>> \o Contents(tx_buf')
        BY <1>1, <1>5, <2>1, Parts, CommitOfOneRead
  <2>4. tx_buf'.write_pos = tx_buf.write_pos /\ tx_buf'.buf = tx_buf.buf
        BY <2>1, Parts DEF Commit, Ring
  <2> HIDE DEF b
  <2>5. BytesFree(tx_buf') = BytesFree(tx_buf) + 1
        BY <1>1, <2>3, BufSizeAssumption DEF BytesFree
  <2>6. TransmitInOrder'
    <3> DEFINE ahead == wire \o shift
    <3>1. ahead \in Seq(Byte) /\ tdr = <<>>
          BY <1>5, Parts, ConcatProperties DEF TXE
    <3>2. ahead' = ahead  BY <2>1
    <3>3. submitted = ahead \o tdr \o Contents(tx_buf)  BY <1>2
    <3> HIDE DEF ahead
    <3>4. ahead \o tdr = ahead  BY <3>1, ConcatEmptySeq
    <3>5. /\ Contents(tx_buf') \in Seq(Byte) /\ <<b>> \in Seq(Byte)
          BY <2>2, <2>3, ContentsIsSeq
    <3>6. (ahead \o <<b>>) \o Contents(tx_buf') = ahead \o (<<b>> \o Contents(tx_buf'))
          BY <3>1, <3>5, ConcatAssociative
    <3>7. submitted' = (ahead' \o tdr') \o Contents(tx_buf)'
          BY <2>1, <2>3, <3>2, <3>3, <3>4, <3>6
    <3> QED  BY <3>7 DEF TransmitInOrder, ahead
  <2>7. tdr' \in OneOrNone  BY <2>1, <2>2 DEF OneOrNone
  <2>8. txeie' \in BOOLEAN /\ tc' \in BOOLEAN /\ (tc' => tc /\ tdr' = tdr)
        BY <1>2, <2>1
  <2>9. /\ BytesUsed(tx_buf') > 0 => BytesUsed(tx_buf) > 0 /\ txeie' = txeie
        /\ BytesFree(tx_buf) > 0 => BytesFree(tx_buf') > 0
    <3>1. BytesUsed(tx_buf) > 0  BY <1>1, <1>5
    <3>2. BytesFree(tx_buf) \in 0 .. BufSize - 1  BY Parts, UsedFree
    <3> QED  BY <2>1, <2>5, <3>1, <3>2, BufSizeAssumption
  <2> QED  BY <2>1, <2>3, <2>4, <2>6, <2>7, <2>8, <2>9
<1> QED  BY <1>3, <1>4, <1>5

LEMMA IrqStep == ASSUME IInv, USART3_IRQHandler PROVE IInv'
<1>1. ReceiveIrq /\ TransmitIrq /\ UNCHANGED main  BY DEF USART3_IRQHandler
<1>2. TypeOK'
  <2>1. /\ rx_buf' \in Ring /\ rdr' \in OneOrNone
        /\ accepted' \in Seq(Byte) /\ got' = got
        BY <1>1, ReceiveIrqStep
  <2>2. /\ tx_buf' \in Ring /\ tdr' \in OneOrNone
        /\ txeie' \in BOOLEAN /\ tc' \in BOOLEAN
        /\ UNCHANGED <<shift, submitted, wire>>
        BY <1>1, TransmitIrqStep
  <2> QED  BY <1>1, <2>1, <2>2 DEF IInv, TypeOK
<1>3. TransmitInOrder' /\ ReceiveInOrder'
      BY <1>1, ReceiveIrqStep, TransmitIrqStep DEF ReceiveInOrder
<1>4. NoLostWakeup'
  <2>1. BytesUsed(tx_buf') > 0 => BytesUsed(tx_buf) > 0 /\ txeie' = txeie
        BY <1>1, TransmitIrqStep
  <2> QED  BY <1>1, <2>1 DEF IInv, NoLostWakeup
<1>5. CallInProgress'
  <2>1. /\ BytesUsed(tx_buf') > 0 => BytesUsed(tx_buf) > 0
        /\ BytesFree(tx_buf) > 0 => BytesFree(tx_buf') > 0
        /\ tx_buf'.write_pos = tx_buf.write_pos /\ tx_buf'.buf = tx_buf.buf
        /\ tc' => tc /\ tdr' = tdr
        /\ shift' = shift /\ tx_buf' \in Ring
        BY <1>1, TransmitIrqStep
  <2>2. BytesUsed(tx_buf) = 0 => BytesUsed(tx_buf') = 0
        BY <2>1, UsedFree
  <2>3. /\ rx_buf'.read_pos = rx_buf.read_pos
        /\ BytesUsed(rx_buf) > 0 =>
             /\ BytesUsed(rx_buf') > 0
             /\ rx_buf'.buf[rx_buf.read_pos] = rx_buf.buf[rx_buf.read_pos]
        BY <1>1, ReceiveIrqStep
  <2> QED  BY <1>1, <2>1, <2>2, <2>3 DEF IInv, CallInProgress
<1> QED  BY <1>2, <1>3, <1>4, <1>5 DEF IInv

LEMMA LoadShiftStep == ASSUME IInv, LoadShift PROVE IInv'
<1>1. /\ shift = <<>> /\ tdr # <<>> /\ shift' = tdr /\ tdr' = <<>>
      /\ UNCHANGED <<tx_buf, txeie, tc, submitted, wire, rx, main>>
      BY DEF LoadShift
<1>2. TypeOK'
      BY <1>1 DEF IInv, TypeOK, OneOrNone, rx
<1>3. TransmitInOrder'
  <2>1. wire \o shift = wire /\ (wire \o tdr) \o <<>> = wire \o tdr
        BY <1>1, Parts, ConcatProperties, ConcatEmptySeq
  <2>2. submitted = wire \o shift \o tdr \o Contents(tx_buf)
        BY DEF IInv, TransmitInOrder
  <2> QED  BY <1>1, <2>1, <2>2 DEF TransmitInOrder
<1>4. ReceiveInOrder' /\ NoLostWakeup'
      BY <1>1 DEF IInv, ReceiveInOrder, NoLostWakeup, rx
<1>5. CallInProgress'
      BY <1>1 DEF IInv, CallInProgress, rx
<1> QED  BY <1>2, <1>3, <1>4, <1>5 DEF IInv

LEMMA SendFrameStep == ASSUME IInv, SendFrame PROVE IInv'
<1>1. /\ shift # <<>> /\ wire' = wire \o shift /\ shift' = <<>>
      /\ tc' = (tc \/ tdr = <<>>)
      /\ UNCHANGED <<tx_buf, txeie, tdr, submitted, rx, main>>
      BY DEF SendFrame
<1>2. wire' \in Seq(Byte)  BY <1>1, Parts, ConcatProperties
<1>3. TypeOK'
      BY <1>1, <1>2 DEF IInv, TypeOK, OneOrNone, rx
<1>4. TransmitInOrder'
  <2>1. wire' \o shift' = wire'  BY <1>1, <1>2, ConcatEmptySeq
  <2>2. submitted = wire \o shift \o tdr \o Contents(tx_buf)
        BY DEF IInv, TransmitInOrder
  <2> QED  BY <1>1, <2>1, <2>2 DEF TransmitInOrder
<1>5. ReceiveInOrder' /\ NoLostWakeup'
      BY <1>1 DEF IInv, ReceiveInOrder, NoLostWakeup, rx
<1>6. CallInProgress'
      BY <1>1 DEF IInv, CallInProgress, rx
<1> QED  BY <1>3, <1>4, <1>5, <1>6 DEF IInv

LEMMA ReceiveFrameStep == ASSUME IInv, ReceiveFrame PROVE IInv'
<1>1. rdr' \in OneOrNone /\ UNCHANGED <<rx_buf, accepted, got, tx, main>>
      BY DEF ReceiveFrame, OneOrNone
<1> QED  BY <1>1 DEF IInv, TypeOK, TransmitInOrder, ReceiveInOrder, NoLostWakeup,
                     CallInProgress, tx

LEMMA StepIInv == IInv /\ [Next]_vars => IInv'
<1> SUFFICES ASSUME IInv, [Next]_vars PROVE IInv'  OBVIOUS
<1>1. CASE MainCall
      BY <1>1, BeginStep, GetcStep, FlushStep DEF MainCall
<1>2. CASE MainStep
      BY <1>2, PutcSpaceStep, PutcStoreStep, PutcCommitStep, PutcEnableStep,
         GetcLoadStep, GetcReleaseStep, FlushStep DEF MainStep
<1>3. CASE USART3_IRQHandler
      BY <1>3, IrqStep
<1>4. CASE LoadShift \/ SendFrame \/ ReceiveFrame
      BY <1>4, LoadShiftStep, SendFrameStep, ReceiveFrameStep
<1>5. CASE UNCHANGED vars
      BY <1>5 DEF vars, tx, rx, IInv, TypeOK, TransmitInOrder, ReceiveInOrder,
                  NoLostWakeup, CallInProgress
<1> QED  BY <1>1, <1>2, <1>3, <1>4, <1>5 DEF Next

-----------------------------------------------------------------------------
(* The theorems                                                            *)

\* Rings, registers and the program counter keep their bounds, for every size
\* of the two rings.
THEOREM TypeCorrect == Spec => []TypeOK
<1>1. IInv => TypeOK  BY DEF IInv
<1> QED  BY <1>1, InitIInv, StepIInv, PTL DEF Spec

\* Types, and what every call of uart.c relies on between its steps while the
\* interrupt handler runs.
THEOREM CallsUndisturbed == Spec => [](TypeOK /\ CallInProgress)
<1>1. IInv => TypeOK /\ CallInProgress  BY DEF IInv
<1> QED  BY <1>1, InitIInv, StepIInv, PTL DEF Spec

\* Every byte accepted by uart_putc is on the wire or on its way to it, in
\* order.
THEOREM TransmitInOrderTheorem == Spec => []TransmitInOrder
<1>1. IInv => TransmitInOrder  BY DEF IInv
<1> QED  BY <1>1, InitIInv, StepIInv, PTL DEF Spec

\* uart_getc returns the bytes the handler has stored, in order.
THEOREM ReceiveInOrderTheorem == Spec => []ReceiveInOrder
<1>1. IInv => ReceiveInOrder  BY DEF IInv
<1> QED  BY <1>1, InitIInv, StepIInv, PTL DEF Spec

\* The handler never switches off the interrupt that a waiting byte needs.
THEOREM NoLostWakeupTheorem == Spec => []NoLostWakeup
<1>1. IInv => NoLostWakeup  BY DEF IInv
<1> QED  BY <1>1, InitIInv, StepIInv, PTL DEF Spec

\* uart_flush returns only when every byte written before has been sent.
THEOREM FlushMeansSentTheorem == Spec => FlushMeansSent
<1>1. IInv /\ [Next]_vars
        => [main.pc = "flush_tc" /\ main'.pc = "idle" => wire = submitted]_vars
  <2> SUFFICES ASSUME IInv, [Next]_vars, main.pc = "flush_tc", main'.pc = "idle"
               PROVE  wire = submitted
      OBVIOUS
  <2>1. tc
    <3>1. main' # main  OBVIOUS
    <3>2. MainCall => main.pc = "idle"
          BY DEF MainCall, uart_write, printf_putchar, Begin, uart_getc, uart_flush
    <3>3. MainStep => FlushTc
          BY DEF MainStep, PutcSpace, PutcStore, PutcCommit, PutcEnable,
                 GetcLoad, GetcRelease, FlushRing
    <3>4. USART3_IRQHandler \/ LoadShift \/ SendFrame \/ ReceiveFrame => main' = main
          BY DEF USART3_IRQHandler, LoadShift, SendFrame, ReceiveFrame
    <3> QED  BY <3>1, <3>2, <3>3, <3>4 DEF Next, vars, FlushTc
  <2>2. shift = <<>> /\ tdr = <<>> /\ BytesUsed(tx_buf) = 0
        BY <2>1 DEF IInv, CallInProgress
  <2>3. Contents(tx_buf) = <<>>
        BY <2>2, Parts, ContentsIsSeq, EmptySeq
  <2>4. wire \o <<>> \o <<>> \o <<>> = wire
        BY Parts, ConcatEmptySeq
  <2> QED  BY <2>2, <2>3, <2>4 DEF IInv, TransmitInOrder
<1> QED  BY <1>1, InitIInv, StepIInv, PTL DEF Spec, FlushMeansSent
===============================================================================

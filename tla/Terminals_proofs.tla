--------------------------- MODULE Terminals_proofs ---------------------------
(***************************************************************************)
(* The two terminals for every size of queue, buffer and packet, every set *)
(* of tasks and everything they write or read: queues and pointers keep    *)
(* their bounds, no byte waits with the transmit interrupt off, and what   *)
(* is typed and what is written arrives whole and in order.                *)
(*                                                                         *)
(* Texts, queues and buffers are turned into characters by FlattenSeq, a   *)
(* recursive function: its properties are proved by induction over sets of *)
(* numbers, from the least element every such set has.                     *)
(***************************************************************************)
EXTENDS Terminals, SequenceTheorems, WellFoundedInduction, TLAPS

\* A task in a call of write_r has something left to write, and the shell in a
\* call of read_r room left to read into: what Head(src) and rd.len - 1 rely on.
WritersHaveText == \A k \in Tasks : Writing(k) => task[k].src # <<>>

ReaderHasRoom == task[Shell].pc \in {"receive", "receive_next"} => rd.len > 0

IInv == TypeOK /\ WritersHaveText /\ ReaderHasRoom /\ NoLostWakeup

\* The parts of the state, as they change together.
TaskType == [Tasks -> [pc : {"idle", "receive", "receive_next"} \cup WriteLabels,
                       src : Seq(Letters \cup {LF})]]

AppType == [buf : [0 .. AppSize - 1 -> Items \cup {<<>>}],
            ptr_in : 0 .. AppSize - 1, ptr_out : 0 .. AppSize,
            length : 0 .. AppSize, state : {0, 1},
            packet : [ptr : 0 .. AppSize, len : 0 .. PacketSize]]

\* Neither the packet nor the rest of the transfer leaves the buffer.
Inside(u) == /\ u \in AppType
             /\ u.packet.ptr + u.packet.len <= AppSize
             /\ u.ptr_out + u.length <= AppSize

TxOK     == tx_queue \in Seq(Items) /\ Len(tx_queue) <= TxSize
RxOK     == rx_queue \in Seq(Char) /\ Len(rx_queue) <= RxSize
TaskOK   == task \in TaskType
ReaderOK == rd \in [len : 0 .. ReadLen, forever : BOOLEAN] /\ last_c \in Char \cup {0}
UsartOK  == txeie \in BOOLEAN /\ tdr \in OneOrNone(Items)
InputOK  == /\ rdr \in OneOrNone(Char) /\ typing \in Seq(Char)
            /\ keys \in Seq(Letters \cup {LF}) /\ lost \in BOOLEAN

LEMMA Parts ==
    TypeOK <=> /\ use \in Scenarios /\ lapped \in BOOLEAN
               /\ TxOK /\ RxOK /\ TaskOK /\ ReaderOK /\ UsartOK /\ InputOK
               /\ Inside(app)
BY DEF TypeOK, TxOK, RxOK, TaskOK, TaskType, ReaderOK, UsartOK, InputOK, Inside, AppType

LEMMA PartsNext ==
    TypeOK' <=> /\ use' \in Scenarios /\ lapped' \in BOOLEAN
                /\ TxOK' /\ RxOK' /\ TaskOK' /\ ReaderOK' /\ UsartOK' /\ InputOK'
                /\ Inside(app')
BY DEF TypeOK, TxOK, RxOK, TaskOK, TaskType, ReaderOK, UsartOK, InputOK, Inside, AppType

-----------------------------------------------------------------------------
(* Sequences                                                               *)

LEMMA Singleton ==
    ASSUME NEW S, NEW s \in OneOrNone(S)
    PROVE  s \in Seq(S)
<1>1. CASE s = <<>>  BY <1>1
<1>2. CASE \E x \in S : s = <<x>>  BY <1>2
<1> QED  BY <1>1, <1>2 DEF OneOrNone

\* The first and the last part of a sequence.
LEMMA Part ==
    ASSUME NEW S, NEW s \in Seq(S), NEW n \in 0 .. Len(s)
    PROVE  /\ SubSeq(s, 1, n) \in Seq(S) /\ Len(SubSeq(s, 1, n)) = n
           /\ SubSeq(s, n + 1, Len(s)) \in Seq(S)
           /\ Len(SubSeq(s, n + 1, Len(s))) = Len(s) - n
<1>1. n \in Int /\ Len(s) \in Int /\ 1 \in Int /\ n + 1 \in Int
      /\ \A i \in 1 .. Len(s) : s[i] \in S
      BY LenProperties, ElementOfSeq
<1>2. SubSeq(s, 1, n) \in Seq(S) /\ Len(SubSeq(s, 1, n)) = IF 1 <= n THEN n - 1 + 1 ELSE 0
  <2>1. \A i \in 1 .. n : s[i] \in S  BY <1>1
  <2> QED  BY <1>1, <2>1, SubSeqProperties
<1>3. /\ SubSeq(s, n + 1, Len(s)) \in Seq(S)
      /\ Len(SubSeq(s, n + 1, Len(s))) = IF n + 1 <= Len(s) THEN Len(s) - (n + 1) + 1 ELSE 0
  <2>1. \A i \in n + 1 .. Len(s) : s[i] \in S  BY <1>1
  <2> QED  BY <1>1, <2>1, SubSeqProperties
<1> QED  BY <1>1, <1>2, <1>3

\* What is left of the tail of a sequence.
LEMMA TailPart ==
    ASSUME NEW S, NEW s \in Seq(S)
    PROVE  (IF s = <<>> THEN s ELSE Tail(s)) \in Seq(S)
BY HeadTailProperties

\* u and then v.
LEMMA Joined ==
    ASSUME NEW S, NEW u \in Seq(S), NEW v \in Seq(S), NEW w \in Seq(S),
           Len(w) = Len(u) + Len(v),
           \A i \in 1 .. Len(u) : w[i] = u[i],
           \A i \in 1 .. Len(v) : w[Len(u) + i] = v[i]
    PROVE  w = u \o v
<1>1. Len(u) \in Nat /\ Len(v) \in Nat
      BY LenProperties
<1>2. /\ u \o v \in Seq(S) /\ Len(u \o v) = Len(u) + Len(v)
      /\ \A i \in 1 .. Len(u) + Len(v) :
             (u \o v)[i] = IF i <= Len(u) THEN u[i] ELSE v[i - Len(u)]
      BY ConcatProperties
<1>3. ASSUME NEW i \in 1 .. Len(w)  PROVE w[i] = (u \o v)[i]
  <2>1. CASE i <= Len(u)
        BY <1>1, <1>2, <2>1
  <2>2. CASE i > Len(u)
    <3>1. i - Len(u) \in 1 .. Len(v) /\ Len(u) + (i - Len(u)) = i
          BY <1>1, <2>2
    <3>2. w[i] = v[i - Len(u)]
          BY <3>1
    <3> QED  BY <1>1, <1>2, <2>2, <3>2
  <2> QED  BY <1>1, <2>1, <2>2
<1> QED  BY <1>2, <1>3, SeqEqual

\* A sequence of pieces is one.
LEMMA Pieces ==
    ASSUME NEW S, NEW n \in Nat, NEW f, f = [i \in 1 .. n |-> f[i]],
           \A i \in 1 .. n : f[i] \in S
    PROVE  f \in Seq(S) /\ Len(f) = n /\ DOMAIN f = 1 .. n
<1>1. f \in [1 .. n -> S]
      OBVIOUS
<1>2. f \in Seq(S)
      BY <1>1, SeqDef
<1> QED  BY <1>1, <1>2, LenProperties

\* Concatenation with a first element.
LEMMA FirstAndRest ==
    ASSUME NEW S, NEW x \in S, NEW s \in Seq(S)
    PROVE  /\ <<x>> \o s \in Seq(S) /\ Len(<<x>> \o s) = Len(s) + 1
           /\ (<<x>> \o s)[1] = x
           /\ \A i \in 1 .. Len(s) : (<<x>> \o s)[i + 1] = s[i]
           /\ Head(<<x>> \o s) = x /\ Tail(<<x>> \o s) = s
           /\ <<x>> \o s # <<>>
<1>1. <<x>> \in Seq(S) /\ Len(<<x>>) = 1 /\ <<x>>[1] = x /\ Len(s) \in Nat
      BY LenProperties
<1>2. /\ <<x>> \o s \in Seq(S) /\ Len(<<x>> \o s) = 1 + Len(s)
      /\ \A i \in 1 .. 1 + Len(s) :
             (<<x>> \o s)[i] = IF i <= 1 THEN <<x>>[i] ELSE s[i - 1]
      BY <1>1, ConcatProperties
<1>3. (<<x>> \o s)[1] = x
      BY <1>1, <1>2
<1>4. ASSUME NEW i \in 1 .. Len(s)  PROVE (<<x>> \o s)[i + 1] = s[i]
      BY <1>1, <1>2
<1> DEFINE w == <<x>> \o s
<1>5. w \in Seq(S) /\ Len(w) = Len(s) + 1 /\ w[1] = x
      /\ \A i \in 1 .. Len(s) : w[i + 1] = s[i]
      BY <1>1, <1>2, <1>3, <1>4
<1> HIDE DEF w
<1>6. w # <<>>
      BY <1>1, <1>5
<1>7. Head(w) = x /\ Tail(w) \in Seq(S) /\ Len(Tail(w)) = Len(s)
      /\ \A i \in 1 .. Len(Tail(w)) : Tail(w)[i] = w[i + 1]
      BY <1>1, <1>5, <1>6, HeadTailProperties
<1>8. Tail(w) = s
      BY <1>5, <1>7, SeqEqual
<1> QED  BY <1>5, <1>6, <1>7, <1>8 DEF w

\* The two parts of a sequence make it up.
LEMMA PartsMake ==
    ASSUME NEW S, NEW s \in Seq(S), NEW n \in 0 .. Len(s)
    PROVE  s = SubSeq(s, 1, n) \o SubSeq(s, n + 1, Len(s))
<1> DEFINE a == SubSeq(s, 1, n)
           b == SubSeq(s, n + 1, Len(s))
<1>1. /\ a \in Seq(S) /\ Len(a) = n /\ b \in Seq(S) /\ Len(b) = Len(s) - n
      /\ Len(s) \in Nat
      BY Part, LenProperties
<1>2. ASSUME NEW i \in 1 .. n  PROVE s[i] = a[i]
      BY <1>1
<1>3. ASSUME NEW i \in 1 .. Len(s) - n  PROVE s[n + i] = b[i]
      BY <1>1
<1> HIDE DEF a, b
<1>4. Len(s) = Len(a) + Len(b)
      BY <1>1
<1>5. s = a \o b
      BY <1>1, <1>2, <1>3, <1>4, Joined
<1> QED  BY <1>5 DEF a, b

\* Without its first part.
LEMMA DropFront ==
    ASSUME NEW S, NEW a \in Seq(S), NEW b \in Seq(S)
    PROVE  SubSeq(a \o b, Len(a) + 1, Len(a \o b)) = b
<1> DEFINE w == a \o b
           n == Len(a)
           d == SubSeq(w, n + 1, Len(w))
<1>1. /\ w \in Seq(S) /\ Len(w) = n + Len(b) /\ n \in Nat /\ Len(b) \in Nat
      /\ \A i \in 1 .. n + Len(b) : w[i] = IF i <= n THEN a[i] ELSE b[i - n]
      BY ConcatProperties, LenProperties
<1> HIDE DEF w, n
<1>2. n \in 0 .. Len(w)
      BY <1>1
<1>3. d \in Seq(S) /\ Len(d) = Len(b)
      BY <1>1, <1>2, Part
<1>4. ASSUME NEW i \in 1 .. Len(b)  PROVE d[i] = b[i]
  <2>1. d[i] = w[n + i]
        BY <1>1
  <2>2. n + i \in 1 .. n + Len(b) /\ ~(n + i <= n) /\ (n + i) - n = i
        BY <1>1
  <2> QED  BY <1>1, <2>1, <2>2
<1> HIDE DEF d
<1>5. d = b
      BY <1>3, <1>4, SeqEqual
<1> QED  BY <1>5 DEF d, w, n

-----------------------------------------------------------------------------
(* The buffer of the USB driver                                            *)

LEMMA Sizes ==
    /\ AppSize \in Nat /\ AppSize > 0
    /\ PacketSize \in Nat /\ PacketSize > 0
BY TerminalsAssumption

LEMMA Remainder ==
    ASSUME NEW a \in Int
    PROVE  a % AppSize \in 0 .. AppSize - 1
BY Sizes

LEMMA StartPacketInside ==
    ASSUME NEW u, Inside(u)
    PROVE  Inside(StartPacket(u))
<1> DEFINE n == IF u.length > PacketSize THEN PacketSize ELSE u.length
<1>1. n \in 0 .. PacketSize /\ n <= u.length
      BY Sizes DEF Inside, AppType
<1> DEFINE out == u.ptr_out + n
           len == u.length - n
           pk  == [ptr |-> u.ptr_out, len |-> n]
<1>2. StartPacket(u) = [u EXCEPT !.packet = pk, !.ptr_out = out, !.length = len]
      BY DEF StartPacket, Inside, AppType
<1> HIDE DEF n
<1>3. /\ out \in 0 .. AppSize /\ len \in 0 .. AppSize /\ out + len <= AppSize
      /\ pk \in [ptr : 0 .. AppSize, len : 0 .. PacketSize]
      /\ pk.ptr + pk.len <= AppSize
      BY <1>1, Sizes DEF Inside, AppType
<1> HIDE DEF out, len, pk
<1> QED  BY <1>2, <1>3 DEF Inside, AppType

LEMMA DataInInside ==
    ASSUME NEW u, Inside(u)
    PROVE  Inside(usbd_cdc_DataIn(u))
<1>1. CASE u.length = 0
  <2>1. usbd_cdc_DataIn(u) = [u EXCEPT !.state = 0, !.packet = NoPacket]
        BY <1>1 DEF usbd_cdc_DataIn
  <2>2. /\ NoPacket \in [ptr : 0 .. AppSize, len : 0 .. PacketSize]
        /\ NoPacket.ptr + NoPacket.len <= AppSize
        BY Sizes DEF NoPacket
  <2> QED  BY <2>1, <2>2 DEF Inside, AppType
<1>2. CASE u.length # 0
      BY <1>2, StartPacketInside DEF usbd_cdc_DataIn
<1> QED  BY <1>1, <1>2

LEMMA TransferInside ==
    ASSUME NEW u, Inside(u)
    PROVE  Inside(Handle_USBAsynchXfer(u))
<1> DEFINE out == IF u.ptr_out = AppSize THEN 0 ELSE u.ptr_out
           len == IF out > u.ptr_in THEN AppSize - out ELSE u.ptr_in - out
           v   == [u EXCEPT !.ptr_out = out, !.state = 1, !.length = len]
<1>1. out \in 0 .. AppSize - 1 /\ len \in 0 .. AppSize /\ out + len <= AppSize
      BY Sizes DEF Inside, AppType
<1>2. Handle_USBAsynchXfer(u) = IF u.state = 1 THEN u
                                ELSE IF out = u.ptr_in THEN [u EXCEPT !.ptr_out = out]
                                ELSE StartPacket(v)
      BY DEF Handle_USBAsynchXfer
<1> HIDE DEF len
<1>3. Inside(v)
  <2>1. out \in 0 .. AppSize  BY <1>1, Sizes
  <2> HIDE DEF out
  <2> QED  BY <1>1, <2>1 DEF Inside, AppType
<1>4. CASE u.state = 1
      BY <1>2, <1>4
<1>5. CASE u.state # 1 /\ out = u.ptr_in
  <2>1. Handle_USBAsynchXfer(u) = [u EXCEPT !.ptr_out = out]  BY <1>2, <1>5
  <2>2. out + u.length <= AppSize
        BY <1>1, Sizes DEF Inside, AppType
  <2>3. out \in 0 .. AppSize
        BY <1>1, Sizes
  <2> HIDE DEF out
  <2> DEFINE w == [u EXCEPT !.ptr_out = out]
  <2>4. w \in AppType
        BY <2>3 DEF Inside, AppType
  <2>5. w.packet = u.packet /\ w.ptr_out = out /\ w.length = u.length
        BY DEF Inside, AppType
  <2>6. Inside(w)
    <3> HIDE DEF w
    <3> QED  BY <2>2, <2>4, <2>5 DEF Inside
  <2> QED  BY <2>1, <2>6
<1>6. CASE u.state # 1 /\ out # u.ptr_in
  <2> HIDE DEF out, v
  <2> QED  BY <1>2, <1>3, <1>6, StartPacketInside
<1> QED  BY <1>4, <1>5, <1>6

LEMMA DataTxInside ==
    ASSUME NEW u, Inside(u), NEW items \in Seq(Items)
    PROVE  Inside(VCP_DataTx(u, items))
<1> DEFINE n == Len(items)
           buf == [i \in DOMAIN u.buf |->
                     LET j == (i - u.ptr_in) % AppSize
                     IN  IF j < n THEN items[j + 1] ELSE u.buf[i]]
<1>1. n \in Nat  BY LenProperties
<1>2. u.buf \in [0 .. AppSize - 1 -> Items \cup {<<>>}] /\ u.ptr_in \in Nat
      BY Sizes DEF Inside, AppType
<1>3. \A i \in 0 .. AppSize - 1 : buf[i] \in Items \cup {<<>>}
  <2> SUFFICES ASSUME NEW i \in 0 .. AppSize - 1
               PROVE  buf[i] \in Items \cup {<<>>}
      OBVIOUS
  <2> DEFINE j == (i - u.ptr_in) % AppSize
  <2>1. j \in 0 .. AppSize - 1
    <3>1. i - u.ptr_in \in Int  BY <1>2
    <3> QED  BY <3>1, Remainder
  <2>2. buf[i] = IF j < n THEN items[j + 1] ELSE u.buf[i]
    <3>1. i \in DOMAIN u.buf  BY <1>2
    <3> HIDE DEF n
    <3> QED  BY <3>1, Zenon
  <2> HIDE DEF j, buf
  <2>3. CASE j < n
    <3>1. j + 1 \in 1 .. Len(items)  BY <1>1, <2>1, <2>3
    <3> QED  BY <2>2, <2>3, <3>1, ElementOfSeq
  <2>4. CASE ~(j < n)  BY <1>2, <2>2, <2>4
  <2> QED  BY <2>3, <2>4
<1>4. buf \in [0 .. AppSize - 1 -> Items \cup {<<>>}]
  <2>1. DOMAIN buf = 0 .. AppSize - 1  BY <1>2
  <2>2. buf = [i \in DOMAIN buf |-> buf[i]]  OBVIOUS
  <2> HIDE DEF buf
  <2> QED  BY <1>3, <2>1, <2>2
<1>5. (u.ptr_in + n) % AppSize \in 0 .. AppSize - 1
  <2>1. u.ptr_in + n \in Int
    <3> HIDE DEF n
    <3> QED  BY <1>1, <1>2
  <2> QED  BY <2>1, Remainder
<1>6. VCP_DataTx(u, items) = [u EXCEPT !.buf = buf, !.ptr_in = (u.ptr_in + n) % AppSize]
      BY DEF VCP_DataTx, Inside, AppType
<1> HIDE DEF buf, n
<1> QED  BY <1>4, <1>5, <1>6 DEF Inside, AppType

-----------------------------------------------------------------------------
(* Steps of the tasks                                                      *)

Labels == {"idle", "receive", "receive_next"} \cup WriteLabels

\* About to enable the transmit interrupt.
Enabling(k) == task[k].pc \in {"cr_set", "char_set"}

LEMMA TaskUpdate ==
    ASSUME TaskOK, WritersHaveText, NEW k \in Tasks, NEW pc \in Labels,
           NEW src \in Seq(Letters \cup {LF}), pc \in WriteLabels => src # <<>>,
           task' = [task EXCEPT ![k] = [pc |-> pc, src |-> src]]
    PROVE  /\ TaskOK' /\ WritersHaveText'
           /\ task'[k] = [pc |-> pc, src |-> src]
           /\ \A j \in Tasks \ {k} : task'[j] = task[j]
<1>1. /\ task'[k] = [pc |-> pc, src |-> src]
      /\ \A j \in Tasks \ {k} : task'[j] = task[j]
      BY DEF TaskOK, TaskType
<1>2. TaskOK'
      BY DEF TaskOK, TaskType, Labels
<1>3. WritersHaveText'
      BY <1>1 DEF WritersHaveText, Writing
<1> QED  BY <1>1, <1>2, <1>3

LEMMA GotoUpdate ==
    ASSUME TaskOK, NEW k \in Tasks, NEW pc, Goto(k, pc)
    PROVE  /\ task' = [task EXCEPT ![k] = [pc |-> pc, src |-> task[k].src]]
           /\ task[k].src \in Seq(Letters \cup {LF})
<1>1. task[k] \in [pc : Labels, src : Seq(Letters \cup {LF})]
      BY DEF TaskOK, TaskType, Labels
<1>2. [task[k] EXCEPT !.pc = pc] = [pc |-> pc, src |-> task[k].src]
      BY <1>1
<1>3. task' = [task EXCEPT ![k] = [task[k] EXCEPT !.pc = pc]]
      BY DEF Goto
<1> QED  BY <1>1, <1>2, <1>3

LEMMA AdvanceUpdate ==
    ASSUME TaskOK, WritersHaveText, NEW k \in Tasks, Writing(k), Advance(k)
    PROVE  TaskOK' /\ WritersHaveText' /\ (\A j \in Tasks \ {k} : task'[j] = task[j])
           /\ task'[k].pc \in {"idle", "next"}
<1> DEFINE rest == Tail(task[k].src)
           pc   == IF rest = <<>> THEN "idle" ELSE "next"
<1>1. task[k].src \in Seq(Letters \cup {LF}) /\ task[k].src # <<>>
      BY DEF TaskOK, TaskType, WritersHaveText
<1>2. rest \in Seq(Letters \cup {LF})
      BY <1>1, HeadTailProperties
<1>3. pc \in Labels /\ (pc \in WriteLabels => rest # <<>>)
      BY DEF Labels, WriteLabels
<1>4. task' = [task EXCEPT ![k] = [pc |-> pc, src |-> rest]]
      BY DEF Advance
<1> HIDE DEF rest
<1>5. /\ TaskOK' /\ WritersHaveText' /\ task'[k] = [pc |-> pc, src |-> rest]
      /\ \A j \in Tasks \ {k} : task'[j] = task[j]
      BY <1>2, <1>3, <1>4, TaskUpdate
<1> QED  BY <1>5

\* A task that is not about to enable the interrupt may go anywhere.
LEMMA WakeupKept ==
    ASSUME NoLostWakeup, NEW k \in Tasks, ~Enabling(k),
           \A j \in Tasks \ {k} : task'[j] = task[j],
           UNCHANGED <<use, tx_queue, txeie>>
    PROVE  NoLostWakeup'
BY DEF NoLostWakeup, Enabling

LEMMA HeadIsChar ==
    ASSUME TaskOK, WritersHaveText, NEW k \in Tasks, Writing(k)
    PROVE  Head(task[k].src) \in Char
<1>1. task[k].src \in Seq(Letters \cup {LF}) /\ task[k].src # <<>>
      BY DEF TaskOK, TaskType, WritersHaveText
<1> QED  BY <1>1, HeadTailProperties DEF Char

LEMMA QueueSendOK ==
    ASSUME TxOK, NEW k \in Tasks, NEW c \in Char, xQueueSend(k, c)
    PROVE  TxOK'
<1>1. [by |-> k, c |-> c] \in Items
      BY DEF Items
<1>2. /\ Append(tx_queue, [by |-> k, c |-> c]) \in Seq(Items)
      /\ Len(Append(tx_queue, [by |-> k, c |-> c])) = Len(tx_queue) + 1
      BY <1>1, AppendProperties DEF TxOK
<1>3. Len(tx_queue) \in Nat /\ TxSize \in Nat /\ Len(tx_queue) < TxSize
      BY LenProperties, TerminalsAssumption DEF TxOK, xQueueSend
<1> QED  BY <1>2, <1>3 DEF TxOK, xQueueSend

\* The steps that leave the reading side and the USB driver alone.
LEMMA WritingSide ==
    ASSUME TypeOK, TaskOK', TxOK', UsartOK', lapped' \in BOOLEAN,
           UNCHANGED <<use, app, input, reader>>
    PROVE  TypeOK' /\ (task'[Shell].pc = task[Shell].pc
                        \/ task'[Shell].pc \notin {"receive", "receive_next"}
                       => (ReaderHasRoom => ReaderHasRoom'))
<1>1. RxOK' /\ InputOK' /\ ReaderOK'
      BY Parts DEF RxOK, InputOK, ReaderOK, input, reader
<1>2. Inside(app') /\ use' \in Scenarios
      BY Parts
<1>3. TypeOK'
      BY <1>1, <1>2, PartsNext
<1>4. rd' = rd
      BY DEF reader
<1> QED  BY <1>3, <1>4 DEF ReaderHasRoom

LEMMA InitIInv == Init => IInv
<1> SUFFICES ASSUME Init  PROVE IInv
    OBVIOUS
<1> USE TerminalsAssumption DEF Init
<1>1. TxOK /\ RxOK /\ UsartOK /\ InputOK
  <2>1. <<>> \in Seq(Items) /\ <<>> \in Seq(Char) /\ <<>> \in Seq(Letters \cup {LF})
        /\ Len(<<>>) = 0 /\ TxSize \in Nat /\ RxSize \in Nat
        BY TerminalsAssumption
  <2>2. 0 <= TxSize /\ 0 <= RxSize
        BY <2>1
  <2> QED  BY <2>1, <2>2 DEF TxOK, RxOK, UsartOK, InputOK, OneOrNone
<1>2. TaskOK
      BY DEF TaskOK, TaskType
<1>3. ReaderOK
      BY DEF ReaderOK
<1>4. Inside(app)
  <2>1. NoPacket \in [ptr : 0 .. AppSize, len : 0 .. PacketSize]
        /\ NoPacket.ptr + NoPacket.len <= AppSize
        BY DEF NoPacket
  <2>2. /\ [i \in 0 .. AppSize - 1 |-> <<>>] \in [0 .. AppSize - 1 -> Items \cup {<<>>}]
        /\ 0 \in 0 .. AppSize - 1 /\ 0 \in 0 .. AppSize
        BY Sizes
  <2> QED  BY <2>1, <2>2 DEF Inside, AppType
<1>5. TypeOK
      BY <1>1, <1>2, <1>3, <1>4, Parts
<1>6. WritersHaveText /\ ReaderHasRoom /\ NoLostWakeup
      BY DEF WritersHaveText, Writing, WriteLabels, ReaderHasRoom, NoLostWakeup
<1> QED  BY <1>5, <1>6 DEF IInv

LEMMA WriteStep ==
    ASSUME IInv, NEW k \in Tasks, write_r(k)
    PROVE  IInv'
<1>1. /\ TypeOK /\ TaskOK /\ TxOK /\ UsartOK /\ lapped \in BOOLEAN
      /\ WritersHaveText /\ ReaderHasRoom /\ NoLostWakeup
      BY Parts DEF IInv
<1>2. PICK text \in Texts : task' = [task EXCEPT ![k] = [pc |-> "next", src |-> text]]
      BY DEF write_r
<1>3. /\ task[k].pc = "idle" /\ lapped' \in BOOLEAN
      /\ UNCHANGED <<use, tx_queue, usart, app, input, reader>>
      BY <1>1 DEF write_r, Owe
<1>4. text \in Seq(Letters \cup {LF}) /\ text # <<>>
      BY TerminalsAssumption
<1>5. "next" \in Labels
      BY DEF Labels, WriteLabels
<1>6. /\ TaskOK' /\ WritersHaveText' /\ task'[k] = [pc |-> "next", src |-> text]
      /\ \A j \in Tasks \ {k} : task'[j] = task[j]
      BY <1>1, <1>2, <1>4, <1>5, TaskUpdate
<1>7. TxOK' /\ UsartOK'
      BY <1>1, <1>3 DEF TxOK, UsartOK, usart
<1>8. TypeOK' /\ ReaderHasRoom'
      BY <1>1, <1>3, <1>6, <1>7, WritingSide, TerminalsAssumption
<1>9. NoLostWakeup'
      BY <1>1, <1>3, <1>6, WakeupKept DEF Enabling, usart
<1> QED  BY <1>6, <1>8, <1>9 DEF IInv

\* What is left to show of a step of write_r.
LEMMA WriterMoves ==
    ASSUME IInv, NEW k \in Tasks, TaskOK', WritersHaveText', TxOK', UsartOK',
           \A j \in Tasks \ {k} : task'[j] = task[j],
           task'[k].pc \notin {"receive", "receive_next"},
           UNCHANGED <<use, app, lapped, input, reader>>, NoLostWakeup'
    PROVE  IInv'
<1>1. TypeOK /\ ReaderHasRoom /\ lapped \in BOOLEAN
      BY Parts DEF IInv
<1>2. task'[Shell].pc = task[Shell].pc \/ task'[Shell].pc \notin {"receive", "receive_next"}
      BY TerminalsAssumption
<1>3. TypeOK' /\ ReaderHasRoom'
      BY <1>1, <1>2, WritingSide
<1> QED  BY <1>3 DEF IInv

LEMMA SendingMoves ==
    ASSUME TypeOK, NEW k \in Tasks, NEW c, xQueueSend(k, c)
    PROVE  /\ UNCHANGED <<use, app, lapped, input, reader>> /\ UNCHANGED usart
           /\ UsartOK'
<1>1. UNCHANGED <<use, app, lapped, input, reader>> /\ UNCHANGED usart
      BY DEF xQueueSend
<1>2. UsartOK'
      BY <1>1, Parts DEF UsartOK, usart
<1> QED  BY <1>1, <1>2

\* A task moves on with the same text.
LEMMA GotoOK ==
    ASSUME TaskOK, WritersHaveText, NEW k \in Tasks, Writing(k), NEW pc \in WriteLabels,
           Goto(k, pc)
    PROVE  /\ TaskOK' /\ WritersHaveText' /\ task'[k].pc = pc
           /\ \A j \in Tasks \ {k} : task'[j] = task[j]
<1>1. /\ task' = [task EXCEPT ![k] = [pc |-> pc, src |-> task[k].src]]
      /\ task[k].src \in Seq(Letters \cup {LF})
      BY GotoUpdate
<1>2. task[k].src # <<>> /\ pc \in Labels
      BY DEF WritersHaveText, Labels
<1>3. /\ TaskOK' /\ WritersHaveText' /\ task'[k] = [pc |-> pc, src |-> task[k].src]
      /\ \A j \in Tasks \ {k} : task'[j] = task[j]
      BY <1>1, <1>2, TaskUpdate
<1> QED  BY <1>3

LEMMA SendCrStep ==
    ASSUME IInv, NEW k \in Tasks, NEW then \in {"cr_set", "char"}, SendCr(k, then),
           use.dev = "xbee" => then = "cr_set"
    PROVE  IInv'
<1>1. /\ TypeOK /\ TaskOK /\ TxOK /\ WritersHaveText
      BY Parts DEF IInv
<1>2. Writing(k) /\ xQueueSend(k, CR) /\ Goto(k, then) /\ CR \in Char /\ then \in WriteLabels
      BY DEF SendCr, Writing, WriteLabels, Char
<1>3. /\ TaskOK' /\ WritersHaveText' /\ task'[k].pc = then
      /\ \A j \in Tasks \ {k} : task'[j] = task[j]
      BY <1>1, <1>2, GotoOK
<1>4. TxOK' /\ UsartOK' /\ UNCHANGED <<use, app, lapped, input, reader>>
      BY <1>1, <1>2, QueueSendOK, SendingMoves
<1>5. NoLostWakeup'
      BY <1>3, <1>4 DEF NoLostWakeup
<1>6. task'[k].pc \notin {"receive", "receive_next"}
      BY <1>3
<1> QED  BY <1>3, <1>4, <1>5, <1>6, WriterMoves

LEMMA SendCharStep ==
    ASSUME IInv, NEW k \in Tasks, SendChar(k),
           \/ use.dev = "xbee" /\ Goto(k, "char_set")
           \/ use.dev = "usb" /\ Advance(k)
    PROVE  IInv'
<1>1. /\ TypeOK /\ TaskOK /\ TxOK /\ WritersHaveText
      BY Parts DEF IInv
<1>2. Writing(k) /\ xQueueSend(k, Head(task[k].src))
      BY DEF SendChar, Writing, WriteLabels
<1>3. TxOK' /\ UsartOK' /\ UNCHANGED <<use, app, lapped, input, reader>>
      BY <1>1, <1>2, HeadIsChar, QueueSendOK, SendingMoves
<1>4. CASE use.dev = "xbee" /\ Goto(k, "char_set")
  <2>1. /\ TaskOK' /\ WritersHaveText' /\ task'[k].pc = "char_set"
        /\ \A j \in Tasks \ {k} : task'[j] = task[j]
        BY <1>1, <1>2, <1>4, GotoOK DEF WriteLabels
  <2>2. NoLostWakeup' /\ task'[k].pc \notin {"receive", "receive_next"}
        BY <2>1 DEF NoLostWakeup
  <2> QED  BY <1>3, <2>1, <2>2, WriterMoves
<1>5. CASE use.dev = "usb" /\ Advance(k)
  <2>1. /\ TaskOK' /\ WritersHaveText' /\ task'[k].pc \in {"idle", "next"}
        /\ \A j \in Tasks \ {k} : task'[j] = task[j]
        BY <1>1, <1>2, <1>5, AdvanceUpdate
  <2>2. NoLostWakeup' /\ task'[k].pc \notin {"receive", "receive_next"}
        BY <1>3, <1>5, <2>1 DEF NoLostWakeup
  <2> QED  BY <1>3, <2>1, <2>2, WriterMoves
<1> QED  BY <1>4, <1>5

LEMMA EnableTxStep ==
    ASSUME IInv, NEW k \in Tasks, EnableTx(k)
    PROVE  IInv'
<1>1. /\ TypeOK /\ TaskOK /\ TxOK /\ UsartOK /\ WritersHaveText
      BY Parts DEF IInv
<1>2. /\ Writing(k) /\ txeie' = TRUE /\ UNCHANGED <<tx_queue, tdr>>
      /\ UNCHANGED <<use, app, lapped, input, reader>>
      /\ (task[k].pc = "cr_set" /\ Goto(k, "char")) \/ Advance(k)
      BY DEF EnableTx, Writing, WriteLabels
<1>3. /\ TaskOK' /\ WritersHaveText' /\ task'[k].pc \in {"idle", "next", "char"}
      /\ \A j \in Tasks \ {k} : task'[j] = task[j]
  <2>1. CASE Goto(k, "char")
        BY <1>1, <1>2, <2>1, GotoOK DEF WriteLabels
  <2>2. CASE Advance(k)
        BY <1>1, <1>2, <2>2, AdvanceUpdate
  <2> QED  BY <1>2, <2>1, <2>2
<1>4. TxOK' /\ UsartOK' /\ NoLostWakeup'
      BY <1>1, <1>2 DEF TxOK, UsartOK, NoLostWakeup
<1>5. task'[k].pc \notin {"receive", "receive_next"}
      BY <1>3
<1> QED  BY <1>2, <1>3, <1>4, <1>5, WriterMoves

LEMMA SendStep ==
    ASSUME IInv, NEW k \in Tasks, TaskStep(k)
    PROVE  IInv'
BY SendCrStep, SendCharStep, EnableTxStep DEF TaskStep, xbee_write_r, usb_write_r

\* The shell moves between calls of read_r and inside one.
LEMMA ShellMoves ==
    ASSUME IInv, ~Writing(Shell), NEW pc \in Labels \ WriteLabels, Goto(Shell, pc),
           UNCHANGED <<use, output>>
    PROVE  /\ TaskOK' /\ WritersHaveText' /\ NoLostWakeup' /\ task'[Shell].pc = pc
           /\ TxOK' /\ UsartOK' /\ Inside(app') /\ lapped' \in BOOLEAN /\ use' \in Scenarios
<1>1. /\ TaskOK /\ TxOK /\ UsartOK /\ Inside(app) /\ lapped \in BOOLEAN /\ use \in Scenarios
      /\ WritersHaveText /\ NoLostWakeup /\ Shell \in Tasks
      BY Parts, TerminalsAssumption DEF IInv
<1>2. /\ task' = [task EXCEPT ![Shell] = [pc |-> pc, src |-> task[Shell].src]]
      /\ task[Shell].src \in Seq(Letters \cup {LF})
      BY <1>1, GotoUpdate
<1>3. pc \in Labels /\ (pc \in WriteLabels => task[Shell].src # <<>>)
      OBVIOUS
<1>4. /\ TaskOK' /\ WritersHaveText' /\ task'[Shell] = [pc |-> pc, src |-> task[Shell].src]
      /\ \A j \in Tasks \ {Shell} : task'[j] = task[j]
      BY <1>1, <1>2, <1>3, TaskUpdate
<1>5. UNCHANGED <<tx_queue, txeie, tdr, app, lapped>>
      BY DEF output, usart
<1>6. TxOK' /\ UsartOK' /\ Inside(app') /\ lapped' \in BOOLEAN /\ use' \in Scenarios
      BY <1>1, <1>5 DEF TxOK, UsartOK
<1>7. ~Enabling(Shell)
      BY DEF Enabling, Writing, WriteLabels
<1>8. NoLostWakeup'
      BY <1>1, <1>4, <1>5, <1>7, WakeupKept
<1> QED  BY <1>4, <1>6, <1>8

LEMMA ReadStart ==
    ASSUME IInv, read_r
    PROVE  IInv'
<1>1. /\ ~Writing(Shell) /\ "receive" \in Labels \ WriteLabels
      /\ Goto(Shell, "receive") /\ UNCHANGED <<use, output>>
      /\ rd' = [len |-> ReadLen, forever |-> TRUE] /\ UNCHANGED <<input, last_c>>
      BY DEF read_r, Writing, Labels, WriteLabels
<1>2. /\ TaskOK' /\ WritersHaveText' /\ NoLostWakeup'
      /\ TxOK' /\ UsartOK' /\ Inside(app') /\ lapped' \in BOOLEAN /\ use' \in Scenarios
      BY <1>1, ShellMoves
<1>3. RxOK' /\ InputOK'
      BY <1>1, Parts DEF IInv, RxOK, InputOK, input
<1>4. ReaderOK' /\ ReaderHasRoom'
  <2>1. ReaderOK /\ ReadLen \in 0 .. ReadLen /\ ReadLen > 0
        BY Parts, TerminalsAssumption DEF IInv
  <2> QED  BY <1>1, <2>1 DEF ReaderOK, ReaderHasRoom
<1> QED  BY <1>2, <1>3, <1>4, PartsNext DEF IInv

LEMMA StoreOK ==
    ASSUME IInv, NEW c \in Char, Store(c), UNCHANGED <<use, output, rdr, typing, lost>>,
           task[Shell].pc \in {"receive", "receive_next"}, RxOK'
    PROVE  IInv'
<1> DEFINE pc == IF rd.len = 1 THEN "idle" ELSE "receive"
<1>1. rd \in [len : 0 .. ReadLen, forever : BOOLEAN] /\ rd.len > 0 /\ ReadLen \in Nat
      BY Parts, TerminalsAssumption DEF IInv, ReaderOK, ReaderHasRoom
<1>2. ~Writing(Shell) /\ pc \in Labels \ WriteLabels /\ Goto(Shell, pc)
      BY DEF Store, Writing, Labels, WriteLabels
<1>3. /\ TaskOK' /\ WritersHaveText' /\ NoLostWakeup' /\ task'[Shell].pc = pc
      /\ TxOK' /\ UsartOK' /\ Inside(app') /\ lapped' \in BOOLEAN /\ use' \in Scenarios
  <2> HIDE DEF pc
  <2> QED  BY <1>2, ShellMoves
<1>4. rd' = [len |-> rd.len - 1, forever |-> FALSE] /\ last_c' = c
      BY DEF Store
<1>5. rd.len - 1 \in 0 .. ReadLen
      BY <1>1
<1>6. ReaderOK'
      BY <1>4, <1>5 DEF ReaderOK
<1>7. ReaderHasRoom'
  <2>1. rd'.len = rd.len - 1  BY <1>4
  <2>2. CASE rd.len = 1  BY <1>3, <2>2 DEF ReaderHasRoom
  <2>3. CASE rd.len # 1  BY <1>1, <2>1, <2>3 DEF ReaderHasRoom
  <2> QED  BY <2>2, <2>3
<1>8. InputOK'
  <2>1. InputOK  BY Parts DEF IInv
  <2>2. keys' \in Seq(Letters \cup {LF})
        BY <2>1, TailPart DEF Store, InputOK
  <2> QED  BY <2>1, <2>2 DEF InputOK
<1> QED  BY <1>3, <1>6, <1>7, <1>8, PartsNext DEF IInv

LEMMA ReceiveStep ==
    ASSUME IInv, Receive
    PROVE  IInv'
<1>1. /\ RxOK /\ ReaderOK /\ InputOK  BY Parts DEF IInv
<1>2. /\ rx_queue # <<>> /\ rx_queue' = Tail(rx_queue)
      /\ UNCHANGED <<use, output, rdr, typing, lost>>
      /\ task[Shell].pc \in {"receive", "receive_next"}
      BY DEF Receive
<1>3. Head(rx_queue) \in Char /\ RxOK'
  <2>1. /\ rx_queue \in Seq(Char) /\ rx_queue # <<>>
        /\ Len(rx_queue) <= RxSize /\ RxSize \in Nat
        BY <1>1, <1>2, TerminalsAssumption DEF RxOK
  <2>2. /\ Head(rx_queue) \in Char /\ Tail(rx_queue) \in Seq(Char)
        /\ Len(Tail(rx_queue)) = Len(rx_queue) - 1 /\ Len(rx_queue) \in Nat
        BY <2>1, HeadTailProperties, LenProperties
  <2> QED  BY <1>2, <2>1, <2>2 DEF RxOK
<1>4. CASE Store(Head(rx_queue))
      BY <1>2, <1>3, <1>4, StoreOK
<1>5. CASE Goto(Shell, "receive_next") /\ UNCHANGED <<keys, reader>>
  <2>1. ~Writing(Shell) /\ "receive_next" \in Labels \ WriteLabels
        BY <1>2 DEF Writing, Labels, WriteLabels
  <2>2. /\ TaskOK' /\ WritersHaveText' /\ NoLostWakeup'
        /\ TxOK' /\ UsartOK' /\ Inside(app') /\ lapped' \in BOOLEAN /\ use' \in Scenarios
        BY <1>2, <1>5, <2>1, ShellMoves
  <2>3. ReaderOK' /\ InputOK' /\ ReaderHasRoom'
        BY <1>1, <1>2, <1>5 DEF IInv, ReaderOK, InputOK, ReaderHasRoom, reader
  <2> QED  BY <1>3, <2>2, <2>3, PartsNext DEF IInv
<1> QED  BY <1>4, <1>5 DEF Receive

LEMMA ReceiveNothingStep ==
    ASSUME IInv, ReceiveNothing
    PROVE  IInv'
<1>1. /\ ~Writing(Shell) /\ "idle" \in Labels \ WriteLabels
      /\ Goto(Shell, "idle") /\ UNCHANGED <<use, output>> /\ UNCHANGED <<input, reader>>
      BY DEF ReceiveNothing, Writing, Labels, WriteLabels
<1>2. /\ TaskOK' /\ WritersHaveText' /\ NoLostWakeup' /\ task'[Shell].pc = "idle"
      /\ TxOK' /\ UsartOK' /\ Inside(app') /\ lapped' \in BOOLEAN /\ use' \in Scenarios
      BY <1>1, ShellMoves
<1>3. RxOK' /\ InputOK' /\ ReaderOK'
      BY <1>1, Parts DEF IInv, RxOK, InputOK, ReaderOK, input, reader
<1>4. ReaderHasRoom'
      BY <1>2 DEF ReaderHasRoom
<1> QED  BY <1>2, <1>3, <1>4, PartsNext DEF IInv

-----------------------------------------------------------------------------
(* Steps of the peer and of the interrupt handlers                         *)

LEMMA TasksStandStill ==
    ASSUME IInv, UNCHANGED <<use, reader, task>>, TxOK', RxOK', UsartOK', InputOK',
           Inside(app'), lapped' \in BOOLEAN, NoLostWakeup'
    PROVE  IInv'
<1>1. TaskOK' /\ ReaderOK' /\ use' \in Scenarios
      BY Parts DEF IInv, TaskOK, ReaderOK, reader
<1>2. WritersHaveText' /\ ReaderHasRoom'
      BY DEF IInv, WritersHaveText, Writing, ReaderHasRoom, reader
<1> QED  BY <1>1, <1>2, PartsNext DEF IInv

\* With the writing side as it was, too.
LEMMA OnlyInput ==
    ASSUME IInv, UNCHANGED <<use, output, reader, task>>, RxOK', InputOK'
    PROVE  IInv'
<1>1. UNCHANGED <<tx_queue, txeie, tdr, app, lapped>>
      BY DEF output, usart
<1>2. TxOK' /\ UsartOK' /\ Inside(app') /\ lapped' \in BOOLEAN
      BY <1>1, Parts DEF IInv, TxOK, UsartOK
<1>3. NoLostWakeup'
      BY <1>1 DEF IInv, NoLostWakeup
<1> QED  BY <1>2, <1>3, TasksStandStill

LEMMA TypeStep ==
    ASSUME IInv, Type
    PROVE  IInv'
<1>1. RxOK /\ InputOK /\ use \in Scenarios
      BY Parts DEF IInv
<1>2. PICK key \in Letters \cup {LF} :
          /\ typing' = IF key = LF THEN use.eol ELSE <<key>>
          /\ lost' = (lost /\ rx_queue \o rdr # <<>>)
          /\ keys' = IF lost' THEN <<>> ELSE Append(keys, key)
      BY DEF Type
<1>3. use.eol \in Seq(Char)
  <2>1. use.eol \in LineEnds  BY <1>1, TerminalsAssumption
  <2>2. CR \in Char /\ LF \in Char  BY DEF Char
  <2>3. <<CR>> \in Seq(Char) /\ <<LF>> \in Seq(Char) /\ <<CR, LF>> \in Seq(Char)
        BY <2>2
  <2> QED  BY <2>1, <2>3 DEF LineEnds
<1>4. typing' \in Seq(Char)
  <2>1. key \in Char  BY DEF Char
  <2>2. <<key>> \in Seq(Char)  BY <2>1
  <2> QED  BY <1>2, <1>3, <2>2
<1>5. keys' \in Seq(Letters \cup {LF})
      BY <1>1, <1>2, AppendProperties DEF InputOK
<1>6. UNCHANGED <<use, output, rx_queue, rdr, reader, task>> /\ lost' \in BOOLEAN
      BY <1>1, <1>2 DEF Type, InputOK
<1>7. RxOK' /\ InputOK'
      BY <1>1, <1>4, <1>5, <1>6 DEF RxOK, InputOK
<1> QED  BY <1>6, <1>7, OnlyInput

LEMMA ReceiveFrameStep ==
    ASSUME IInv, ReceiveFrame
    PROVE  IInv'
<1>1. RxOK /\ InputOK
      BY Parts DEF IInv
<1>2. /\ typing # <<>> /\ rdr' = <<Head(typing)>> /\ typing' = Tail(typing)
      /\ UNCHANGED <<use, output, rx_queue, keys, lost, reader, task>>
      BY DEF ReceiveFrame
<1>3. Head(typing) \in Char /\ Tail(typing) \in Seq(Char)
      BY <1>1, <1>2, HeadTailProperties DEF InputOK
<1>4. RxOK' /\ InputOK'
      BY <1>1, <1>2, <1>3 DEF RxOK, InputOK, OneOrNone
<1> QED  BY <1>2, <1>4, OnlyInput

\* What finds room in the receive queue.
LEMMA ReceivesOK ==
    ASSUME RxOK, InputOK, NEW bytes \in Seq(Char), Receives(bytes)
    PROVE  RxOK' /\ keys' \in Seq(Letters \cup {LF}) /\ lost' \in BOOLEAN
<1> DEFINE room == RxSize - Len(rx_queue)
           n    == IF Len(bytes) < room THEN Len(bytes) ELSE room
<1>1. /\ rx_queue \in Seq(Char) /\ Len(rx_queue) \in Nat /\ Len(bytes) \in Nat
      /\ RxSize \in Nat /\ Len(rx_queue) <= RxSize
      BY LenProperties, TerminalsAssumption DEF RxOK
<1>2. n \in 0 .. Len(bytes) /\ Len(rx_queue) + n <= RxSize
      BY <1>1
<1>3. rx_queue' = rx_queue \o SubSeq(bytes, 1, n)
      BY DEF Receives
<1> HIDE DEF n
<1>4. SubSeq(bytes, 1, n) \in Seq(Char) /\ Len(SubSeq(bytes, 1, n)) = n
      BY <1>2, Part
<1>5. /\ rx_queue \o SubSeq(bytes, 1, n) \in Seq(Char)
      /\ Len(rx_queue \o SubSeq(bytes, 1, n)) = Len(rx_queue) + n
      BY <1>1, <1>4, ConcatProperties
<1>6. RxOK'
      BY <1>2, <1>3, <1>5 DEF RxOK
<1>7. keys' \in Seq(Letters \cup {LF}) /\ lost' \in BOOLEAN
      BY DEF Receives, InputOK
<1> QED  BY <1>6, <1>7

LEMMA SendFrameStep ==
    ASSUME IInv, SendFrame
    PROVE  IInv'
<1>1. /\ TxOK /\ RxOK /\ InputOK /\ UsartOK /\ Inside(app) /\ lapped \in BOOLEAN
      BY Parts DEF IInv
<1>2. /\ tdr' = <<>> /\ UNCHANGED <<use, tx_queue, txeie, app, lapped, reader, task>>
      /\ UNCHANGED <<rx_queue, rdr, typing, keys, lost>>
      BY DEF SendFrame, input
<1>3. TxOK' /\ RxOK' /\ InputOK' /\ UsartOK' /\ Inside(app') /\ lapped' \in BOOLEAN
      BY <1>1, <1>2 DEF TxOK, RxOK, InputOK, UsartOK, OneOrNone
<1>4. NoLostWakeup'
      BY <1>2 DEF IInv, NoLostWakeup
<1> QED  BY <1>2, <1>3, <1>4, TasksStandStill

LEMMA UsartIrqStep ==
    ASSUME IInv, USART3_IRQHandler
    PROVE  IInv'
<1>1. /\ TxOK /\ RxOK /\ InputOK /\ UsartOK /\ Inside(app) /\ lapped \in BOOLEAN
      /\ NoLostWakeup
      BY Parts DEF IInv
<1>2. /\ Receives(rdr) /\ rdr' = <<>> /\ TransmitIrq
      /\ UNCHANGED <<use, app, lapped, typing, reader, task>>
      BY DEF USART3_IRQHandler
<1>3. RxOK' /\ InputOK'
  <2>1. rdr \in Seq(Char)
        BY <1>1, Singleton DEF InputOK
  <2>2. RxOK' /\ keys' \in Seq(Letters \cup {LF}) /\ lost' \in BOOLEAN
        BY <1>1, <1>2, <2>1, ReceivesOK
  <2> QED  BY <1>1, <1>2, <2>2 DEF InputOK, OneOrNone
<1>4. TxOK' /\ UsartOK' /\ NoLostWakeup'
  <2>1. CASE tdr # <<>>
    <3>1. UNCHANGED <<tx_queue, txeie, tdr>>
          BY <1>2, <2>1 DEF TransmitIrq, usart
    <3> QED  BY <1>1, <1>2, <3>1 DEF TxOK, UsartOK, NoLostWakeup
  <2>2. CASE tdr = <<>> /\ tx_queue # <<>>
    <3>1. tdr' = <<Head(tx_queue)>> /\ tx_queue' = Tail(tx_queue) /\ UNCHANGED txeie
          BY <1>2, <2>2 DEF TransmitIrq
    <3>2. /\ tx_queue \in Seq(Items) /\ Len(tx_queue) <= TxSize /\ TxSize \in Nat
          BY <1>1, TerminalsAssumption DEF TxOK
    <3>3. /\ Head(tx_queue) \in Items /\ Tail(tx_queue) \in Seq(Items)
          /\ Len(Tail(tx_queue)) = Len(tx_queue) - 1 /\ Len(tx_queue) \in Nat
          BY <2>2, <3>2, HeadTailProperties, LenProperties
    <3>4. TxOK' /\ UsartOK'
          BY <1>1, <3>1, <3>2, <3>3 DEF TxOK, UsartOK, OneOrNone
    <3>5. NoLostWakeup'
          BY <1>1, <1>2, <2>2, <3>1 DEF NoLostWakeup
    <3> QED  BY <3>4, <3>5
  <2>3. CASE tdr = <<>> /\ tx_queue = <<>>
    <3>1. txeie' = FALSE /\ UNCHANGED <<tdr, tx_queue>>
          BY <1>2, <2>3 DEF TransmitIrq
    <3> QED  BY <1>1, <2>3, <3>1 DEF TxOK, UsartOK, NoLostWakeup
  <2> QED  BY <2>1, <2>2, <2>3
<1> QED  BY <1>1, <1>2, <1>3, <1>4, TasksStandStill

LEMMA UsbStep ==
    ASSUME IInv, NEW n \in 0 .. Len(typing), NEW collected \in BOOLEAN, NEW sof \in BOOLEAN,
           OTG_FS_IRQHandler(n, collected, sof)
    PROVE  IInv'
<1> DEFINE in    == IF collected THEN usbd_cdc_DataIn(app) ELSE app
           start == IF sof THEN Handle_USBAsynchXfer(in) ELSE in
           m     == Moved(Len(tx_queue))
           items == SubSeq(tx_queue, 1, m)
<1>1. /\ TxOK /\ RxOK /\ InputOK /\ UsartOK /\ Inside(app) /\ lapped \in BOOLEAN
      BY Parts DEF IInv
<1>2. /\ use.dev = "usb" /\ Receives(SubSeq(typing, 1, n))
      /\ typing' = SubSeq(typing, n + 1, Len(typing))
      /\ app' = VCP_DataTx(start, items)
      /\ tx_queue' = SubSeq(tx_queue, m + 1, Len(tx_queue))
      /\ UNCHANGED <<use, usart, rdr, reader, task>>
      BY DEF OTG_FS_IRQHandler
<1>3. lapped' \in BOOLEAN
  <2>1. lapped' = (lapped \/ Held(start) + m >= AppSize)
        BY DEF OTG_FS_IRQHandler
  <2> HIDE DEF start, m
  <2> QED  BY <2>1
<1>4. Inside(start)
  <2>1. Inside(in)  BY <1>1, DataInInside
  <2> HIDE DEF in
  <2> QED  BY <2>1, TransferInside
<1>5. m \in 0 .. Len(tx_queue) /\ tx_queue \in Seq(Items) /\ Len(tx_queue) <= TxSize
      /\ Len(tx_queue) \in Nat /\ TxSize \in Nat
  <2>1. tx_queue \in Seq(Items) /\ Len(tx_queue) <= TxSize /\ Len(tx_queue) \in Nat
        /\ TxSize \in Nat
        BY <1>1, LenProperties, TerminalsAssumption DEF TxOK
  <2>2. \A l \in Nat : (l + 1) \div 2 \in 0 .. l
        OBVIOUS
  <2> QED  BY <2>1, <2>2 DEF Moved
<1> HIDE DEF in, start, m
<1>6. /\ items \in Seq(Items) /\ SubSeq(tx_queue, m + 1, Len(tx_queue)) \in Seq(Items)
      /\ Len(SubSeq(tx_queue, m + 1, Len(tx_queue))) = Len(tx_queue) - m
      BY <1>5, Part
<1> HIDE DEF items
<1>7. Inside(app')
      BY <1>2, <1>4, <1>6, DataTxInside
<1>8. TxOK' /\ UsartOK'
      BY <1>1, <1>2, <1>5, <1>6 DEF TxOK, UsartOK, usart
<1>9. RxOK' /\ InputOK'
  <2>1. SubSeq(typing, 1, n) \in Seq(Char)
        /\ SubSeq(typing, n + 1, Len(typing)) \in Seq(Char)
        BY <1>1, Part DEF InputOK
  <2>2. RxOK' /\ keys' \in Seq(Letters \cup {LF}) /\ lost' \in BOOLEAN
        BY <1>1, <1>2, <2>1, ReceivesOK
  <2> QED  BY <1>1, <1>2, <2>1, <2>2 DEF InputOK
<1>10. NoLostWakeup'
      BY <1>2 DEF NoLostWakeup
<1> QED  BY <1>2, <1>3, <1>7, <1>8, <1>9, <1>10, TasksStandStill

LEMMA StutterStep ==
    ASSUME IInv, UNCHANGED vars
    PROVE  IInv'
<1>1. UNCHANGED <<use, output, reader, task>> /\ UNCHANGED <<rx_queue, rdr, typing, keys, lost>>
      BY DEF vars, input
<1>2. RxOK' /\ InputOK'
      BY <1>1, Parts DEF IInv, RxOK, InputOK
<1> QED  BY <1>1, <1>2, OnlyInput

LEMMA StepIInv == IInv /\ [Next]_vars => IInv'
<1> SUFFICES ASSUME IInv, [Next]_vars  PROVE IInv'
    OBVIOUS
<1>1. CASE \E k \in Tasks : write_r(k) \/ TaskStep(k)
      BY <1>1, WriteStep, SendStep
<1>2. CASE read_r \/ ReadStep
      BY <1>2, ReadStart, ReceiveStep, ReceiveNothingStep DEF ReadStep
<1>3. CASE Type \/ ReceiveFrame \/ SendFrame \/ USART3_IRQHandler
      BY <1>3, TypeStep, ReceiveFrameStep, SendFrameStep, UsartIrqStep
<1>4. CASE Usb
      BY <1>4, UsbStep DEF Usb
<1>5. CASE UNCHANGED vars
      BY <1>5, StutterStep
<1> QED  BY <1>1, <1>2, <1>3, <1>4, <1>5 DEF Next

LEMMA SpecIInv == Spec => []IInv
BY InitIInv, StepIInv, PTL DEF Spec

\* Neither a queue nor a pointer of the USB driver leaves its bounds, and no
\* packet or transfer reads behind the end of APP_Rx_Buffer, whatever the sizes
\* of queues, buffer and packets, and whether or not the host keeps up.
THEOREM TypeCorrect == Spec => []TypeOK
<1>1. IInv => TypeOK
      BY DEF IInv
<1> QED  BY <1>1, SpecIInv, PTL

\* A byte in the queue of USART3 never waits with the transmit interrupt off
\* and no task about to enable it, however many tasks write.
THEOREM WakeupTheorem == Spec => []NoLostWakeup
<1>1. IInv => NoLostWakeup
      BY DEF IInv
<1> QED  BY <1>1, SpecIInv, PTL

-----------------------------------------------------------------------------
(* FlattenSeq                                                              *)

\* Every set of numbers that is not empty has a least one.
LEMMA Least ==
    ASSUME NEW T \in SUBSET Nat, T # {}
    PROVE  \E n \in T : \A m \in T : n <= m
<1> DEFINE R == OpToRel(<, Nat)
<1>1. IsWellFoundedOn(R, Nat)
      BY NatLessThanWellFounded
<1>2. \A x, y \in Nat : <<x, y>> \in R <=> x < y
      BY DEF OpToRel
<1> HIDE DEF R
<1>3. PICK x \in T : \A y \in T : ~ (<<y, x>> \in R)
      BY <1>1, WFMin
<1>4. \A y \in T : ~ (y < x)
      BY <1>2, <1>3
<1> QED  BY <1>4

\* Induction for a set: the provers cannot instantiate the theorem of the library.
LEMMA Induction ==
    ASSUME NEW T, 0 \in T, \A n \in Nat : n \in T => n + 1 \in T
    PROVE  \A n \in Nat : n \in T
<1> SUFFICES ASSUME Nat \ T # {}  PROVE FALSE
    OBVIOUS
<1>1. PICK n \in Nat \ T : \A m \in Nat \ T : n <= m
      BY Least
<1>2. n # 0 /\ n - 1 \in Nat
      BY <1>1
<1>3. n - 1 \in T
      BY <1>1, <1>2
<1> QED  BY <1>1, <1>2, <1>3

\* f is the recursive function of FlattenSeq.
Flattens(f, ss) ==
    f = [i \in 1 .. Len(ss) |-> IF i = 1 THEN ss[i] ELSE f[i - 1] \o ss[i]]

LEMMA FlattenSteps ==
    ASSUME NEW S, NEW ss \in Seq(S), ss # <<>>
    PROVE  \E f : Flattens(f, ss) /\ FlattenSeq(ss) = f[Len(ss)]
<1> DEFINE Cat(a, b) == a \o b
           G(f, n) == f = [i \in 1 .. n |-> IF i = 1 THEN ss[i] ELSE Cat(f[i - 1], ss[i])]
           T == {n \in Nat : \E f : G(f, n)}
<1>4. Len(ss) \in Nat /\ Len(ss) # 0  BY EmptySeq, LenProperties
<1>6. FlattenSeq(ss) = (CHOOSE f : G(f, Len(ss)))[Len(ss)]
      BY <1>4 DEF FlattenSeq
<1>7. \A f : Flattens(f, ss) <=> G(f, Len(ss))
      BY DEF Flattens
<1> HIDE DEF Cat
<1>1. 0 \in T
  <2>1. G([i \in 1 .. 0 |-> 0], 0)  OBVIOUS
  <2> QED  BY <2>1
<1>2. ASSUME NEW n \in Nat, n \in T  PROVE n + 1 \in T
  <2>1. PICK f : G(f, n)  BY <1>2
  <2> DEFINE g == [i \in 1 .. n + 1 |-> IF i <= n THEN f[i]
                                         ELSE IF i = 1 THEN ss[i] ELSE Cat(f[n], ss[i])]
  <2>2. G(g, n + 1)
        BY <2>1
  <2>3. n + 1 \in Nat
        OBVIOUS
  <2> HIDE DEF g, G
  <2> QED  BY <2>2, <2>3
<1> HIDE DEF T
<1>3. \A n \in Nat : n \in T  BY <1>1, <1>2, Induction
<1>5. \E f : G(f, Len(ss))  BY <1>3, <1>4 DEF T
<1> QED  BY <1>5, <1>6, <1>7

\* The function step by step.
LEMMA FlattenStep ==
    ASSUME NEW S, NEW ss \in Seq(S), NEW f, Flattens(f, ss), NEW i \in 1 .. Len(ss)
    PROVE  f[i] = IF i = 1 THEN ss[i] ELSE f[i - 1] \o ss[i]
<1> DEFINE Cat(a, b) == a \o b
<1>1. f = [j \in 1 .. Len(ss) |-> IF j = 1 THEN ss[j] ELSE Cat(f[j - 1], ss[j])]
      BY DEF Flattens
<1>2. f[i] = IF i = 1 THEN ss[i] ELSE Cat(f[i - 1], ss[i])
  <2> HIDE DEF Cat
  <2> QED  BY <1>1
<1> QED  BY <1>2

LEMMA FlattenEmpty == FlattenSeq(<<>>) = <<>>
BY DEF FlattenSeq

LEMMA FlattenOne ==
    ASSUME NEW S, NEW s \in S
    PROVE  FlattenSeq(<<s>>) = s
<1>1. <<s>> \in Seq(S) /\ <<s>> # <<>> /\ Len(<<s>>) = 1 /\ <<s>>[1] = s
      OBVIOUS
<1>2. PICK f : Flattens(f, <<s>>) /\ FlattenSeq(<<s>>) = f[1]
      BY <1>1, FlattenSteps
<1> QED  BY <1>1, <1>2 DEF Flattens

LEMMA FlattenAppend ==
    ASSUME NEW S, NEW ss \in Seq(Seq(S)), NEW s \in Seq(S)
    PROVE  FlattenSeq(Append(ss, s)) = FlattenSeq(ss) \o s
<1> DEFINE tt == Append(ss, s)
           n  == Len(ss)
<1>1. /\ tt \in Seq(Seq(S)) /\ tt # <<>> /\ Len(tt) = n + 1 /\ n \in Nat
      /\ \A i \in 1 .. n : tt[i] = ss[i]
      /\ tt[n + 1] = s
      BY AppendProperties, LenProperties
<1>2. CASE ss = <<>>
  <2>1. Append(ss, s) = <<s>>  BY <1>2
  <2>2. <<>> \o s = s  BY ConcatEmptySeq
  <2> QED  BY <1>2, <2>1, <2>2, FlattenEmpty, FlattenOne
<1>3. CASE ss # <<>>
  <2>1. PICK f : Flattens(f, ss) /\ FlattenSeq(ss) = f[n]
        BY <1>3, FlattenSteps
  <2>2. PICK g : Flattens(g, tt) /\ FlattenSeq(tt) = g[n + 1]
        BY <1>1, FlattenSteps
  <2>3. n # 0  BY <1>3, EmptySeq
  <2> HIDE DEF tt, n
  <2> DEFINE T == {i \in Nat : i \in 1 .. n => f[i] = g[i]}
  <2>4. 0 \in T  OBVIOUS
  <2>5. ASSUME NEW i \in Nat, i \in T  PROVE i + 1 \in T
    <3> SUFFICES ASSUME i + 1 \in 1 .. n  PROVE f[i + 1] = g[i + 1]
        OBVIOUS
    <3>1. f[i + 1] = IF i + 1 = 1 THEN ss[i + 1] ELSE f[i + 1 - 1] \o ss[i + 1]
          BY <1>1, <2>1, FlattenStep DEF n
    <3>2. g[i + 1] = IF i + 1 = 1 THEN tt[i + 1] ELSE g[i + 1 - 1] \o tt[i + 1]
          BY <1>1, <2>2, FlattenStep
    <3>3. tt[i + 1] = ss[i + 1] /\ i + 1 - 1 = i  BY <1>1
    <3>4. i + 1 # 1 => f[i] = g[i]  BY <1>1, <2>5
    <3> QED  BY <3>1, <3>2, <3>3, <3>4
  <2> HIDE DEF T
  <2>6. \A i \in Nat : i \in T  BY <2>4, <2>5, Induction
  <2>7. f[n] = g[n]  BY <1>1, <2>3, <2>6 DEF T
  <2>8. g[n + 1] = g[n] \o tt[n + 1]
    <3>1. n + 1 \in 1 .. Len(tt)  BY <1>1
    <3> SUFFICES ASSUME NEW m \in 1 .. Len(tt), m = n + 1
                 PROVE  g[m] = g[n] \o tt[m]
        BY <3>1
    <3>2. g[m] = IF m = 1 THEN tt[m] ELSE g[m - 1] \o tt[m]
          BY <1>1, <2>2, FlattenStep
    <3>3. m # 1 /\ m - 1 = n
          BY <1>1, <2>3
    <3> QED  BY <3>2, <3>3
  <2> QED  BY <1>1, <2>1, <2>2, <2>7, <2>8 DEF tt
<1> QED  BY <1>2, <1>3

LEMMA FlattenType ==
    ASSUME NEW S, NEW ss \in Seq(Seq(S))
    PROVE  FlattenSeq(ss) \in Seq(S)
<1> DEFINE T == {n \in Nat : \A tt \in Seq(Seq(S)) : Len(tt) = n => FlattenSeq(tt) \in Seq(S)}
<1>1. 0 \in T
  <2>1. \A tt \in Seq(Seq(S)) : Len(tt) = 0 => tt = <<>>  BY EmptySeq
  <2>2. <<>> \in Seq(S)  OBVIOUS
  <2> QED  BY <2>1, <2>2, FlattenEmpty
<1>2. ASSUME NEW n \in Nat, n \in T  PROVE n + 1 \in T
  <2> SUFFICES ASSUME NEW tt \in Seq(Seq(S)), Len(tt) = n + 1
               PROVE  FlattenSeq(tt) \in Seq(S)
      OBVIOUS
  <2>1. tt # <<>>  BY EmptySeq
  <2>2. PICK rr \in Seq(Seq(S)), r \in Seq(S) : tt = Append(rr, r)
        BY <2>1, SequenceEmptyOrAppend
  <2>3. Len(rr) = n  BY <2>2, AppendProperties, LenProperties
  <2>4. FlattenSeq(rr) \in Seq(S)  BY <1>2, <2>3
  <2>5. FlattenSeq(tt) = FlattenSeq(rr) \o r  BY <2>2, FlattenAppend
  <2> QED  BY <2>4, <2>5, ConcatProperties
<1> HIDE DEF T
<1>3. \A n \in Nat : n \in T  BY <1>1, <1>2, Induction
<1> QED  BY <1>3, LenProperties DEF T

LEMMA FlattenConcat ==
    ASSUME NEW S, NEW ss \in Seq(Seq(S)), NEW tt \in Seq(Seq(S))
    PROVE  FlattenSeq(ss \o tt) = FlattenSeq(ss) \o FlattenSeq(tt)
<1> DEFINE T == {n \in Nat : \A uu \in Seq(Seq(S)) : Len(uu) = n =>
                     FlattenSeq(ss \o uu) = FlattenSeq(ss) \o FlattenSeq(uu)}
<1>1. 0 \in T
  <2>1. \A uu \in Seq(Seq(S)) : Len(uu) = 0 => uu = <<>>  BY EmptySeq
  <2>2. ss \o <<>> = ss /\ FlattenSeq(ss) \o <<>> = FlattenSeq(ss)
        BY ConcatEmptySeq, FlattenType
  <2> QED  BY <2>1, <2>2, FlattenEmpty
<1>2. ASSUME NEW n \in Nat, n \in T  PROVE n + 1 \in T
  <2> SUFFICES ASSUME NEW uu \in Seq(Seq(S)), Len(uu) = n + 1
               PROVE  FlattenSeq(ss \o uu) = FlattenSeq(ss) \o FlattenSeq(uu)
      OBVIOUS
  <2>1. uu # <<>>  BY EmptySeq
  <2>2. PICK rr \in Seq(Seq(S)), r \in Seq(S) : uu = Append(rr, r)
        BY <2>1, SequenceEmptyOrAppend
  <2>3. Len(rr) = n  BY <2>2, AppendProperties, LenProperties
  <2>4. FlattenSeq(ss \o rr) = FlattenSeq(ss) \o FlattenSeq(rr)  BY <1>2, <2>3
  <2> HIDE DEF T
  <2>5. ss \o uu = Append(ss \o rr, r) /\ ss \o rr \in Seq(Seq(S))
    <3>1. <<r>> \in Seq(Seq(S))  OBVIOUS
    <3>2. ss \o rr \in Seq(Seq(S))  BY ConcatProperties
    <3>3. uu = rr \o <<r>> /\ Append(ss \o rr, r) = (ss \o rr) \o <<r>>
          BY <2>2, <3>2, AppendIsConcat
    <3>4. (ss \o rr) \o <<r>> = ss \o (rr \o <<r>>)  BY <2>2, <3>1, ConcatAssociative
    <3> QED  BY <3>2, <3>3, <3>4
  <2>6. FlattenSeq(ss \o uu) = FlattenSeq(ss \o rr) \o r  BY <2>5, FlattenAppend
  <2>7. FlattenSeq(uu) = FlattenSeq(rr) \o r  BY <2>2, FlattenAppend
  <2>8. (FlattenSeq(ss) \o FlattenSeq(rr)) \o r = FlattenSeq(ss) \o (FlattenSeq(rr) \o r)
    <3>1. FlattenSeq(ss) \in Seq(S) /\ FlattenSeq(rr) \in Seq(S)
          BY FlattenType
    <3> QED  BY <2>2, <3>1, ConcatAssociative
  <2> QED  BY <2>4, <2>6, <2>7, <2>8
<1> HIDE DEF T
<1>3. \A n \in Nat : n \in T  BY <1>1, <1>2, Induction
<1> QED  BY <1>3, LenProperties DEF T

\* The first piece and the others.
LEMMA FlattenHead ==
    ASSUME NEW S, NEW ss \in Seq(Seq(S)), ss # <<>>
    PROVE  FlattenSeq(ss) = Head(ss) \o FlattenSeq(Tail(ss))
<1>1. Head(ss) \in Seq(S) /\ Tail(ss) \in Seq(Seq(S)) /\ ss = <<Head(ss)>> \o Tail(ss)
      BY HeadTailProperties
<1>2. <<Head(ss)>> \in Seq(Seq(S))
      BY <1>1
<1>3. FlattenSeq(<<Head(ss)>> \o Tail(ss)) = FlattenSeq(<<Head(ss)>>) \o FlattenSeq(Tail(ss))
      BY <1>1, <1>2, FlattenConcat
<1>4. FlattenSeq(<<Head(ss)>>) = Head(ss)
      BY <1>1, FlattenOne
<1> QED  BY <1>1, <1>3, <1>4

-----------------------------------------------------------------------------
(* The characters of a task, and a text with its carriage returns          *)

CharOf(k, x) == IF x.by = k THEN <<x.c>> ELSE <<>>

CharPieces(k, s) == [i \in DOMAIN s |-> IF s[i].by = k THEN <<s[i].c>> ELSE <<>>]

LEMMA CharsOfPieces ==
    ASSUME NEW k, NEW s \in Seq(Items)
    PROVE  /\ CharPieces(k, s) \in Seq(Seq(Char)) /\ Len(CharPieces(k, s)) = Len(s)
           /\ \A i \in 1 .. Len(s) : CharPieces(k, s)[i] = CharOf(k, s[i])
           /\ CharsOf(k, s) = FlattenSeq(CharPieces(k, s))
<1> DEFINE f == CharPieces(k, s)
<1>1. Len(s) \in Nat /\ DOMAIN s = 1 .. Len(s) /\ \A i \in 1 .. Len(s) : s[i] \in Items
      BY LenProperties, ElementOfSeq
<1>2. \A i \in 1 .. Len(s) : f[i] = CharOf(k, s[i])
      BY <1>1 DEF CharOf, CharPieces
<1>3. \A x \in Items : CharOf(k, x) \in Seq(Char)
  <2>1. \A c \in Char : <<c>> \in Seq(Char)
        OBVIOUS
  <2>2. <<>> \in Seq(Char)
        OBVIOUS
  <2> QED  BY <2>1, <2>2 DEF CharOf, Items
<1>4. f = [i \in 1 .. Len(s) |-> f[i]]
      BY <1>1 DEF CharPieces
<1>5. CharsOf(k, s) = FlattenSeq(f)
      BY DEF CharsOf, CharPieces
<1> HIDE DEF f
<1>6. \A i \in 1 .. Len(s) : f[i] \in Seq(Char)
      BY <1>1, <1>2, <1>3
<1>7. f \in Seq(Seq(Char)) /\ Len(f) = Len(s)
      BY <1>1, <1>4, <1>6, Pieces
<1> QED  BY <1>2, <1>5, <1>7 DEF f

LEMMA CharsOfType ==
    ASSUME NEW k, NEW s \in Seq(Items)
    PROVE  CharsOf(k, s) \in Seq(Char)
BY CharsOfPieces, FlattenType

LEMMA CharsOfConcat ==
    ASSUME NEW k, NEW s \in Seq(Items), NEW t \in Seq(Items)
    PROVE  CharsOf(k, s \o t) = CharsOf(k, s) \o CharsOf(k, t)
<1> DEFINE f == CharPieces(k, s)
           g == CharPieces(k, t)
           u == s \o t
           h == CharPieces(k, u)
<1>1. Len(s) \in Nat /\ Len(t) \in Nat
      BY LenProperties
<1>2. /\ u \in Seq(Items) /\ Len(u) = Len(s) + Len(t)
      /\ \A i \in 1 .. Len(s) + Len(t) : u[i] = IF i <= Len(s) THEN s[i] ELSE t[i - Len(s)]
      BY ConcatProperties
<1>3. /\ f \in Seq(Seq(Char)) /\ Len(f) = Len(s)
      /\ \A i \in 1 .. Len(s) : f[i] = CharOf(k, s[i])
      /\ CharsOf(k, s) = FlattenSeq(f)
      BY CharsOfPieces
<1>4. /\ g \in Seq(Seq(Char)) /\ Len(g) = Len(t)
      /\ \A i \in 1 .. Len(t) : g[i] = CharOf(k, t[i])
      /\ CharsOf(k, t) = FlattenSeq(g)
      BY CharsOfPieces
<1> HIDE DEF u
<1>5. /\ h \in Seq(Seq(Char)) /\ Len(h) = Len(u)
      /\ \A i \in 1 .. Len(u) : h[i] = CharOf(k, u[i])
      /\ CharsOf(k, u) = FlattenSeq(h)
      BY <1>2, CharsOfPieces
<1> HIDE DEF f, g, h
<1>6. \A i \in 1 .. Len(f) : h[i] = f[i]
      BY <1>1, <1>2, <1>3, <1>5
<1>7. ASSUME NEW i \in 1 .. Len(g)  PROVE h[Len(f) + i] = g[i]
  <2>1. /\ Len(f) + i \in 1 .. Len(u) /\ ~(Len(f) + i <= Len(s))
        /\ (Len(f) + i) - Len(s) = i
        BY <1>1, <1>2, <1>3, <1>4
  <2>2. u[Len(f) + i] = t[i]
        BY <1>2, <2>1
  <2> QED  BY <1>4, <1>5, <2>1, <2>2
<1>8. h = f \o g
  <2>1. /\ f \in Seq(Seq(Char)) /\ g \in Seq(Seq(Char)) /\ h \in Seq(Seq(Char))
        /\ Len(h) = Len(f) + Len(g)
        BY <1>2, <1>3, <1>4, <1>5
  <2> QED  BY <1>6, <1>7, <2>1, Joined
<1>9. FlattenSeq(f \o g) = FlattenSeq(f) \o FlattenSeq(g)
      BY <1>3, <1>4, FlattenConcat
<1> QED  BY <1>3, <1>4, <1>5, <1>8, <1>9 DEF u

LEMMA CharsOfNone ==
    ASSUME NEW k
    PROVE  CharsOf(k, <<>>) = <<>>
<1>1. [i \in DOMAIN <<>> |-> IF <<>>[i].by = k THEN <<<<>>[i].c>> ELSE <<>>] = <<>>
      OBVIOUS
<1> QED  BY <1>1, FlattenEmpty DEF CharsOf

LEMMA CharsOfOne ==
    ASSUME NEW k, NEW x \in Items
    PROVE  CharsOf(k, <<x>>) = CharOf(k, x)
<1> DEFINE s == <<x>>
           f == CharPieces(k, s)
<1>1. s \in Seq(Items) /\ Len(s) = 1 /\ s[1] = x
      OBVIOUS
<1> HIDE DEF s
<1>2. /\ f \in Seq(Seq(Char)) /\ Len(f) = 1 /\ f[1] = CharOf(k, x)
      /\ CharsOf(k, s) = FlattenSeq(f)
      BY <1>1, CharsOfPieces
<1> HIDE DEF f
<1>3. CharOf(k, x) \in Seq(Char)
      BY <1>2, ElementOfSeq
<1>4. f = <<CharOf(k, x)>>
      BY <1>2, <1>3, SeqEqual
<1>5. FlattenSeq(<<CharOf(k, x)>>) = CharOf(k, x)
      BY <1>3, FlattenOne
<1> QED  BY <1>2, <1>4, <1>5 DEF s

\* The carriage return of a newline.
LEMMA CrLfPieces ==
    ASSUME NEW s \in Seq(Letters \cup {LF})
    PROVE  /\ CrLf(s) \in Seq(Char)
           /\ s = <<>> => CrLf(s) = <<>>
           /\ s # <<>> => CrLf(s) = Prefixed(Head(s)) \o CrLf(Tail(s))
<1> DEFINE f(u) == [i \in DOMAIN u |-> Prefixed(u[i])]
<1>1. ASSUME NEW c \in Letters \cup {LF}  PROVE Prefixed(c) \in Seq(Char)
  <2>1. c \in Char /\ CR \in Char /\ LF \in Char
        BY DEF Char
  <2>2. <<c>> \in Seq(Char) /\ <<CR, LF>> \in Seq(Char)
        BY <2>1
  <2> QED  BY <2>2 DEF Prefixed
<1>2. ASSUME NEW u \in Seq(Letters \cup {LF})
      PROVE  /\ f(u) \in Seq(Seq(Char)) /\ Len(f(u)) = Len(u)
             /\ \A i \in 1 .. Len(u) : f(u)[i] = Prefixed(u[i])
             /\ CrLf(u) = FlattenSeq(f(u))
  <2>1. Len(u) \in Nat /\ DOMAIN u = 1 .. Len(u) /\ \A i \in 1 .. Len(u) : u[i] \in Letters \cup {LF}
        BY LenProperties, ElementOfSeq
  <2>2. f(u) = [i \in 1 .. Len(u) |-> f(u)[i]] /\ \A i \in 1 .. Len(u) : f(u)[i] = Prefixed(u[i])
        BY <2>1
  <2>3. CrLf(u) = FlattenSeq(f(u))
        BY DEF CrLf
  <2>4. \A i \in 1 .. Len(u) : f(u)[i] \in Seq(Char)
        BY <1>1, <2>1, <2>2
  <2> HIDE DEF f
  <2>5. f(u) \in Seq(Seq(Char)) /\ Len(f(u)) = Len(u)
        BY <2>1, <2>2, <2>4, Pieces
  <2> QED  BY <2>2, <2>3, <2>5
<1> HIDE DEF f
<1>3. CrLf(s) \in Seq(Char)
      BY <1>2, FlattenType
<1>4. ASSUME s = <<>>  PROVE CrLf(s) = <<>>
  <2>1. f(s) \in Seq(Seq(Char)) /\ Len(f(s)) = 0
        BY <1>2, <1>4
  <2>2. f(s) = <<>>
        BY <2>1, EmptySeq
  <2> QED  BY <1>2, <2>2, FlattenEmpty
<1>5. ASSUME s # <<>>  PROVE CrLf(s) = Prefixed(Head(s)) \o CrLf(Tail(s))
  <2> DEFINE t == Tail(s)
             a == f(s)
             b == f(t)
  <2>1. /\ t \in Seq(Letters \cup {LF}) /\ Len(t) = Len(s) - 1 /\ Head(s) = s[1]
        /\ \A i \in 1 .. Len(t) : t[i] = s[i + 1]
        /\ Len(s) \in Nat /\ Len(s) # 0
        BY <1>5, HeadTailProperties, LenProperties, EmptySeq
  <2> HIDE DEF t
  <2>2. /\ a \in Seq(Seq(Char)) /\ Len(a) = Len(s) /\ CrLf(s) = FlattenSeq(a)
        /\ \A i \in 1 .. Len(s) : a[i] = Prefixed(s[i])
        BY <1>2
  <2>3. /\ b \in Seq(Seq(Char)) /\ Len(b) = Len(t) /\ CrLf(t) = FlattenSeq(b)
        /\ \A i \in 1 .. Len(t) : b[i] = Prefixed(t[i])
        BY <1>2, <2>1
  <2> HIDE DEF a, b
  <2>4. a # <<>>
        BY <2>1, <2>2
  <2>5. /\ Tail(a) \in Seq(Seq(Char)) /\ Len(Tail(a)) = Len(s) - 1 /\ Head(a) = a[1]
        /\ \A i \in 1 .. Len(Tail(a)) : Tail(a)[i] = a[i + 1]
        BY <2>2, <2>4, HeadTailProperties
  <2>6. Len(Tail(a)) = Len(b)
        BY <2>1, <2>3, <2>5
  <2>7. ASSUME NEW i \in 1 .. Len(Tail(a))  PROVE Tail(a)[i] = b[i]
    <3>1. i + 1 \in 1 .. Len(s) /\ i \in 1 .. Len(t)
          BY <2>1, <2>5
    <3> QED  BY <2>1, <2>2, <2>3, <2>5, <3>1
  <2>8. Tail(a) = b
        BY <2>3, <2>5, <2>6, <2>7, SeqEqual
  <2>9. Head(a) = Prefixed(Head(s))
        BY <2>1, <2>2, <2>5
  <2>10. FlattenSeq(a) = Head(a) \o FlattenSeq(Tail(a))
        BY <2>2, <2>4, FlattenHead
  <2> QED  BY <2>2, <2>3, <2>8, <2>9, <2>10 DEF t
<1> QED  BY <1>3, <1>4, <1>5

-----------------------------------------------------------------------------
(* What bytes mean                                                         *)

MeaningPieces(b, s) == [i \in DOMAIN s |-> MeaningOf(IF i = 1 THEN b ELSE s[i - 1], s[i])]

\* The byte before what follows s.
LastOf(b, s) == IF s = <<>> THEN b ELSE s[Len(s)]

LEMMA MeaningParts ==
    ASSUME NEW b, NEW s \in Seq(Char)
    PROVE  /\ MeaningPieces(b, s) \in Seq(Seq(Char)) /\ Len(MeaningPieces(b, s)) = Len(s)
           /\ \A i \in 1 .. Len(s) :
                  MeaningPieces(b, s)[i] = MeaningOf(IF i = 1 THEN b ELSE s[i - 1], s[i])
           /\ Meaning(b, s) = FlattenSeq(MeaningPieces(b, s))
<1> DEFINE f == MeaningPieces(b, s)
<1>1. Len(s) \in Nat /\ DOMAIN s = 1 .. Len(s) /\ \A i \in 1 .. Len(s) : s[i] \in Char
      BY LenProperties, ElementOfSeq
<1>2. \A i \in 1 .. Len(s) : f[i] = MeaningOf(IF i = 1 THEN b ELSE s[i - 1], s[i])
  <2>1. \A i \in DOMAIN s : f[i] = MeaningOf(IF i = 1 THEN b ELSE s[i - 1], s[i])
        BY DEF MeaningPieces
  <2> HIDE DEF f
  <2> QED  BY <1>1, <2>1
<1>3. \A x, c \in Char \cup {b} : c \in Char => MeaningOf(x, c) \in Seq(Char)
  <2>1. CR \in Char /\ LF \in Char
        BY DEF Char
  <2>2. \A c \in Char : <<c>> \in Seq(Char)
        OBVIOUS
  <2>3. <<>> \in Seq(Char)
        OBVIOUS
  <2> QED  BY <2>1, <2>2, <2>3 DEF MeaningOf
<1>4. f = [i \in 1 .. Len(s) |-> f[i]]
      BY <1>1 DEF MeaningPieces
<1>5. Meaning(b, s) = FlattenSeq(f)
      BY DEF Meaning, MeaningPieces
<1> HIDE DEF f
<1>6. ASSUME NEW i \in 1 .. Len(s)  PROVE f[i] \in Seq(Char)
  <2>1. i # 1 => i - 1 \in 1 .. Len(s)
        BY <1>1
  <2>2. (IF i = 1 THEN b ELSE s[i - 1]) \in Char \cup {b}
        BY <1>1, <2>1
  <2> QED  BY <1>1, <1>2, <1>3, <2>2
<1>7. f \in Seq(Seq(Char)) /\ Len(f) = Len(s)
      BY <1>1, <1>4, <1>6, Pieces
<1> QED  BY <1>2, <1>5, <1>7 DEF f

LEMMA MeaningType ==
    ASSUME NEW b, NEW s \in Seq(Char)
    PROVE  Meaning(b, s) \in Seq(Char)
BY MeaningParts, FlattenType

LEMMA MeaningNone ==
    ASSUME NEW b
    PROVE  Meaning(b, <<>>) = <<>>
<1>1. <<>> \in Seq(Char) /\ Len(<<>>) = 0
      OBVIOUS
<1>2. /\ MeaningPieces(b, <<>>) \in Seq(Seq(Char)) /\ Len(MeaningPieces(b, <<>>)) = 0
      /\ Meaning(b, <<>>) = FlattenSeq(MeaningPieces(b, <<>>))
      BY <1>1, MeaningParts
<1>3. MeaningPieces(b, <<>>) = <<>>
      BY <1>2, EmptySeq
<1> QED  BY <1>2, <1>3, FlattenEmpty

LEMMA MeaningConcat ==
    ASSUME NEW b, NEW s \in Seq(Char), NEW t \in Seq(Char)
    PROVE  Meaning(b, s \o t) = Meaning(b, s) \o Meaning(LastOf(b, s), t)
<1> DEFINE l == LastOf(b, s)
           f == MeaningPieces(b, s)
           g == MeaningPieces(l, t)
           u == s \o t
           h == MeaningPieces(b, u)
<1>1. Len(s) \in Nat /\ Len(t) \in Nat /\ (s = <<>> <=> Len(s) = 0)
      BY LenProperties, EmptySeq
<1>2. /\ u \in Seq(Char) /\ Len(u) = Len(s) + Len(t)
      /\ \A i \in 1 .. Len(s) + Len(t) : u[i] = IF i <= Len(s) THEN s[i] ELSE t[i - Len(s)]
      BY ConcatProperties
<1>3. /\ f \in Seq(Seq(Char)) /\ Len(f) = Len(s)
      /\ \A i \in 1 .. Len(s) : f[i] = MeaningOf(IF i = 1 THEN b ELSE s[i - 1], s[i])
      /\ Meaning(b, s) = FlattenSeq(f)
      BY MeaningParts
<1>4. /\ g \in Seq(Seq(Char)) /\ Len(g) = Len(t)
      /\ \A i \in 1 .. Len(t) : g[i] = MeaningOf(IF i = 1 THEN l ELSE t[i - 1], t[i])
      /\ Meaning(l, t) = FlattenSeq(g)
      BY MeaningParts
<1> HIDE DEF u
<1>5. /\ h \in Seq(Seq(Char)) /\ Len(h) = Len(u)
      /\ \A i \in 1 .. Len(u) : h[i] = MeaningOf(IF i = 1 THEN b ELSE u[i - 1], u[i])
      /\ Meaning(b, u) = FlattenSeq(h)
      BY <1>2, MeaningParts
<1> HIDE DEF f, g, h
<1>6. ASSUME NEW i \in 1 .. Len(f)  PROVE h[i] = f[i]
  <2>1. i \in 1 .. Len(u) /\ i \in 1 .. Len(s) /\ i <= Len(s)
        /\ (i # 1 => i - 1 \in 1 .. Len(u) /\ i - 1 <= Len(s))
        BY <1>1, <1>2, <1>3
  <2>2. u[i] = s[i] /\ (i # 1 => u[i - 1] = s[i - 1])
        BY <1>2, <2>1
  <2>3. h[i] = MeaningOf(IF i = 1 THEN b ELSE u[i - 1], u[i])
        BY <1>5, <2>1
  <2>4. f[i] = MeaningOf(IF i = 1 THEN b ELSE s[i - 1], s[i])
        BY <1>3, <2>1
  <2> QED  BY <2>2, <2>3, <2>4
<1>7. ASSUME NEW i \in 1 .. Len(g)  PROVE h[Len(f) + i] = g[i]
  <2>0. Len(f) + i \in 1 .. Len(u)
        BY <1>1, <1>2, <1>3, <1>4
  <2>1. PICK j \in 1 .. Len(u) : j = Len(f) + i
        BY <2>0
  <2>2. /\ i \in 1 .. Len(t) /\ ~(j <= Len(s)) /\ j - Len(s) = i
        /\ j \in 1 .. Len(s) + Len(t)
        BY <1>1, <1>2, <1>3, <1>4, <2>1
  <2>3. u[j] = t[i]
        BY <1>2, <2>2
  <2>4. (IF j = 1 THEN b ELSE u[j - 1]) = IF i = 1 THEN l ELSE t[i - 1]
    <3>1. CASE i # 1
      <4>1. j # 1 /\ j - 1 \in 1 .. Len(s) + Len(t) /\ ~(j - 1 <= Len(s))
            /\ (j - 1) - Len(s) = i - 1
            BY <1>1, <2>2, <3>1
      <4> QED  BY <1>2, <3>1, <4>1
    <3>2. CASE i = 1 /\ s = <<>>
      <4>1. j = 1
            BY <1>1, <2>2, <3>2
      <4> QED  BY <3>2, <4>1 DEF LastOf
    <3>3. CASE i = 1 /\ s # <<>>
      <4>1. j # 1 /\ j - 1 \in 1 .. Len(s) + Len(t) /\ j - 1 <= Len(s) /\ j - 1 = Len(s)
            BY <1>1, <2>2, <3>3
      <4>2. u[j - 1] = s[Len(s)]
            BY <1>2, <4>1
      <4> QED  BY <3>3, <4>1, <4>2 DEF LastOf
    <3> QED  BY <3>1, <3>2, <3>3
  <2>5. h[j] = MeaningOf(IF j = 1 THEN b ELSE u[j - 1], u[j])
        BY <1>5
  <2>6. g[i] = MeaningOf(IF i = 1 THEN l ELSE t[i - 1], t[i])
        BY <1>4, <2>2
  <2> QED  BY <2>1, <2>3, <2>4, <2>5, <2>6
<1>8. h = f \o g
  <2>1. /\ f \in Seq(Seq(Char)) /\ g \in Seq(Seq(Char)) /\ h \in Seq(Seq(Char))
        /\ Len(h) = Len(f) + Len(g)
        BY <1>2, <1>3, <1>4, <1>5
  <2> QED  BY <1>6, <1>7, <2>1, Joined
<1>9. FlattenSeq(f \o g) = FlattenSeq(f) \o FlattenSeq(g)
      BY <1>3, <1>4, FlattenConcat
<1> QED  BY <1>3, <1>4, <1>5, <1>8, <1>9 DEF u

LEMMA MeaningHead ==
    ASSUME NEW b, NEW c \in Char, NEW t \in Seq(Char)
    PROVE  Meaning(b, <<c>> \o t) = MeaningOf(b, c) \o Meaning(c, t)
<1> DEFINE s == <<c>>
           f == MeaningPieces(b, s)
<1>1. s \in Seq(Char) /\ Len(s) = 1 /\ s[1] = c /\ s # <<>>
      OBVIOUS
<1> HIDE DEF s
<1>2. /\ f \in Seq(Seq(Char)) /\ Len(f) = 1 /\ f[1] = MeaningOf(b, c)
      /\ Meaning(b, s) = FlattenSeq(f)
      BY <1>1, MeaningParts
<1> HIDE DEF f
<1>3. MeaningOf(b, c) \in Seq(Char)
  <2>1. 1 \in 1 .. Len(f)
        BY <1>2
  <2>2. f[1] \in Seq(Char)
        BY <1>2, <2>1, ElementOfSeq
  <2> QED  BY <1>2, <2>2
<1>4. f = <<MeaningOf(b, c)>>
      BY <1>2, <1>3, SeqEqual
<1>5. FlattenSeq(<<MeaningOf(b, c)>>) = MeaningOf(b, c)
      BY <1>3, FlattenOne
<1>6. Meaning(b, s \o t) = Meaning(b, s) \o Meaning(LastOf(b, s), t)
      BY <1>1, MeaningConcat
<1>7. LastOf(b, s) = c
      BY <1>1 DEF LastOf
<1> QED  BY <1>2, <1>4, <1>5, <1>6, <1>7 DEF s

-----------------------------------------------------------------------------
(* What was typed                                                          *)

\* The bytes between the peer and the reader.
Pending == rx_queue \o (rdr \o typing)

NoCr(s) == \A i \in 1 .. Len(s) : s[i] # CR

\* Every newline follows a carriage return; b is the byte before.
Paired(b, s) == \A i \in 1 .. Len(s) : s[i] = LF => (IF i = 1 THEN b ELSE s[i - 1]) = CR

\* A peer that sends LF for a new line never sends CR.  Any other sends LF only
\* after CR, so the character that is received for a dropped LF is not another
\* one: this is what makes keys inductive.
InInv ==
    /\ use.dev = "usb" => rdr = <<>>
    /\ use.eol = <<LF>> => last_c # CR /\ NoCr(Pending)
    /\ task[Shell].pc = "receive_next" => last_c = CR
    /\ lost => keys = <<>>
    /\ ~lost /\ use.eol # <<LF>> =>
          /\ Paired(last_c, Pending)
          /\ task[Shell].pc = "receive_next" => ~(Pending # <<>> /\ Pending[1] = LF)
    /\ ~lost => keys = Meaning(last_c, Pending)

LEMMA PendingType ==
    ASSUME IInv
    PROVE  /\ rx_queue \in Seq(Char) /\ rdr \in Seq(Char) /\ typing \in Seq(Char)
           /\ rdr \o typing \in Seq(Char) /\ Pending \in Seq(Char)
           /\ rx_queue \o rdr \o typing = Pending
<1>1. rx_queue \in Seq(Char) /\ rdr \in Seq(Char) /\ typing \in Seq(Char)
      BY Parts, Singleton DEF IInv, RxOK, InputOK
<1>2. rdr \o typing \in Seq(Char) /\ Pending \in Seq(Char)
      BY <1>1, ConcatProperties DEF Pending
<1>3. rx_queue \o rdr \o typing = Pending
      BY <1>1, ConcatAssociative DEF Pending
<1> QED  BY <1>1, <1>2, <1>3

LEMMA NoCrConcat ==
    ASSUME NEW s \in Seq(Char), NEW t \in Seq(Char)
    PROVE  NoCr(s \o t) <=> NoCr(s) /\ NoCr(t)
<1>1. /\ Len(s) \in Nat /\ Len(t) \in Nat /\ Len(s \o t) = Len(s) + Len(t)
      /\ \A i \in 1 .. Len(s) + Len(t) :
             (s \o t)[i] = IF i <= Len(s) THEN s[i] ELSE t[i - Len(s)]
      BY ConcatProperties, LenProperties
<1>2. ASSUME NoCr(s \o t)  PROVE NoCr(s) /\ NoCr(t)
  <2>1. ASSUME NEW i \in 1 .. Len(s)  PROVE s[i] # CR
    <3>1. i \in 1 .. Len(s) + Len(t) /\ i <= Len(s)
          BY <1>1
    <3> QED  BY <1>1, <1>2, <3>1 DEF NoCr
  <2>2. ASSUME NEW i \in 1 .. Len(t)  PROVE t[i] # CR
    <3>1. PICK j \in 1 .. Len(s) + Len(t) : ~(j <= Len(s)) /\ j - Len(s) = i
      <4>1. Len(s) + i \in 1 .. Len(s) + Len(t) /\ ~(Len(s) + i <= Len(s))
            /\ (Len(s) + i) - Len(s) = i
            BY <1>1
      <4> QED  BY <4>1
    <3> QED  BY <1>1, <1>2, <3>1 DEF NoCr
  <2> QED  BY <2>1, <2>2 DEF NoCr
<1>3. ASSUME NoCr(s), NoCr(t)  PROVE NoCr(s \o t)
  <2> SUFFICES ASSUME NEW i \in 1 .. Len(s) + Len(t)  PROVE (s \o t)[i] # CR
      BY <1>1 DEF NoCr
  <2>1. CASE i <= Len(s)
        BY <1>1, <1>3, <2>1 DEF NoCr
  <2>2. CASE i > Len(s)
    <3>1. i - Len(s) \in 1 .. Len(t)
          BY <1>1, <2>2
    <3> QED  BY <1>1, <1>3, <2>2, <3>1 DEF NoCr
  <2> QED  BY <1>1, <2>1, <2>2
<1> QED  BY <1>2, <1>3

LEMMA PairedHead ==
    ASSUME NEW b, NEW c \in Char, NEW s \in Seq(Char), Paired(b, <<c>> \o s)
    PROVE  (c = LF => b = CR) /\ Paired(c, s)
<1> DEFINE w == <<c>> \o s
<1>1. /\ Len(w) = Len(s) + 1 /\ w[1] = c /\ Len(s) \in Nat
      /\ \A i \in 1 .. Len(s) : w[i + 1] = s[i]
      BY FirstAndRest, LenProperties
<1>2. \A i \in 1 .. Len(w) : w[i] = LF => (IF i = 1 THEN b ELSE w[i - 1]) = CR
      BY DEF Paired
<1> HIDE DEF w
<1>3. c = LF => b = CR
      BY <1>1, <1>2
<1>4. ASSUME NEW i \in 1 .. Len(s), s[i] = LF  PROVE (IF i = 1 THEN c ELSE s[i - 1]) = CR
  <2>1. PICK j \in 1 .. Len(w) : j = i + 1
        BY <1>1
  <2>2. w[j] = s[i] /\ j # 1 /\ j - 1 = i
        BY <1>1, <2>1
  <2>3. w[i] = CR
        BY <1>2, <1>4, <2>2
  <2>4. CASE i = 1
        BY <1>1, <2>3, <2>4
  <2>5. CASE i # 1
    <3>1. PICK h \in 1 .. Len(s) : h = i - 1
          BY <1>1, <2>5
    <3>2. w[h + 1] = s[h] /\ h + 1 = i
          BY <1>1, <3>1
    <3> QED  BY <2>3, <2>5, <3>1, <3>2
  <2> QED  BY <2>4, <2>5
<1> QED  BY <1>3, <1>4 DEF Paired

LEMMA PairedConcat ==
    ASSUME NEW b, NEW s \in Seq(Char), NEW t \in Seq(Char),
           Paired(b, s), Paired(LastOf(b, s), t)
    PROVE  Paired(b, s \o t)
<1> DEFINE u == s \o t
<1>1. /\ Len(s) \in Nat /\ Len(t) \in Nat /\ Len(u) = Len(s) + Len(t)
      /\ \A i \in 1 .. Len(s) + Len(t) : u[i] = IF i <= Len(s) THEN s[i] ELSE t[i - Len(s)]
      /\ (s = <<>> <=> Len(s) = 0)
      BY ConcatProperties, LenProperties, EmptySeq
<1> HIDE DEF u
<1>2. ASSUME NEW i \in 1 .. Len(u), u[i] = LF
      PROVE  (IF i = 1 THEN b ELSE u[i - 1]) = CR
  <2>1. CASE i <= Len(s)
    <3>1. i \in 1 .. Len(s) /\ u[i] = s[i] /\ (i # 1 => i - 1 \in 1 .. Len(s) + Len(t) /\ i - 1 <= Len(s))
          BY <1>1, <2>1
    <3>2. i # 1 => u[i - 1] = s[i - 1]
          BY <1>1, <3>1
    <3> QED  BY <1>2, <3>1, <3>2 DEF Paired
  <2>2. CASE i > Len(s)
    <3>1. PICK j \in 1 .. Len(t) : j = i - Len(s)
          BY <1>1, <2>2
    <3>2. u[i] = t[j]
          BY <1>1, <2>2, <3>1
    <3>3. (IF j = 1 THEN LastOf(b, s) ELSE t[j - 1]) = CR
          BY <1>2, <3>2 DEF Paired
    <3>4. CASE j # 1
      <4>1. i # 1 /\ i - 1 \in 1 .. Len(s) + Len(t) /\ ~(i - 1 <= Len(s))
            /\ (i - 1) - Len(s) = j - 1
            BY <1>1, <2>2, <3>1, <3>4
      <4> QED  BY <1>1, <3>3, <3>4, <4>1
    <3>5. CASE j = 1 /\ s = <<>>
      <4>1. i = 1
            BY <1>1, <3>1, <3>5
      <4> QED  BY <3>3, <3>5, <4>1 DEF LastOf
    <3>6. CASE j = 1 /\ s # <<>>
      <4>1. i # 1 /\ i - 1 \in 1 .. Len(s) + Len(t) /\ i - 1 <= Len(s) /\ i - 1 = Len(s)
            BY <1>1, <3>1, <3>6
      <4>2. u[i - 1] = s[Len(s)]
            BY <1>1, <4>1
      <4> QED  BY <3>3, <3>6, <4>1, <4>2 DEF LastOf
    <3> QED  BY <3>4, <3>5, <3>6
  <2> QED  BY <1>1, <2>1, <2>2
<1> QED  BY <1>2 DEF Paired, u

LEMMA InInit ==
    ASSUME Init
    PROVE  InInv
<1>1. /\ rx_queue = <<>> /\ rdr = <<>> /\ typing = <<>> /\ last_c = 0 /\ keys = <<>> /\ ~lost
      /\ task[Shell].pc = "idle"
      BY TerminalsAssumption DEF Init
<1>2. Pending = <<>>
      BY <1>1 DEF Pending
<1>3. NoCr(Pending) /\ Paired(last_c, Pending)
      BY <1>2 DEF NoCr, Paired
<1>4. Meaning(last_c, Pending) = <<>>
      BY <1>2, MeaningNone
<1>5. last_c # CR
      BY <1>1, TerminalsAssumption
<1> QED  BY <1>1, <1>3, <1>4, <1>5 DEF InInv

LEMMA InKept ==
    ASSUME InInv, UNCHANGED <<use, input, last_c>>,
           task'[Shell].pc = "receive_next" => task[Shell].pc = "receive_next"
    PROVE  InInv'
<1>1. UNCHANGED <<use, rx_queue, rdr, typing, keys, lost, last_c>>
      BY DEF input
<1>2. Pending' = Pending
      BY <1>1 DEF Pending
<1>3. /\ NoCr(Pending)' <=> NoCr(Pending)
      /\ Paired(last_c, Pending)' <=> Paired(last_c, Pending)
      /\ Meaning(last_c, Pending)' = Meaning(last_c, Pending)
      BY <1>1, <1>2 DEF NoCr, Paired, Meaning, MeaningOf
<1> HIDE DEF Pending
<1> QED  BY <1>1, <1>2, <1>3 DEF InInv

\* Other tasks do not move the shell.
LEMMA InWrite ==
    ASSUME IInv, InInv, NEW k \in Tasks, write_r(k) \/ TaskStep(k)
    PROVE  InInv'
<1>1. UNCHANGED <<use, input, last_c>>
      BY DEF write_r, TaskStep, xbee_write_r, usb_write_r, SendCr, SendChar, xQueueSend,
             EnableTx, reader
<1>2. task \in TaskType
      BY Parts DEF IInv, TaskOK
<1>3. PICK pc \in Labels \ {"receive_next"} :
         \E src : task' = [task EXCEPT ![k] = [pc |-> pc, src |-> src]]
  <2>1. CASE write_r(k)
    <3>1. PICK text : task' = [task EXCEPT ![k] = [pc |-> "next", src |-> text]]
          BY <2>1 DEF write_r
    <3>2. "next" \in Labels \ {"receive_next"}
          BY DEF Labels, WriteLabels
    <3> QED  BY <3>1, <3>2
  <2>2. ASSUME NEW pc \in {"cr_set", "char", "char_set"}, Goto(k, pc)
        PROVE  /\ task' = [task EXCEPT ![k] = [pc |-> pc, src |-> task[k].src]]
               /\ pc \in Labels \ {"receive_next"}
        BY <1>2, <2>2, GotoUpdate DEF TaskOK, Labels, WriteLabels
  <2>3. ASSUME Advance(k)
        PROVE  \E pc \in Labels \ {"receive_next"} :
                  \E src : task' = [task EXCEPT ![k] = [pc |-> pc, src |-> src]]
    <3> DEFINE rest == Tail(task[k].src)
               pc   == IF rest = <<>> THEN "idle" ELSE "next"
    <3>1. task' = [task EXCEPT ![k] = [pc |-> pc, src |-> rest]]
          BY <2>3 DEF Advance
    <3>2. pc \in Labels \ {"receive_next"}
          BY DEF Labels, WriteLabels
    <3> HIDE DEF pc, rest
    <3> QED  BY <3>1, <3>2
  <2>4. CASE TaskStep(k)
    <3>1. \/ Goto(k, "cr_set") \/ Goto(k, "char") \/ Goto(k, "char_set") \/ Advance(k)
          BY <2>4 DEF TaskStep, xbee_write_r, usb_write_r, SendCr, EnableTx
    <3> QED  BY <2>2, <2>3, <3>1
  <2> QED  BY <2>1, <2>4
<1>4. task'[Shell].pc = "receive_next" => task[Shell].pc = "receive_next"
      BY <1>2, <1>3, TerminalsAssumption DEF TaskType
<1> QED  BY <1>1, <1>4, InKept

LEMMA InReadStart ==
    ASSUME IInv, InInv, read_r \/ ReceiveNothing
    PROVE  InInv'
<1>1. UNCHANGED <<use, input, last_c>>
      BY DEF read_r, ReceiveNothing, reader
<1>2. PICK pc \in {"receive", "idle"} : Goto(Shell, pc)
      BY DEF read_r, ReceiveNothing
<1>3. task' = [task EXCEPT ![Shell] = [pc |-> pc, src |-> task[Shell].src]]
      BY <1>2, GotoUpdate, Parts, TerminalsAssumption DEF IInv
<1>4. task'[Shell].pc # "receive_next"
      BY <1>2, <1>3, Parts, TerminalsAssumption DEF IInv, TaskOK, TaskType
<1> QED  BY <1>1, <1>4, InKept

\* The oldest byte leaves.
LEMMA Popped ==
    ASSUME IInv, rx_queue # <<>>, rx_queue' = Tail(rx_queue), UNCHANGED <<rdr, typing>>
    PROVE  /\ Pending' \in Seq(Char) /\ Head(rx_queue) \in Char
           /\ Pending = <<Head(rx_queue)>> \o Pending'
<1> DEFINE c == Head(rx_queue)
           q == Tail(rx_queue)
<1>1. /\ rx_queue \in Seq(Char) /\ rdr \o typing \in Seq(Char)
      BY PendingType
<1>2. c \in Char /\ q \in Seq(Char) /\ rx_queue = <<c>> \o q
      BY <1>1, HeadTailProperties
<1>3. Pending' = q \o (rdr \o typing)
      BY DEF Pending
<1> HIDE DEF c, q
<1>4. <<c>> \in Seq(Char)
      BY <1>2
<1>5. (<<c>> \o q) \o (rdr \o typing) = <<c>> \o (q \o (rdr \o typing))
      BY <1>1, <1>2, <1>4, ConcatAssociative
<1>6. Pending' \in Seq(Char)
      BY <1>1, <1>2, <1>3, ConcatProperties
<1>7. Pending = <<c>> \o Pending'
      BY <1>2, <1>3, <1>5 DEF Pending
<1> QED  BY <1>2, <1>6, <1>7 DEF c

LEMMA InReceive ==
    ASSUME IInv, InInv, Receive
    PROVE  InInv'
<1> DEFINE c == Head(rx_queue)
<1>1. /\ task[Shell].pc \in {"receive", "receive_next"} /\ rx_queue # <<>>
      /\ rx_queue' = Tail(rx_queue) /\ UNCHANGED <<use, rdr, typing, lost>>
      BY DEF Receive
<1>2. /\ Pending \in Seq(Char) /\ Pending' \in Seq(Char) /\ c \in Char
      /\ Pending = <<c>> \o Pending'
      BY <1>1, Popped, PendingType
<1>3. /\ Pending # <<>> /\ Pending[1] = c
  <2>1. <<c>> \o Pending' # <<>> /\ (<<c>> \o Pending')[1] = c
        BY <1>2, FirstAndRest
  <2> QED  BY <1>2, <2>1
<1>4. Meaning(last_c, Pending) = MeaningOf(last_c, c) \o Meaning(c, Pending')
      BY <1>2, MeaningHead
<1>5. use.eol = <<LF>> => c # CR /\ NoCr(Pending')
  <2>1. NoCr(<<c>> \o Pending') <=> NoCr(<<c>>) /\ NoCr(Pending')
    <3>1. <<c>> \in Seq(Char)
          BY <1>2
    <3> QED  BY <1>2, <3>1, NoCrConcat
  <2>2. NoCr(<<c>>) => c # CR
        BY DEF NoCr
  <2> QED  BY <1>2, <2>1, <2>2 DEF InInv
<1>6. ~lost /\ use.eol # <<LF>> => (c = LF => last_c = CR) /\ Paired(c, Pending')
      BY <1>2, PairedHead DEF InInv
<1> HIDE DEF c
<1>7. TaskOK /\ Shell \in Tasks
      BY Parts, TerminalsAssumption DEF IInv
<1>8. CASE task[Shell].pc = "receive" /\ c = LF /\ last_c = CR
  <2>1. Goto(Shell, "receive_next") /\ UNCHANGED <<keys, last_c>>
        BY <1>8 DEF Receive, reader, c
  <2>2. use.eol # <<LF>>
        BY <1>8 DEF InInv
  \* Two newlines do not follow each other.
  <2>3. ~lost => ~(Pending' # <<>> /\ Pending'[1] = LF)
    <3> SUFFICES ASSUME ~lost, Pending' # <<>>, Pending'[1] = LF  PROVE FALSE
        OBVIOUS
    <3>1. Paired(c, Pending')
          BY <1>6, <2>2
    <3>2. 1 \in 1 .. Len(Pending')
          BY <1>2, EmptySeq, LenProperties
    <3>3. c = CR
          BY <3>1, <3>2 DEF Paired
    <3> QED  BY <1>8, <3>3, TerminalsAssumption
  <2>4. ~lost => Paired(last_c, Pending')
    <3> SUFFICES ASSUME ~lost  PROVE Paired(last_c, Pending')
        OBVIOUS
    <3>1. Paired(c, Pending')
          BY <1>6, <2>2
    <3>2. 1 \in 1 .. Len(Pending') => Pending'[1] # LF
          BY <1>2, <2>3, EmptySeq
    <3> QED  BY <3>1, <3>2 DEF Paired
  <2>5. ~lost => keys = Meaning(last_c, Pending')
    <3> SUFFICES ASSUME ~lost  PROVE keys = Meaning(last_c, Pending')
        OBVIOUS
    <3>1. MeaningOf(last_c, c) = <<>>
          BY <1>8 DEF MeaningOf
    <3>2. keys = <<>> \o Meaning(c, Pending')
          BY <1>4, <3>1 DEF InInv
    <3>3. keys = Meaning(c, Pending')
          BY <1>2, <3>2, MeaningType, ConcatEmptySeq
    <3>4. CASE Pending' = <<>>
          BY <3>3, <3>4, MeaningNone
    <3>5. CASE Pending' # <<>>
      <4> DEFINE d == Head(Pending')
                 r == Tail(Pending')
      <4>1. d \in Char /\ r \in Seq(Char) /\ Pending' = <<d>> \o r /\ d = Pending'[1]
            BY <1>2, <3>5, HeadTailProperties
      <4> HIDE DEF d, r
      <4>2. /\ Meaning(c, Pending') = MeaningOf(c, d) \o Meaning(d, r)
            /\ Meaning(last_c, Pending') = MeaningOf(last_c, d) \o Meaning(d, r)
            BY <4>1, MeaningHead
      <4>3. MeaningOf(c, d) = MeaningOf(last_c, d)
            BY <2>3, <3>5, <4>1 DEF MeaningOf
      <4> QED  BY <3>3, <4>2, <4>3
    <3> QED  BY <3>4, <3>5
  <2>6. last_c' = last_c /\ keys' = keys /\ use' = use /\ lost' = lost /\ rdr' = rdr
        BY <1>1, <2>1
  <2>7. Meaning(last_c, Pending)' = Meaning(last_c, Pending')
        BY <2>6 DEF Meaning, MeaningOf
  <2>8. Paired(last_c, Pending)' <=> Paired(last_c, Pending')
        BY <2>6 DEF Paired
  <2> QED  BY <1>5, <1>8, <2>2, <2>3, <2>4, <2>5, <2>6, <2>7, <2>8 DEF InInv, NoCr
<1>9. CASE ~(task[Shell].pc = "receive" /\ c = LF /\ last_c = CR)
  <2>1. Store(c) /\ UNCHANGED <<use, rdr, lost>>
        BY <1>1, <1>9 DEF Receive, c
  <2>2. /\ last_c' = c /\ keys' = IF keys = <<>> THEN keys ELSE Tail(keys)
        /\ use' = use /\ lost' = lost /\ rdr' = rdr
        BY <2>1 DEF Store
  <2>3. task'[Shell].pc # "receive_next"
    <3>1. PICK pc \in {"receive", "idle"} : Goto(Shell, pc)
          BY <2>1 DEF Store
    <3>2. task' = [task EXCEPT ![Shell] = [pc |-> pc, src |-> task[Shell].src]]
          BY <1>7, <3>1, GotoUpdate
    <3> QED  BY <1>7, <3>1, <3>2 DEF TaskOK, TaskType
  <2>4. ~lost => ~(last_c = CR /\ c = LF)
    <3> SUFFICES ASSUME ~lost, last_c = CR, c = LF  PROVE FALSE
        OBVIOUS
    <3>1. task[Shell].pc = "receive_next"
          BY <1>1, <1>9
    <3>2. use.eol # <<LF>>
          BY DEF InInv
    <3> QED  BY <1>3, <3>1, <3>2 DEF InInv
  <2>5. ~lost => keys' = Meaning(c, Pending')
    <3> SUFFICES ASSUME ~lost  PROVE keys' = Meaning(c, Pending')
        OBVIOUS
    <3> DEFINE x == IF c = CR THEN LF ELSE c
    <3>1. MeaningOf(last_c, c) = <<x>> /\ x \in Char
          BY <1>2, <2>4 DEF MeaningOf, Char
    <3> HIDE DEF x
    <3>2. keys = <<x>> \o Meaning(c, Pending')
          BY <1>4, <3>1 DEF InInv
    <3>3. Meaning(c, Pending') \in Seq(Char)
          BY <1>2, MeaningType
    <3>4. keys # <<>> /\ Tail(keys) = Meaning(c, Pending')
          BY <3>1, <3>2, <3>3, FirstAndRest
    <3> QED  BY <2>2, <3>4
  <2>6. Meaning(last_c, Pending)' = Meaning(c, Pending')
        BY <2>2 DEF Meaning, MeaningOf
  <2>7. Paired(last_c, Pending)' <=> Paired(c, Pending')
        BY <2>2 DEF Paired
  <2> QED  BY <1>5, <1>6, <2>2, <2>3, <2>5, <2>6, <2>7 DEF InInv, NoCr
<1> QED  BY <1>8, <1>9

\* A key finds its place behind what is still on the way.
LEMMA InType ==
    ASSUME IInv, InInv, Type
    PROVE  InInv'
<1>1. PICK key \in Letters \cup {LF} :
          /\ typing' = IF key = LF THEN use.eol ELSE <<key>>
          /\ lost' = (lost /\ rx_queue \o rdr # <<>>)
          /\ keys' = IF lost' THEN <<>> ELSE Append(keys, key)
      BY DEF Type
<1>2. typing = <<>> /\ UNCHANGED <<use, rx_queue, rdr, last_c, task>>
      BY DEF Type, reader
<1>3. /\ rx_queue \in Seq(Char) /\ rdr \in Seq(Char) /\ rdr \o typing \in Seq(Char)
      /\ Pending \in Seq(Char) /\ rx_queue \o rdr \o typing = Pending
      BY PendingType
<1>4. Pending = rx_queue \o rdr
  <2>1. rdr \o typing = rdr
        BY <1>2, <1>3, ConcatEmptySeq
  <2> QED  BY <2>1 DEF Pending
<1>5. key \in Char /\ CR \in Char /\ LF \in Char /\ use.eol \in LineEnds /\ key # CR
      BY Parts, TerminalsAssumption DEF IInv, Char
<1>6. typing' \in Seq(Char)
  <2>1. <<key>> \in Seq(Char) /\ <<CR>> \in Seq(Char) /\ <<LF>> \in Seq(Char)
        /\ <<CR, LF>> \in Seq(Char)
        BY <1>5
  <2> QED  BY <1>1, <1>5, <2>1 DEF LineEnds
<1>7. Pending' = Pending \o typing'
  <2>1. Pending' = rx_queue \o (rdr \o typing')
        BY <1>2 DEF Pending
  <2>2. rx_queue \o (rdr \o typing') = (rx_queue \o rdr) \o typing'
    <3>1. rx_queue \in Seq(Char) /\ rdr \in Seq(Char) /\ typing' \in Seq(Char)
          BY <1>3, <1>6
    <3> QED  BY <3>1, ConcatAssociative
  <2> QED  BY <1>4, <2>1, <2>2
<1> DEFINE l == LastOf(last_c, Pending)
<1>8. use.eol = <<LF>> => l # CR
  <2> SUFFICES ASSUME use.eol = <<LF>>, Pending # <<>>  PROVE Pending[Len(Pending)] # CR
      BY DEF InInv, LastOf
  <2>1. Len(Pending) \in 1 .. Len(Pending)
        BY <1>3, EmptySeq, LenProperties
  <2> QED  BY <2>1 DEF InInv, NoCr
<1>9. Meaning(l, typing') = <<key>>
  <2> HIDE DEF l
  <2>1. CASE key # LF
    <3>1. typing' = <<key>> \o <<>> /\ <<>> \in Seq(Char)
          BY <1>1, <2>1
    <3>2. Meaning(l, <<key>> \o <<>>) = MeaningOf(l, key) \o Meaning(key, <<>>)
          BY <1>5, <3>1, MeaningHead
    <3>3. MeaningOf(l, key) = <<key>> /\ Meaning(key, <<>>) = <<>>
          BY <1>5, <2>1, MeaningNone DEF MeaningOf
    <3> QED  BY <3>1, <3>2, <3>3
  <2>2. CASE key = LF /\ use.eol \in {<<CR>>, <<LF>>}
    <3>1. PICK c \in {CR, LF} : typing' = <<c>> /\ ~(l = CR /\ c = LF)
          BY <1>1, <1>8, <2>2, TerminalsAssumption
    <3>2. typing' = <<c>> \o <<>> /\ <<>> \in Seq(Char)
          BY <3>1
    <3>3. Meaning(l, <<c>> \o <<>>) = MeaningOf(l, c) \o Meaning(c, <<>>)
          BY <1>5, <3>2, MeaningHead
    <3>4. MeaningOf(l, c) = <<LF>> /\ Meaning(c, <<>>) = <<>>
          BY <3>1, MeaningNone DEF MeaningOf
    <3> QED  BY <2>2, <3>2, <3>3, <3>4
  <2>3. CASE key = LF /\ use.eol = <<CR, LF>>
    <3>1. typing' = <<CR>> \o (<<LF>> \o <<>>) /\ <<>> \in Seq(Char)
          /\ <<LF>> \o <<>> \in Seq(Char)
      <4>1. <<LF>> \in Seq(Char) /\ <<CR>> \in Seq(Char) /\ <<>> \in Seq(Char)
            BY <1>5
      <4>2. <<LF>> \o <<>> = <<LF>>
            BY <4>1, ConcatEmptySeq
      <4>3. <<CR>> \o <<LF>> = <<CR, LF>>
        <5> DEFINE w == <<CR>> \o <<LF>>
                   v == <<CR, LF>>
        <5>1. /\ w \in Seq(Char) /\ Len(w) = Len(<<LF>>) + 1 /\ w[1] = CR
              /\ \A i \in 1 .. Len(<<LF>>) : w[i + 1] = <<LF>>[i]
              BY <1>5, <4>1, FirstAndRest
        <5>2. Len(w) = 2 /\ w[2] = LF
          <6> HIDE DEF w
          <6>1. Len(<<LF>>) = 1 /\ <<LF>>[1] = LF
                OBVIOUS
          <6> QED  BY <5>1, <6>1
        <5>3. v \in Seq(Char) /\ Len(v) = 2 /\ v[1] = CR /\ v[2] = LF
              BY <1>5
        <5> HIDE DEF w, v
        <5>4. w = v
              BY <5>1, <5>2, <5>3, SeqEqual
        <5> QED  BY <5>4 DEF w, v
      <4> QED  BY <1>1, <2>3, <4>1, <4>2, <4>3
    <3>2. Meaning(l, <<CR>> \o (<<LF>> \o <<>>)) = MeaningOf(l, CR) \o Meaning(CR, <<LF>> \o <<>>)
          BY <1>5, <3>1, MeaningHead
    <3>3. Meaning(CR, <<LF>> \o <<>>) = MeaningOf(CR, LF) \o Meaning(LF, <<>>)
          BY <1>5, <3>1, MeaningHead
    <3>4. MeaningOf(l, CR) = <<LF>> /\ MeaningOf(CR, LF) = <<>> /\ Meaning(LF, <<>>) = <<>>
          BY TerminalsAssumption, MeaningNone DEF MeaningOf
    <3> QED  BY <2>3, <3>1, <3>2, <3>3, <3>4
  <2> QED  BY <1>5, <2>1, <2>2, <2>3 DEF LineEnds
\* With nothing on the way, what was lost does not matter any more.
<1>10. ~lost' => keys = Meaning(last_c, Pending)
  <2>1. CASE ~lost
        BY <2>1 DEF InInv
  <2>2. CASE lost
    <3> SUFFICES ASSUME ~lost'  PROVE keys = Meaning(last_c, Pending)
        OBVIOUS
    <3>1. Pending = <<>>
          BY <1>1, <1>4, <2>2
    <3> QED  BY <2>2, <3>1, MeaningNone DEF InInv
  <2> QED  BY <2>1, <2>2
<1>11. ~lost' => keys' = Meaning(last_c, Pending')
  <2> SUFFICES ASSUME ~lost'  PROVE keys' = Meaning(last_c, Pending')
      OBVIOUS
  <2>1. Meaning(last_c, Pending \o typing') = Meaning(last_c, Pending) \o Meaning(l, typing')
        BY <1>3, <1>6, MeaningConcat
  <2>2. keys \in Seq(Char)
        BY <1>3, <1>10, MeaningType
  <2>3. Append(keys, key) = keys \o <<key>>
        BY <1>5, <2>2, AppendIsConcat
  <2> QED  BY <1>1, <1>7, <1>9, <1>10, <2>1, <2>3
<1>12. ~lost' /\ use.eol # <<LF>> => Paired(last_c, Pending)
       /\ (task[Shell].pc = "receive_next" => ~(Pending # <<>> /\ Pending[1] = LF))
  <2>1. CASE ~lost
        BY <2>1 DEF InInv
  <2>2. CASE lost /\ Pending = <<>>
        BY <2>2 DEF Paired
  <2>3. CASE lost /\ Pending # <<>>
        BY <1>1, <1>4, <2>3
  <2> QED  BY <2>1, <2>2, <2>3
<1>13. use.eol # <<LF>> => Paired(l, typing')
  <2>1. CASE key # LF
        BY <1>1, <2>1 DEF Paired
  <2>2. CASE key = LF /\ use.eol = <<CR>>
        BY <1>1, <2>2, TerminalsAssumption DEF Paired
  <2>3. CASE key = LF /\ use.eol = <<CR, LF>>
    <3>1. typing' = <<CR, LF>>
          BY <1>1, <2>3
    <3>2. \A i \in 1 .. Len(typing') : i \in {1, 2}
          BY <3>1
    <3>3. typing'[1] = CR /\ CR # LF
          BY <3>1, TerminalsAssumption
    <3> QED  BY <3>2, <3>3 DEF Paired
  <2> QED  BY <1>5, <2>1, <2>2, <2>3 DEF LineEnds
<1>14. ~lost' /\ use.eol # <<LF>> => Paired(last_c, Pending')
  <2> SUFFICES ASSUME ~lost', use.eol # <<LF>>  PROVE Paired(last_c, Pending \o typing')
      BY <1>7
  <2> QED  BY <1>3, <1>6, <1>12, <1>13, PairedConcat
<1>15. use.eol = <<LF>> => NoCr(Pending')
  <2>1. use.eol = <<LF>> => NoCr(typing')
        BY <1>1, <1>5, TerminalsAssumption DEF NoCr
  <2>2. NoCr(Pending \o typing') <=> NoCr(Pending) /\ NoCr(typing')
        BY <1>3, <1>6, NoCrConcat
  <2> QED  BY <1>7, <2>1, <2>2 DEF InInv
\* The first byte on the way is the one that was it.
<1>16. ~lost' /\ use.eol # <<LF>> /\ task[Shell].pc = "receive_next" =>
          ~(Pending' # <<>> /\ Pending'[1] = LF)
  <2> SUFFICES ASSUME ~lost', use.eol # <<LF>>, task[Shell].pc = "receive_next",
                      Pending' # <<>>, Pending'[1] = LF
               PROVE  FALSE
      OBVIOUS
  <2>1. CASE Pending = <<>>
    <3>1. Pending' = typing'
          BY <1>6, <1>7, <2>1, ConcatEmptySeq
    <3>2. typing'[1] # LF
          BY <1>1, <1>5, TerminalsAssumption DEF LineEnds
    <3> QED  BY <3>1, <3>2
  <2>2. CASE Pending # <<>>
    <3>1. 1 \in 1 .. Len(Pending) /\ 1 <= Len(Pending) /\ Len(Pending) \in Nat
          /\ Len(typing') \in Nat
          BY <1>3, <1>6, <2>2, EmptySeq, LenProperties
    <3>2. (Pending \o typing')[1] = Pending[1]
          BY <1>3, <1>6, <3>1, ConcatProperties
    <3> QED  BY <1>7, <1>12, <2>2, <3>2
  <2> QED  BY <2>1, <2>2
<1>17. lost' => keys' = <<>>
       BY <1>1
<1>18. /\ NoCr(Pending)' <=> NoCr(Pending')
       /\ Paired(last_c, Pending)' <=> Paired(last_c, Pending')
       /\ Meaning(last_c, Pending)' = Meaning(last_c, Pending')
       BY <1>2 DEF NoCr, Paired, Meaning, MeaningOf
<1> HIDE DEF Pending
<1> QED  BY <1>2, <1>11, <1>14, <1>15, <1>16, <1>17, <1>18 DEF InInv

LEMMA InReceiveFrame ==
    ASSUME IInv, InInv, ReceiveFrame
    PROVE  InInv'
<1>1. /\ rdr = <<>> /\ typing # <<>> /\ use.dev = "xbee"
      /\ rdr' = <<Head(typing)>> /\ typing' = Tail(typing)
      /\ UNCHANGED <<use, rx_queue, keys, lost, last_c, task>>
      BY DEF ReceiveFrame, reader
<1>2. Pending' = Pending
  <2>1. typing \in Seq(Char)
        BY PendingType
  <2>2. rdr \o typing = typing
        BY <1>1, <2>1, ConcatEmptySeq
  <2>3. <<Head(typing)>> \o Tail(typing) = typing
        BY <1>1, <2>1, HeadTailProperties
  <2> QED  BY <1>1, <2>2, <2>3 DEF Pending
<1>3. /\ NoCr(Pending)' <=> NoCr(Pending)
      /\ Paired(last_c, Pending)' <=> Paired(last_c, Pending)
      /\ Meaning(last_c, Pending)' = Meaning(last_c, Pending)
      BY <1>1, <1>2 DEF NoCr, Paired, Meaning, MeaningOf
<1> HIDE DEF Pending
<1> QED  BY <1>1, <1>2, <1>3 DEF InInv

\* The handlers move what has arrived into the queue as far as there is room.
LEMMA InReceives ==
    ASSUME IInv, InInv, NEW bytes \in Seq(Char), NEW rest \in Seq(Char), Receives(bytes),
           rdr \o typing = bytes \o rest, rdr' \o typing' = rest,
           use.dev = "usb" => rdr' = <<>>, UNCHANGED <<use, last_c, task>>
    PROVE  InInv'
<1> DEFINE room == RxSize - Len(rx_queue)
           n    == IF Len(bytes) < room THEN Len(bytes) ELSE room
           part == SubSeq(bytes, 1, n)
<1>1. /\ rx_queue' = rx_queue \o part
      /\ lost' = (lost \/ Len(bytes) > room)
      /\ keys' = IF lost' THEN <<>> ELSE keys
      BY DEF Receives
<1>2. /\ rx_queue \in Seq(Char) /\ Len(rx_queue) \in Nat /\ Len(bytes) \in Nat /\ room \in Nat
      BY Parts, LenProperties, TerminalsAssumption DEF IInv, RxOK
<1>3. n \in 0 .. Len(bytes) /\ (~(Len(bytes) > room) => n = Len(bytes))
      BY <1>2
<1> HIDE DEF n, room
<1>4. part \in Seq(Char) /\ bytes = part \o SubSeq(bytes, n + 1, Len(bytes))
      /\ SubSeq(bytes, n + 1, Len(bytes)) \in Seq(Char)
      /\ Len(part) = n
      BY <1>3, Part, PartsMake
<1>5. Pending = rx_queue \o (bytes \o rest) /\ Pending' = (rx_queue \o part) \o rest
      BY <1>1 DEF Pending
<1>6. ~(Len(bytes) > room) => part = bytes
  <2> SUFFICES ASSUME n = Len(bytes)  PROVE part = bytes
      BY <1>3
  <2>1. \A i \in 1 .. n : part[i] = bytes[i]
        BY <1>2
  <2> HIDE DEF part
  <2> QED  BY <1>4, <2>1, SeqEqual
<1> HIDE DEF part
<1>7. ~lost' => Pending' = Pending
  <2> SUFFICES ASSUME ~lost'  PROVE Pending' = Pending
      OBVIOUS
  <2>1. part = bytes
        BY <1>1, <1>6
  <2>2. (rx_queue \o bytes) \o rest = rx_queue \o (bytes \o rest)
        BY <1>2, ConcatAssociative
  <2> QED  BY <1>5, <2>1, <2>2
<1>8. NoCr(Pending) => NoCr(Pending')
  <2> SUFFICES ASSUME NoCr(Pending)  PROVE NoCr(Pending')
      OBVIOUS
  <2>1. bytes \o rest \in Seq(Char) /\ rx_queue \o part \in Seq(Char)
        BY <1>2, <1>4, ConcatProperties
  <2>2. NoCr(rx_queue) /\ NoCr(bytes \o rest)
        BY <1>2, <1>5, <2>1, NoCrConcat
  <2>3. NoCr(bytes) /\ NoCr(rest)
        BY <2>2, NoCrConcat
  <2>4. NoCr(part)
    <3> DEFINE left == SubSeq(bytes, n + 1, Len(bytes))
    <3>1. bytes = part \o left /\ left \in Seq(Char)
          BY <1>4
    <3> HIDE DEF left
    <3>2. NoCr(part \o left)
          BY <2>3, <3>1
    <3> QED  BY <1>4, <3>1, <3>2, NoCrConcat
  <2>5. NoCr(rx_queue \o part)
        BY <1>2, <1>4, <2>2, <2>4, NoCrConcat
  <2> QED  BY <1>5, <2>1, <2>3, <2>5, NoCrConcat
<1>9. /\ NoCr(Pending)' <=> NoCr(Pending')
      /\ Paired(last_c, Pending)' <=> Paired(last_c, Pending')
      /\ Meaning(last_c, Pending)' = Meaning(last_c, Pending')
      BY DEF NoCr, Paired, Meaning, MeaningOf
<1>10. ~lost' => ~lost /\ keys' = keys
       BY <1>1
<1>11. lost' => keys' = <<>>
       BY <1>1
<1> HIDE DEF Pending
<1> QED  BY <1>7, <1>8, <1>9, <1>10, <1>11 DEF InInv

LEMMA InUsartIrq ==
    ASSUME IInv, InInv, USART3_IRQHandler
    PROVE  InInv'
<1>1. /\ Receives(rdr) /\ rdr' = <<>> /\ UNCHANGED <<use, typing, last_c, task>>
      BY DEF USART3_IRQHandler, reader
<1>2. rdr \in Seq(Char) /\ typing \in Seq(Char)
      BY PendingType
<1>3. rdr' \o typing' = typing
      BY <1>1, <1>2, ConcatEmptySeq
<1> QED  BY <1>1, <1>2, <1>3, InReceives

LEMMA InUsb ==
    ASSUME IInv, InInv, NEW n \in 0 .. Len(typing), NEW collected \in BOOLEAN, NEW sof \in BOOLEAN,
           OTG_FS_IRQHandler(n, collected, sof)
    PROVE  InInv'
<1> DEFINE bytes == SubSeq(typing, 1, n)
           rest  == SubSeq(typing, n + 1, Len(typing))
<1>1. /\ Receives(bytes) /\ typing' = rest /\ UNCHANGED <<use, rdr, last_c, task>>
      /\ use.dev = "usb"
      BY DEF OTG_FS_IRQHandler, reader
<1>2. rdr = <<>> /\ rdr' = <<>> /\ typing \in Seq(Char)
      BY <1>1, PendingType DEF InInv
<1>3. bytes \in Seq(Char) /\ rest \in Seq(Char) /\ typing = bytes \o rest
      BY <1>2, Part, PartsMake
<1> HIDE DEF bytes, rest
<1>4. rdr \o typing = bytes \o rest /\ rdr' \o typing' = rest
      BY <1>1, <1>2, <1>3, ConcatEmptySeq
<1> QED  BY <1>1, <1>2, <1>3, <1>4, InReceives

LEMMA InStep == IInv /\ InInv /\ [Next]_vars => InInv'
<1> SUFFICES ASSUME IInv, InInv, [Next]_vars  PROVE InInv'
    OBVIOUS
<1>1. CASE \E k \in Tasks : write_r(k) \/ TaskStep(k)
      BY <1>1, InWrite
<1>2. CASE read_r \/ ReadStep
      BY <1>2, InReadStart, InReceive DEF ReadStep
<1>3. CASE Type \/ ReceiveFrame
      BY <1>3, InType, InReceiveFrame
<1>4. CASE SendFrame
      BY <1>4, InKept DEF SendFrame, reader
<1>5. CASE USART3_IRQHandler
      BY <1>5, InUsartIrq
<1>6. CASE Usb
      BY <1>6, InUsb DEF Usb
<1>7. CASE UNCHANGED vars
      BY <1>7, InKept DEF vars, reader
<1> QED  BY <1>1, <1>2, <1>3, <1>4, <1>5, <1>6, <1>7 DEF Next

\* Every key is read once and as it was typed, whatever the peer sends for a
\* new line and wherever its bytes fall, unless the queue was full.
THEOREM InputTheorem == Spec => []ReadsWhatWasTyped
<1>1. Init => InInv
      BY InInit
<1>2. IInv /\ InInv /\ [Next]_vars => InInv'
      BY InStep
<1>3. IInv /\ InInv => ReadsWhatWasTyped
      BY PendingType DEF InInv, ReadsWhatWasTyped
<1> QED  BY <1>1, <1>2, <1>3, SpecIInv, PTL DEF Spec

-----------------------------------------------------------------------------
(* The buffer of the USB driver, and what is under way in it               *)

\* The part of the buffer that is in no packet yet.
Unsent(u) == [i \in 1 .. Waiting(u) |-> u.buf[(u.ptr_out + i - 1) % AppSize]]

\* A transfer is on as long as the endpoint has a packet, and the packet ends
\* where the rest of the transfer begins.
Transfer(u) ==
    /\ u.state = 1 <=> u.packet.len > 0
    /\ u.packet.len = 0 => u.length = 0
    /\ u.packet.len > 0 => u.packet.ptr + u.packet.len = u.ptr_out

\* A transfer ends within what waits, the buffer is never quite full, and what
\* it holds are items.
InFlow(u) ==
    /\ u.length <= Waiting(u)
    /\ Held(u) < AppSize
    /\ Packet(u) \in Seq(Items) /\ Unsent(u) \in Seq(Items)

LEMMA Modulo ==
    ASSUME NEW a \in Int
    PROVE  /\ a \in 0 .. AppSize - 1 => a % AppSize = a
           /\ a \in AppSize .. 2 * AppSize - 1 => a % AppSize = a - AppSize
           /\ a \in -AppSize .. -1 => a % AppSize = a + AppSize
<1>1. ASSUME a \in 0 .. AppSize - 1  PROVE a % AppSize = a
      BY <1>1, Sizes
<1>2. ASSUME a \in AppSize .. 2 * AppSize - 1  PROVE a % AppSize = a - AppSize
      BY <1>2, Sizes
<1>3. ASSUME a \in -AppSize .. -1  PROVE a % AppSize = a + AppSize
      BY <1>3, Sizes
<1> QED  BY <1>1, <1>2, <1>3

\* How much waits, without the remainder.
LEMMA WaitingIs ==
    ASSUME NEW u, Inside(u)
    PROVE  /\ u.ptr_in \in 0 .. AppSize - 1 /\ u.ptr_out \in 0 .. AppSize
           /\ Waiting(u) = IF u.ptr_in >= u.ptr_out THEN u.ptr_in - u.ptr_out
                                                    ELSE u.ptr_in - u.ptr_out + AppSize
           /\ Waiting(u) \in 0 .. AppSize - 1
<1>1. u.ptr_in \in 0 .. AppSize - 1 /\ u.ptr_out \in 0 .. AppSize
      BY DEF Inside, AppType
<1>2. u.ptr_in - u.ptr_out \in -AppSize .. AppSize - 1 /\ u.ptr_in - u.ptr_out \in Int
      BY <1>1, Sizes
<1>3. Waiting(u) = IF u.ptr_in >= u.ptr_out THEN u.ptr_in - u.ptr_out
                                            ELSE u.ptr_in - u.ptr_out + AppSize
  <2> DEFINE d == u.ptr_in - u.ptr_out
  <2>1. d \in 0 .. AppSize - 1 => d % AppSize = d
        BY <1>2, Modulo
  <2>2. d \in -AppSize .. -1 => d % AppSize = d + AppSize
        BY <1>2, Modulo
  <2> QED  BY <1>1, <1>2, <2>1, <2>2, Sizes DEF Waiting
<1> QED  BY <1>1, <1>3, Sizes

\* Byte i of the part that waits.
LEMMA UnsentIs ==
    ASSUME NEW u, Inside(u)
    PROVE  /\ Unsent(u) = [i \in 1 .. Waiting(u) |-> Unsent(u)[i]]
           /\ \A i \in 1 .. Waiting(u) : Unsent(u)[i] = u.buf[(u.ptr_out + i - 1) % AppSize]
           /\ Unsent(u) \in Seq(Items) => Len(Unsent(u)) = Waiting(u)
<1>1. Waiting(u) \in Nat
      BY WaitingIs, Sizes
<1>2. /\ Unsent(u) = [i \in 1 .. Waiting(u) |-> Unsent(u)[i]]
      /\ \A i \in 1 .. Waiting(u) : Unsent(u)[i] = u.buf[(u.ptr_out + i - 1) % AppSize]
      /\ DOMAIN Unsent(u) = 1 .. Waiting(u)
      BY DEF Unsent
<1>3. Unsent(u) \in Seq(Items) => Len(Unsent(u)) = Waiting(u)
      BY <1>1, <1>2, LenProperties
<1> QED  BY <1>2, <1>3

LEMMA PacketIs ==
    ASSUME NEW u, Inside(u)
    PROVE  /\ u.packet.len \in Nat /\ u.packet.ptr \in Nat
           /\ Packet(u) = [i \in 1 .. u.packet.len |-> Packet(u)[i]]
           /\ \A i \in 1 .. u.packet.len : Packet(u)[i] = u.buf[u.packet.ptr + i - 1]
           /\ Packet(u) \in Seq(Items) => Len(Packet(u)) = u.packet.len
<1>1. u.packet.len \in Nat /\ u.packet.ptr \in Nat
      BY Sizes DEF Inside, AppType
<1>2. /\ Packet(u) = [i \in 1 .. u.packet.len |-> Packet(u)[i]]
      /\ \A i \in 1 .. u.packet.len : Packet(u)[i] = u.buf[u.packet.ptr + i - 1]
      /\ DOMAIN Packet(u) = 1 .. u.packet.len
      BY DEF Packet
<1>3. Packet(u) \in Seq(Items) => Len(Packet(u)) = u.packet.len
      BY <1>1, <1>2, LenProperties
<1> QED  BY <1>1, <1>2, <1>3

LEMMA NothingInPacket ==
    ASSUME NEW u, Inside(u), u.packet.len = 0
    PROVE  Packet(u) = <<>>
<1>1. Packet(u) = [i \in 1 .. 0 |-> u.buf[u.packet.ptr + i - 1]]
      BY DEF Packet
<1> QED  BY <1>1

\* The next packet is the first part of what waits.
LEMMA StartPacketKeeps ==
    ASSUME NEW u, Inside(u), u.length <= Waiting(u), Unsent(u) \in Seq(Items)
    PROVE  LET v == StartPacket(u)
           IN  /\ InFlow(v)
               /\ Held(v) = Waiting(u)
               /\ Unsent(u) = Packet(v) \o Unsent(v)
<1> DEFINE v == StartPacket(u)
           n == IF u.length > PacketSize THEN PacketSize ELSE u.length
           W == Waiting(u)
<1>1. /\ u.length \in 0 .. AppSize /\ u.ptr_out \in 0 .. AppSize /\ u.ptr_in \in 0 .. AppSize - 1
      /\ u.ptr_out + u.length <= AppSize
      BY DEF Inside, AppType
<1>2. n \in Nat /\ n <= u.length /\ n <= W /\ W \in 0 .. AppSize - 1
      /\ u.ptr_out + n <= AppSize
      BY <1>1, WaitingIs, Sizes
<1>3. /\ v.packet.ptr = u.ptr_out /\ v.packet.len = n /\ v.ptr_out = u.ptr_out + n
      /\ v.length = u.length - n /\ v.ptr_in = u.ptr_in /\ v.buf = u.buf
      BY DEF StartPacket, Inside, AppType
<1>4. Inside(v)
      BY StartPacketInside
<1> HIDE DEF v, n
<1>5. Waiting(v) = W - n
  <2>1. Waiting(v) = IF v.ptr_in >= v.ptr_out THEN v.ptr_in - v.ptr_out
                                              ELSE v.ptr_in - v.ptr_out + AppSize
        BY <1>4, WaitingIs
  <2>2. W = IF u.ptr_in >= u.ptr_out THEN u.ptr_in - u.ptr_out
                                     ELSE u.ptr_in - u.ptr_out + AppSize
        BY WaitingIs
  <2>3. v.ptr_in = u.ptr_in /\ v.ptr_out = u.ptr_out + n
        BY <1>3
  <2> HIDE DEF W
  <2>4. CASE u.ptr_in >= u.ptr_out
        BY <1>1, <1>2, <2>1, <2>2, <2>3, <2>4
  <2>5. CASE u.ptr_in < u.ptr_out
        BY <1>1, <1>2, <2>1, <2>2, <2>3, <2>5, Sizes
  <2> QED  BY <1>1, <2>4, <2>5
<1>6. v.length <= Waiting(v) /\ Held(v) = W
      BY <1>1, <1>2, <1>3, <1>5 DEF Held
<1>7. Len(Unsent(u)) = W /\ \A i \in 1 .. W : Unsent(u)[i] \in Items
      BY UnsentIs, ElementOfSeq
<1>8. ASSUME NEW i \in 1 .. n
      PROVE  Packet(v)[i] = Unsent(u)[i] /\ i \in 1 .. W
  <2>1. u.ptr_out + i - 1 \in 0 .. AppSize - 1 /\ u.ptr_out + i - 1 \in Int /\ i \in 1 .. W
        BY <1>1, <1>2, Sizes
  <2>2. (u.ptr_out + i - 1) % AppSize = u.ptr_out + i - 1
        BY <2>1, Modulo
  <2> QED  BY <1>3, <1>4, <2>1, <2>2, PacketIs, UnsentIs
<1>9. ASSUME NEW i \in 1 .. W - n
      PROVE  Unsent(v)[i] = Unsent(u)[n + i] /\ n + i \in 1 .. W
  <2>1. n + i \in 1 .. W /\ v.ptr_out + i - 1 = u.ptr_out + (n + i) - 1
        BY <1>1, <1>2, <1>3
  <2>2. Unsent(v)[i] = v.buf[(v.ptr_out + i - 1) % AppSize]
        BY <1>4, <1>5, UnsentIs
  <2>3. Unsent(u)[n + i] = u.buf[(u.ptr_out + (n + i) - 1) % AppSize]
        BY <2>1, UnsentIs
  <2> QED  BY <1>3, <2>1, <2>2, <2>3
<1>10. Packet(v) \in Seq(Items) /\ Len(Packet(v)) = n
  <2>1. \A i \in 1 .. n : Packet(v)[i] \in Items
        BY <1>7, <1>8
  <2> QED  BY <1>2, <1>3, <1>4, <2>1, PacketIs, Pieces
<1>11. Unsent(v) \in Seq(Items) /\ Len(Unsent(v)) = W - n
  <2>1. \A i \in 1 .. W - n : Unsent(v)[i] \in Items
        BY <1>7, <1>9
  <2>2. W - n \in Nat
        BY <1>2
  <2> QED  BY <1>4, <1>5, <2>1, <2>2, UnsentIs, Pieces
<1>12. Unsent(u) = Packet(v) \o Unsent(v)
  <2>1. Len(Unsent(u)) = Len(Packet(v)) + Len(Unsent(v))
        BY <1>2, <1>7, <1>10, <1>11
  <2>2. \A i \in 1 .. Len(Packet(v)) : Unsent(u)[i] = Packet(v)[i]
        BY <1>8, <1>10
  <2>3. \A i \in 1 .. Len(Unsent(v)) : Unsent(u)[Len(Packet(v)) + i] = Unsent(v)[i]
        BY <1>9, <1>10, <1>11
  <2> QED  BY <1>10, <1>11, <2>1, <2>2, <2>3, Joined
<1>13. InFlow(v)
       BY <1>2, <1>6, <1>10, <1>11, Sizes DEF InFlow
<1> QED  BY <1>6, <1>12, <1>13 DEF v

LEMMA DataInKeeps ==
    ASSUME NEW u, Inside(u), Transfer(u), u.packet.len > 0
    PROVE  LET v == usbd_cdc_DataIn(u)
           IN  /\ Transfer(v)
               /\ InFlow(u) => /\ InFlow(v)
                               /\ Held(v) = Waiting(u) /\ Held(v) <= Held(u)
                               /\ Holding(u) = Packet(u) \o Holding(v)
<1> DEFINE v == usbd_cdc_DataIn(u)
<1>1. /\ u.length \in 0 .. AppSize /\ u.packet.len \in Nat
      /\ Waiting(u) \in Nat /\ Holding(u) = Packet(u) \o Unsent(u)
      BY WaitingIs, Sizes DEF Inside, AppType, Holding, Unsent
<1>2. CASE u.length = 0
  <2>1. v = [u EXCEPT !.state = 0, !.packet = NoPacket]
        BY <1>2 DEF usbd_cdc_DataIn
  <2>2. /\ v.state = 0 /\ v.packet.len = 0 /\ v.length = 0 /\ v.buf = u.buf
        /\ v.ptr_in = u.ptr_in /\ v.ptr_out = u.ptr_out
        BY <1>2, <2>1 DEF Inside, AppType, NoPacket
  <2>3. Inside(v)
        BY DataInInside
  <2> HIDE DEF v
  <2>4. Waiting(v) = Waiting(u) /\ Unsent(v) = Unsent(u)
        BY <2>2 DEF Waiting, Unsent
  <2>5. Packet(v) = <<>>
        BY <2>2, <2>3, NothingInPacket
  <2>6. Transfer(v)
        BY <2>2 DEF Transfer
  <2>7. Held(v) = Waiting(u) /\ Held(v) <= Held(u)
        BY <1>1, <2>2, <2>4 DEF Held
  <2>8. ASSUME InFlow(u)
        PROVE  InFlow(v) /\ Holding(v) = Unsent(u)
    <3>1. /\ Unsent(u) \in Seq(Items) /\ Held(u) < AppSize /\ Held(u) \in Nat
          BY <1>1, <2>8 DEF InFlow, Held
    <3>2. InFlow(v)
          BY <1>1, <2>2, <2>4, <2>5, <2>7, <3>1, Sizes DEF InFlow
    <3>3. Holding(v) = Packet(v) \o Unsent(v)
          BY DEF Holding, Unsent
    <3> QED  BY <2>4, <2>5, <3>1, <3>2, <3>3, ConcatEmptySeq
  <2> QED  BY <1>1, <2>6, <2>7, <2>8 DEF v
<1>3. CASE u.length # 0
  <2>1. v = StartPacket(u)
        BY <1>3 DEF usbd_cdc_DataIn
  <2>2. Transfer(v)
    <3> DEFINE n == IF u.length > PacketSize THEN PacketSize ELSE u.length
    <3>1. n \in Nat /\ n > 0
          BY <1>1, <1>3, Sizes
    <3>2. /\ v.packet.ptr = u.ptr_out /\ v.packet.len = n /\ v.ptr_out = u.ptr_out + n
          /\ v.state = u.state
          BY <2>1 DEF StartPacket, Inside, AppType
    <3> HIDE DEF n, v
    <3> QED  BY <3>1, <3>2 DEF Transfer
  <2>3. ASSUME InFlow(u)
        PROVE  /\ InFlow(v) /\ Held(v) = Waiting(u) /\ Held(v) <= Held(u)
               /\ Holding(v) = Unsent(u)
    <3>1. InFlow(v) /\ Held(v) = Waiting(u) /\ Unsent(u) = Packet(v) \o Unsent(v)
          BY <2>1, <2>3, StartPacketKeeps DEF InFlow
    <3>2. Holding(v) = Packet(v) \o Unsent(v)
          BY DEF Holding, Unsent
    <3> HIDE DEF v
    <3> QED  BY <1>1, <3>1, <3>2 DEF Held
  <2> QED  BY <1>1, <2>2, <2>3
<1> QED  BY <1>2, <1>3

LEMMA XferKeeps ==
    ASSUME NEW u, Inside(u), Transfer(u)
    PROVE  LET v == Handle_USBAsynchXfer(u)
           IN  /\ Transfer(v)
               /\ InFlow(u) => InFlow(v) /\ Held(v) = Held(u) /\ Holding(v) = Holding(u)
<1> DEFINE v   == Handle_USBAsynchXfer(u)
           out == IF u.ptr_out = AppSize THEN 0 ELSE u.ptr_out
           len == IF out > u.ptr_in THEN AppSize - out ELSE u.ptr_in - out
           w   == [u EXCEPT !.ptr_out = out]
           x   == [u EXCEPT !.ptr_out = out, !.state = 1, !.length = len]
<1>1. /\ u.ptr_out \in 0 .. AppSize /\ u.ptr_in \in 0 .. AppSize - 1
      /\ u.packet.len \in Nat /\ u.length \in Nat
      BY Sizes DEF Inside, AppType
<1>2. CASE u.state = 1
  <2>1. v = u
        BY <1>2 DEF Handle_USBAsynchXfer
  <2> QED  BY <2>1
<1>3. CASE u.state # 1
  <2>1. v = IF out = u.ptr_in THEN w ELSE StartPacket(x)
        BY <1>3 DEF Handle_USBAsynchXfer
  <2>2. u.packet.len = 0 /\ u.length = 0
        BY <1>1, <1>3 DEF Transfer
  <2>3. out \in 0 .. AppSize - 1 /\ len \in 0 .. AppSize /\ out + len <= AppSize
        /\ (out # u.ptr_in => len > 0)
        BY <1>1, Sizes
  <2>4. InFlow(u) => Holding(u) = Unsent(u)
    <3>1. Packet(u) = <<>>
          BY <2>2, NothingInPacket
    <3>2. Holding(u) = Packet(u) \o Unsent(u)
          BY DEF Holding, Unsent
    <3> QED  BY <3>1, <3>2, ConcatEmptySeq DEF InFlow
  <2>5. Held(u) = Waiting(u)
        BY <2>2, WaitingIs DEF Held
  \* Where the buffer ends it begins.
  <2>6. ASSUME NEW y, Inside(y), y.ptr_out = out, y.ptr_in = u.ptr_in, y.buf = u.buf
        PROVE  Waiting(y) = Waiting(u) /\ Unsent(y) = Unsent(u)
    <3>1. Waiting(y) = Waiting(u)
          BY <1>1, <2>6, WaitingIs, Sizes
    <3>2. CASE u.ptr_out # AppSize
          BY <2>6, <3>1, <3>2 DEF Unsent
    <3>3. CASE u.ptr_out = AppSize
      <4>1. ASSUME NEW i \in 1 .. Waiting(u)
            PROVE  (out + i - 1) % AppSize = (u.ptr_out + i - 1) % AppSize
        <5>1. i - 1 \in 0 .. AppSize - 1 /\ u.ptr_out + i - 1 \in AppSize .. 2 * AppSize - 1
              /\ i - 1 \in Int /\ u.ptr_out + i - 1 \in Int /\ out + i - 1 = i - 1
              /\ (u.ptr_out + i - 1) - AppSize = i - 1
              BY <3>3, WaitingIs, Sizes
        <5> HIDE DEF out
        <5>2. (i - 1) % AppSize = i - 1
              BY <5>1, Modulo
        <5>3. (u.ptr_out + i - 1) % AppSize = i - 1
              BY <5>1, Modulo
        <5> QED  BY <5>1, <5>2, <5>3
      <4> HIDE DEF out
      <4> QED  BY <2>6, <3>1, <4>1 DEF Unsent
    <3> QED  BY <3>2, <3>3
  <2>7. CASE out = u.ptr_in
    <3>1. v = w
          BY <2>1, <2>7
    <3>2. Inside(w)
      <4>1. Inside(v)
            BY TransferInside
      <4> HIDE DEF v, w
      <4> QED  BY <3>1, <4>1
    <3>3. /\ w.ptr_out = out /\ w.ptr_in = u.ptr_in /\ w.buf = u.buf /\ w.packet = u.packet
          /\ w.length = u.length /\ w.state = u.state
          BY DEF Inside, AppType
    <3> HIDE DEF v, out, w
    <3>4. Waiting(w) = Waiting(u) /\ Unsent(w) = Unsent(u) /\ Packet(w) = Packet(u)
      <4>1. Waiting(w) = Waiting(u) /\ Unsent(w) = Unsent(u)
            BY <2>6, <3>2, <3>3
      <4>2. Packet(w) = Packet(u)
            BY <3>3 DEF Packet
      <4> QED  BY <4>1, <4>2
    <3>5. Transfer(w)
          BY <2>2, <3>3 DEF Transfer
    <3>6. InFlow(u) => InFlow(w)
          BY <3>3, <3>4 DEF InFlow, Held
    <3>7. Held(w) = Held(u) /\ Holding(w) = Holding(u)
          BY <3>3, <3>4 DEF Held, Holding, Unsent
    <3> QED  BY <3>1, <3>5, <3>6, <3>7 DEF v
  <2>8. CASE out # u.ptr_in
    <3>1. v = StartPacket(x)
          BY <2>1, <2>8
    <3>2. Inside(x)
      <4> HIDE DEF len
      <4>1. out \in 0 .. AppSize
            BY <2>3, Sizes
      <4> HIDE DEF out
      <4> QED  BY <2>3, <4>1 DEF Inside, AppType
    <3>3. /\ x.ptr_out = out /\ x.ptr_in = u.ptr_in /\ x.buf = u.buf
          /\ x.length = len /\ x.state = 1
          BY DEF Inside, AppType
    <3>4. Waiting(x) = Waiting(u) /\ Unsent(x) = Unsent(u)
      <4> HIDE DEF v, out, x, len
      <4> QED  BY <2>6, <3>2, <3>3
    <3>5. x.length <= Waiting(x)
      <4>1. Waiting(x) = IF x.ptr_in >= x.ptr_out THEN x.ptr_in - x.ptr_out
                                                 ELSE x.ptr_in - x.ptr_out + AppSize
            BY <3>2, WaitingIs
      <4> HIDE DEF x
      <4> QED  BY <1>1, <2>3, <3>3, <4>1, Sizes
    <3>6. Transfer(v)
      <4> DEFINE n == IF x.length > PacketSize THEN PacketSize ELSE x.length
      <4>1. n \in Nat /\ n > 0
        <5> HIDE DEF x, len
        <5> QED  BY <2>3, <2>8, <3>3, Sizes
      <4> HIDE DEF out, len
      <4>2. /\ v.packet.ptr = x.ptr_out /\ v.packet.len = n /\ v.ptr_out = x.ptr_out + n
            /\ v.state = x.state
        <5> HIDE DEF x, v
        <5> QED  BY <3>1, <3>2 DEF StartPacket, Inside, AppType
      <4> HIDE DEF n, v, x
      <4> QED  BY <3>3, <4>1, <4>2 DEF Transfer
    <3>7. ASSUME InFlow(u)
          PROVE  InFlow(v) /\ Held(v) = Held(u) /\ Holding(v) = Holding(u)
      <4> HIDE DEF x, v, out, len
      <4>1. Unsent(x) \in Seq(Items)
            BY <3>4, <3>7 DEF InFlow
      <4>2. InFlow(v) /\ Held(v) = Waiting(x) /\ Unsent(x) = Packet(v) \o Unsent(v)
            BY <3>1, <3>2, <3>5, <4>1, StartPacketKeeps
      <4>3. Holding(v) = Packet(v) \o Unsent(v)
            BY DEF Holding, Unsent
      <4> QED  BY <2>4, <2>5, <3>4, <3>7, <4>2, <4>3
    <3> QED  BY <3>6, <3>7 DEF v
  <2> QED  BY <2>7, <2>8
<1> QED  BY <1>1, <1>2, <1>3 DEF Inside, AppType

\* What is put in comes behind what waits, and writes over nothing.
LEMMA DataTxKeeps ==
    ASSUME NEW u, Inside(u), Transfer(u), NEW items \in Seq(Items)
    PROVE  LET v == VCP_DataTx(u, items)
           IN  /\ Transfer(v)
               /\ InFlow(u) /\ Held(u) + Len(items) < AppSize =>
                     InFlow(v) /\ Holding(v) = Holding(u) \o items
<1> DEFINE v == VCP_DataTx(u, items)
<1>1. PICK A, out, in, len, ptr, W, n \in Nat :
         /\ A = AppSize /\ A > 0 /\ n = Len(items)
         /\ u.ptr_out = out /\ u.ptr_in = in /\ u.packet.ptr = ptr /\ u.packet.len = len
         /\ out <= A /\ in < A /\ ptr + len <= A /\ W < A /\ Waiting(u) = W
         /\ \/ in >= out /\ W = in - out
            \/ in < out /\ W = in - out + A
  <2>1. /\ u.ptr_out \in Nat /\ u.ptr_in \in Nat /\ u.packet.len \in Nat /\ u.packet.ptr \in Nat
        /\ u.ptr_out <= AppSize /\ u.ptr_in < AppSize /\ u.packet.ptr + u.packet.len <= AppSize
        /\ Len(items) \in Nat
        BY Sizes, LenProperties DEF Inside, AppType
  <2>2. Waiting(u) \in Nat /\ Waiting(u) < AppSize
        BY WaitingIs, Sizes
  <2>3. \/ u.ptr_in >= u.ptr_out /\ Waiting(u) = u.ptr_in - u.ptr_out
        \/ u.ptr_in < u.ptr_out /\ Waiting(u) = u.ptr_in - u.ptr_out + AppSize
        BY <2>1, WaitingIs
  <2> QED  BY <2>1, <2>2, <2>3, Sizes
<1> DEFINE M(a) == a % A
<1>2. /\ v.ptr_out = out /\ v.ptr_in = M(in + n) /\ v.packet = u.packet
      /\ v.length = u.length /\ v.state = u.state
      BY <1>1 DEF VCP_DataTx, Inside, AppType
<1>3. \A i \in 0 .. A - 1 :
          v.buf[i] = IF M(i - in) < n THEN items[M(i - in) + 1] ELSE u.buf[i]
  <2>1. v.buf = [i \in DOMAIN u.buf |->
                   IF M(i - in) < n THEN items[M(i - in) + 1] ELSE u.buf[i]]
        BY <1>1 DEF VCP_DataTx, Inside, AppType
  <2>2. DOMAIN u.buf = 0 .. A - 1
        BY <1>1 DEF Inside, AppType
  <2> HIDE DEF v
  <2> QED  BY <2>1, <2>2
<1>4. Inside(v)
      BY DataTxInside
<1>5. \A a \in Int : /\ a \in 0 .. A - 1 => M(a) = a
                     /\ a \in A .. 2 * A - 1 => M(a) = a - A
                     /\ a \in -A .. -1 => M(a) = a + A
                     /\ M(a) \in 0 .. A - 1
      BY <1>1, Modulo, Remainder
<1> HIDE DEF M, v
<1>6. /\ A > 0 /\ out <= A /\ in < A /\ ptr + len <= A /\ W < A
      /\ \/ in >= out /\ W = in - out
         \/ in < out /\ W = in - out + A
      BY <1>1
<1>7. Transfer(v)
  <2>1. /\ v.ptr_out = u.ptr_out /\ v.packet = u.packet
        /\ v.length = u.length /\ v.state = u.state
        BY <1>1, <1>2
  <2> QED  BY <2>1 DEF Transfer
<1>8. ASSUME InFlow(u), Held(u) + Len(items) < AppSize
      PROVE  InFlow(v) /\ Holding(v) = Holding(u) \o items
  <2>1. len + W + n < A /\ u.length <= W
        BY <1>1, <1>8 DEF InFlow, Held
  <2>2. /\ Packet(u) \in Seq(Items) /\ Unsent(u) \in Seq(Items)
        /\ Len(Packet(u)) = len /\ Len(Unsent(u)) = W
        BY <1>1, <1>8, PacketIs, UnsentIs DEF InFlow, Held
  <2>3. v.ptr_in = IF in + n < A THEN in + n ELSE in + n - A
    <3>1. in + n \in 0 .. A - 1 \/ in + n \in A .. 2 * A - 1
          BY <1>6, <2>1
    <3> QED  BY <1>6, <1>2, <1>5, <3>1
  <2>4. Waiting(v) = W + n
    <3>1. Waiting(v) = IF v.ptr_in >= v.ptr_out THEN v.ptr_in - v.ptr_out
                                                ELSE v.ptr_in - v.ptr_out + A
      <4>1. Waiting(v) = IF v.ptr_in >= v.ptr_out THEN v.ptr_in - v.ptr_out
                                                  ELSE v.ptr_in - v.ptr_out + AppSize
            BY <1>4, WaitingIs
      <4> QED  BY <1>1, <4>1
    <3>2. v.ptr_out = out
          BY <1>2
    <3>3. CASE in + n < A
      <4>1. v.ptr_in = in + n
            BY <2>3, <3>3
      <4>2. CASE in >= out /\ W = in - out
            BY <3>1, <3>2, <4>1, <4>2
      <4>3. CASE in < out /\ W = in - out + A
        <5>1. ~(in + n >= out)
              BY <2>1, <4>3
        <5>2. Waiting(v) = (in + n) - out + A
              BY <3>1, <3>2, <4>1, <5>1
        <5> QED  BY <4>3, <5>2
      <4> QED  BY <1>6, <4>2, <4>3
    <3>4. CASE ~(in + n < A)
      <4>1. v.ptr_in = in + n - A
            BY <2>3, <3>4
      <4>2. in >= out /\ W = in - out
            BY <1>6, <2>1, <3>4
      <4>3. ~(in + n - A >= out)
            BY <1>6, <2>1, <4>2
      <4>4. Waiting(v) = (in + n - A) - out + A
            BY <3>1, <3>2, <4>1, <4>3
      <4> QED  BY <4>2, <4>4
    <3> QED  BY <3>3, <3>4
  \* A slot that holds something is not one of those written.
  <2>5. ASSUME NEW i \in 0 .. A - 1, NEW j \in 1 .. len + W, i = M(out + W - j)
        PROVE  v.buf[i] = u.buf[i]
    <3>1. \/ out + W - j \in 0 .. A - 1
          \/ out + W - j \in A .. 2 * A - 1
          \/ out + W - j \in -A .. -1
          BY <1>6, <2>1
    <3>2. i = out + W - j \/ i = out + W - j - A \/ i = out + W - j + A
      <4>1. out + W - j \in Int
            OBVIOUS
      <4> QED  BY <1>5, <2>5, <3>1, <4>1
    <3>3. i - in = -j \/ i - in = A - j
          BY <1>6, <2>1, <3>2
    <3>4. M(-j) = A - j /\ M(A - j) = A - j
      <4>1. -j \in Int /\ A - j \in Int /\ -j \in -A .. -1 /\ A - j \in 0 .. A - 1
            BY <1>6, <2>1
      <4> QED  BY <1>5, <4>1
    <3>5. M(i - in) = A - j /\ ~(A - j < n)
          BY <2>1, <3>3, <3>4
    <3> QED  BY <1>3, <3>5
  <2>6. Packet(v) = Packet(u)
    <3>1. ASSUME NEW i \in 1 .. len  PROVE v.buf[ptr + i - 1] = u.buf[ptr + i - 1]
      <4>1. ptr + len = out
            BY <1>1 DEF Transfer
      <4>2. /\ ptr + i - 1 \in 0 .. A - 1 /\ ptr + i - 1 \in Int
            /\ len - i + 1 + W \in 1 .. len + W
            /\ out + W - (len - i + 1 + W) = ptr + i - 1
            BY <1>6, <4>1
      <4>3. ptr + i - 1 = M(out + W - (len - i + 1 + W))
            BY <1>5, <4>2
      <4> QED  BY <2>5, <4>2, <4>3
    <3> QED  BY <1>1, <1>2, <3>1 DEF Packet
  <2>7. ASSUME NEW i \in 1 .. W  PROVE Unsent(v)[i] = Unsent(u)[i]
    <3> DEFINE s == M(out + i - 1)
    <3>1. s \in 0 .. A - 1
          BY <1>5
    <3>2. W - i + 1 \in 1 .. len + W /\ out + W - (W - i + 1) = out + i - 1
          OBVIOUS
    <3>3. s = M(out + W - (W - i + 1))
          BY <3>2
    <3> HIDE DEF s
    <3>4. v.buf[s] = u.buf[s]
          BY <2>5, <3>1, <3>2, <3>3
    <3>5. i \in 1 .. Waiting(v) /\ i \in 1 .. Waiting(u)
          BY <1>1, <2>4
    <3>6. Unsent(v)[i] = v.buf[s] /\ Unsent(u)[i] = u.buf[s]
          BY <1>1, <1>2, <1>4, <3>5, UnsentIs DEF s, M
    <3> QED  BY <3>4, <3>6
  <2>8. ASSUME NEW i \in 1 .. n  PROVE Unsent(v)[W + i] = items[i]
    <3> DEFINE s == M(out + (W + i) - 1)
    <3>1. out + (W + i) - 1 \in Int
          /\ (out + (W + i) - 1 \in 0 .. A - 1 \/ out + (W + i) - 1 \in A .. 2 * A - 1)
          BY <1>6, <2>1
    <3>2. s = out + (W + i) - 1 \/ s = out + (W + i) - 1 - A
          BY <1>5, <3>1
    <3>3. s \in 0 .. A - 1
          BY <1>5, <3>1
    <3> HIDE DEF s
    <3>4. s - in = i - 1 \/ s - in = i - 1 - A
          BY <1>6, <2>1, <3>2, <3>3
    <3>5. M(i - 1) = i - 1 /\ M(i - 1 - A) = i - 1
      <4>1. i - 1 \in Int /\ i - 1 \in 0 .. A - 1 /\ i - 1 - A \in Int /\ i - 1 - A \in -A .. -1
            BY <1>6, <2>1
      <4> QED  BY <1>5, <4>1
    <3>6. M(s - in) = i - 1 /\ i - 1 < n /\ (i - 1) + 1 = i
          BY <3>4, <3>5
    <3>7. v.buf[s] = items[i]
          BY <1>3, <3>3, <3>6
    <3>8. W + i \in 1 .. Waiting(v)
          BY <2>4
    <3>9. Unsent(v)[W + i] = v.buf[s]
          BY <1>1, <1>2, <1>4, <3>8, UnsentIs DEF s, M
    <3> QED  BY <3>7, <3>9
  <2>9. Unsent(v) \in Seq(Items) /\ Unsent(v) = Unsent(u) \o items
    <3>1. /\ \A i \in 1 .. W : Unsent(u)[i] \in Items
          /\ \A i \in 1 .. n : items[i] \in Items
          BY <1>1, <2>2, ElementOfSeq
    <3>2. ASSUME NEW i \in 1 .. W + n  PROVE Unsent(v)[i] \in Items
      <4>1. CASE i <= W
            BY <2>7, <3>1, <4>1
      <4>2. CASE i > W
        <5>1. PICK j \in 1 .. n : W + j = i
          <6>1. i - W \in 1 .. n /\ W + (i - W) = i
                BY <4>2
          <6> QED  BY <6>1
        <5> QED  BY <2>8, <3>1, <5>1
      <4> QED  BY <4>1, <4>2
    <3>3. Unsent(v) \in Seq(Items) /\ Len(Unsent(v)) = W + n
      <4>1. Unsent(v) = [i \in 1 .. W + n |-> Unsent(v)[i]]
            BY <1>4, <2>4, UnsentIs
      <4>2. W + n \in Nat
            OBVIOUS
      <4> QED  BY <3>2, <4>1, <4>2, Pieces
    <3>4. \A i \in 1 .. Len(Unsent(u)) : Unsent(v)[i] = Unsent(u)[i]
          BY <2>2, <2>7
    <3>5. \A i \in 1 .. Len(items) : Unsent(v)[Len(Unsent(u)) + i] = items[i]
          BY <1>1, <2>2, <2>8
    <3>6. Len(Unsent(v)) = Len(Unsent(u)) + Len(items)
          BY <1>1, <2>2, <3>3
    <3> QED  BY <2>2, <3>3, <3>4, <3>5, <3>6, Joined
  <2>10. InFlow(v)
    <3>1. v.length <= Waiting(v)
      <4>1. u.length \in Nat
            BY Sizes DEF Inside, AppType
      <4> QED  BY <1>2, <2>1, <2>4, <4>1
    <3>2. Held(v) < A
          BY <1>1, <1>2, <2>1, <2>4 DEF Held
    <3> QED  BY <1>1, <2>2, <2>6, <2>9, <3>1, <3>2 DEF InFlow
  <2>11. Holding(v) = Holding(u) \o items
    <3>1. Holding(v) = Packet(v) \o Unsent(v) /\ Holding(u) = Packet(u) \o Unsent(u)
          BY DEF Holding, Unsent
    <3>2. Packet(u) \o (Unsent(u) \o items) = (Packet(u) \o Unsent(u)) \o items
          BY <2>2, ConcatAssociative
    <3> QED  BY <2>6, <2>9, <3>1, <3>2
  <2> QED  BY <2>10, <2>11
<1> QED  BY <1>7, <1>8 DEF v

-----------------------------------------------------------------------------
(* What is written                                                         *)

\* Between the carriage return of a newline and the newline, the newline is next.
AtNewline(k) == task[k].pc \in {"cr_set", "char"} => Head(task[k].src) = LF

\* After an overrun nothing is owed until the history begins again.
OutInv ==
    /\ Transfer(app)
    /\ use.dev = "usb" => tdr = <<>>
    /\ \A k \in Tasks : AtNewline(k)
    /\ owed \in [Tasks -> Seq(Char)]
    /\ lapped => use.dev = "usb" /\ owed = [k \in Tasks |-> <<>>]
    /\ ~lapped => /\ InFlow(app)
                  /\ \A k \in Tasks : owed[k] = CharsOf(k, UnderWay) \o Unqueued(k)

LEMMA TwoChars ==
    ASSUME NEW a \in Char, NEW b \in Char
    PROVE  <<a, b>> = <<a>> \o <<b>>
<1> DEFINE w == <<a>> \o <<b>>
           v == <<a, b>>
<1>1. <<b>> \in Seq(Char) /\ Len(<<b>>) = 1 /\ <<b>>[1] = b
      OBVIOUS
<1>2. /\ w \in Seq(Char) /\ Len(w) = Len(<<b>>) + 1 /\ w[1] = a
      /\ \A i \in 1 .. Len(<<b>>) : w[i + 1] = <<b>>[i]
      BY <1>1, FirstAndRest
<1>3. v \in Seq(Char) /\ Len(v) = 2 /\ v[1] = a /\ v[2] = b
      OBVIOUS
<1> HIDE DEF w, v
<1>4. Len(w) = 2 /\ w[2] = b
      BY <1>1, <1>2
<1>5. w = v
      BY <1>2, <1>3, <1>4, SeqEqual
<1> QED  BY <1>5 DEF w, v

\* A newline has its carriage return before it.
LEMMA CrLfOfNewline ==
    ASSUME NEW s \in Seq(Letters \cup {LF}), s # <<>>, Head(s) = LF
    PROVE  /\ Tail(CrLf(s)) = <<LF>> \o CrLf(Tail(s))
           /\ CrLf(s) = <<CR>> \o Tail(CrLf(s))
<1> DEFINE t == CrLf(Tail(s))
<1>1. t \in Seq(Char) /\ CrLf(s) = Prefixed(LF) \o t
      BY CrLfPieces, HeadTailProperties
<1>2. CR \in Char /\ LF \in Char /\ Prefixed(LF) = <<CR, LF>>
      BY DEF Char, Prefixed
<1> HIDE DEF t
<1>3. <<CR>> \in Seq(Char) /\ <<LF>> \in Seq(Char)
      BY <1>2
<1>4. CrLf(s) = <<CR>> \o (<<LF>> \o t)
  <2>1. (<<CR>> \o <<LF>>) \o t = <<CR>> \o (<<LF>> \o t)
        BY <1>1, <1>3, ConcatAssociative
  <2> QED  BY <1>1, <1>2, <2>1, TwoChars
<1>5. <<LF>> \o t \in Seq(Char)
      BY <1>1, <1>3, ConcatProperties
<1>6. Tail(CrLf(s)) = <<LF>> \o t
      BY <1>2, <1>4, <1>5, FirstAndRest
<1> QED  BY <1>4, <1>6 DEF t

LEMMA CrLfOfLetter ==
    ASSUME NEW s \in Seq(Letters \cup {LF}), s # <<>>, Head(s) # LF
    PROVE  CrLf(s) = <<Head(s)>> \o CrLf(Tail(s))
BY CrLfPieces DEF Prefixed

LEMMA UnqueuedType ==
    ASSUME IInv, NEW k \in Tasks
    PROVE  Unqueued(k) \in Seq(Char)
<1> DEFINE s == task[k].src
<1>1. s \in Seq(Letters \cup {LF}) /\ (Writing(k) => s # <<>>)
      BY Parts DEF IInv, TaskOK, TaskType, WritersHaveText
<1> HIDE DEF s
<1>2. CrLf(s) \in Seq(Char)
      BY <1>1, CrLfPieces
<1>3. s # <<>> => CrLf(Tail(s)) \in Seq(Char)
      BY <1>1, CrLfPieces, HeadTailProperties
<1>4. s # <<>> => CrLf(s) # <<>>
  <2> SUFFICES ASSUME s # <<>>  PROVE CrLf(s) # <<>>
      OBVIOUS
  <2>1. PICK c \in Char, t \in Seq(Char) : CrLf(s) = <<c>> \o t
    <3>1. CASE Head(s) = LF
      <4>1. CrLf(s) = <<CR>> \o Tail(CrLf(s)) /\ Tail(CrLf(s)) = <<LF>> \o CrLf(Tail(s))
            BY <1>1, <3>1, CrLfOfNewline
      <4>2. CR \in Char /\ LF \in Char
            BY DEF Char
      <4>3. CrLf(Tail(s)) \in Seq(Char)
            BY <1>3
      <4>4. <<LF>> \o CrLf(Tail(s)) \in Seq(Char)
            BY <4>2, <4>3, FirstAndRest
      <4>5. Tail(CrLf(s)) \in Seq(Char)
            BY <4>1, <4>4
      <4> QED  BY <4>1, <4>2, <4>5
    <3>2. CASE Head(s) # LF
      <4>1. CrLf(s) = <<Head(s)>> \o CrLf(Tail(s)) /\ Head(s) \in Letters \cup {LF}
            BY <1>1, <3>2, CrLfOfLetter, HeadTailProperties
      <4> QED  BY <1>3, <4>1 DEF Char
    <3> QED  BY <3>1, <3>2
  <2> QED  BY <2>1, FirstAndRest
<1>5. s # <<>> => Tail(CrLf(s)) \in Seq(Char)
      BY <1>2, <1>4, HeadTailProperties
<1>6. <<>> \in Seq(Char)
      OBVIOUS
<1>7. task[k].pc \in {"cr_set", "char", "char_set"} => s # <<>>
      BY <1>1 DEF Writing, WriteLabels
<1> QED  BY <1>2, <1>3, <1>5, <1>6, <1>7 DEF Unqueued, s

LEMMA OutTypes ==
    ASSUME IInv, OutInv
    PROVE  /\ tx_queue \in Seq(Items) /\ tdr \in Seq(Items) /\ Inside(app)
           /\ ~lapped => /\ Holding(app) \in Seq(Items) /\ UnderWay \in Seq(Items)
                         /\ Packet(app) \in Seq(Items)
<1>1. tx_queue \in Seq(Items) /\ tdr \in Seq(Items) /\ Inside(app)
      BY Parts, Singleton DEF IInv, TxOK, UsartOK
<1>2. ASSUME ~lapped
      PROVE  /\ Holding(app) \in Seq(Items) /\ UnderWay \in Seq(Items)
             /\ Packet(app) \in Seq(Items)
  <2>1. Packet(app) \in Seq(Items) /\ Unsent(app) \in Seq(Items)
        BY <1>2 DEF OutInv, InFlow
  <2>2. Holding(app) = Packet(app) \o Unsent(app)
        BY DEF Holding, Unsent
  <2>3. Holding(app) \in Seq(Items)
        BY <2>1, <2>2, ConcatProperties
  <2>4. UnderWay \in Seq(Items)
        BY <1>1, <2>3, ConcatProperties DEF UnderWay
  <2> QED  BY <2>1, <2>3, <2>4
<1> QED  BY <1>1, <1>2

LEMMA OutInit ==
    ASSUME Init
    PROVE  OutInv
<1>1. IInv
      BY InitIInv
<1>2. /\ tx_queue = <<>> /\ tdr = <<>> /\ ~lapped
      /\ app.ptr_in = 0 /\ app.ptr_out = 0 /\ app.length = 0 /\ app.state = 0 /\ app.packet = NoPacket
      /\ owed = [k \in Tasks |-> <<>>]
      /\ \A k \in Tasks : task[k].pc = "idle"
      BY DEF Init
<1>3. Inside(app)
      BY <1>1, Parts DEF IInv
<1>4. app.packet.len = 0 /\ Waiting(app) = 0
      BY <1>2, <1>3, WaitingIs, Sizes DEF NoPacket
<1>5. Transfer(app)
      BY <1>2, <1>4 DEF Transfer
<1>6. Packet(app) = <<>> /\ Unsent(app) = <<>> /\ Holding(app) = <<>>
  <2>1. Packet(app) = <<>>
        BY <1>3, <1>4, NothingInPacket
  <2>2. Unsent(app) = <<>>
        BY <1>4 DEF Unsent
  <2>3. Holding(app) = Packet(app) \o Unsent(app)
        BY DEF Holding, Unsent
  <2> QED  BY <2>1, <2>2, <2>3
<1>7. <<>> \in Seq(Items) /\ <<>> \in Seq(Char)
      OBVIOUS
<1>8. InFlow(app)
      BY <1>2, <1>4, <1>6, <1>7, Sizes DEF InFlow, Held
<1>9. UnderWay = <<>>
      BY <1>2, <1>6 DEF UnderWay
<1>10. ASSUME NEW k \in Tasks
       PROVE  owed[k] = CharsOf(k, UnderWay) \o Unqueued(k) /\ AtNewline(k)
  <2>1. CharsOf(k, UnderWay) = <<>>
        BY <1>9, CharsOfNone
  <2>2. Unqueued(k) = <<>> /\ AtNewline(k)
        BY <1>2 DEF Unqueued, AtNewline
  <2> QED  BY <1>2, <2>1, <2>2
<1> QED  BY <1>2, <1>5, <1>7, <1>8, <1>10 DEF OutInv

LEMMA UnqueuedKept ==
    ASSUME NEW k \in Tasks, task'[k] = task[k]
    PROVE  Unqueued(k)' = Unqueued(k) /\ (AtNewline(k)' <=> AtNewline(k))
BY DEF Unqueued, AtNewline, CrLf

LEMMA UnderWayNext ==
    UnderWay' = (IF use'.dev = "xbee" THEN tdr' ELSE Holding(app')) \o tx_queue'
BY DEF UnderWay, Holding, Packet, Waiting

\* What is to be shown of a step.
LEMMA OutNext ==
    ASSUME Transfer(app'), use'.dev = "usb" => tdr' = <<>>, \A k \in Tasks : AtNewline(k)',
           owed' \in [Tasks -> Seq(Char)],
           lapped' => use'.dev = "usb" /\ owed' = [k \in Tasks |-> <<>>],
           ~lapped' => /\ InFlow(app')
                       /\ \A k \in Tasks : owed'[k] = CharsOf(k, UnderWay') \o Unqueued(k)'
    PROVE  OutInv'
<1>1. Transfer(app)' /\ (~lapped' => InFlow(app)')
      BY DEF Transfer, InFlow, Held, Waiting, Packet, Unsent
<1>2. \A k \in Tasks : CharsOf(k, UnderWay)' = CharsOf(k, UnderWay')
      BY DEF CharsOf
<1> QED  BY <1>1, <1>2 DEF OutInv

\* Steps that leave the output alone.
LEMMA OutKept ==
    ASSUME OutInv, UNCHANGED <<use, tx_queue, tdr, app, owed, lapped>>,
           \A k \in Tasks : Unqueued(k)' = Unqueued(k) /\ AtNewline(k)'
    PROVE  OutInv'
<1>1. UnderWay' = UnderWay
      BY UnderWayNext DEF UnderWay
<1>2. Transfer(app') /\ (~lapped' => InFlow(app'))
      BY DEF OutInv
<1> QED  BY <1>1, <1>2, OutNext DEF OutInv

\* Nothing is held, and nothing is left of a transfer.
LEMMA NothingHeld ==
    ASSUME IInv, OutInv, Held(app) = 0
    PROVE  InFlow(app) /\ Holding(app) = <<>>
<1>1. Inside(app) /\ Transfer(app)
      BY Parts DEF IInv, OutInv
<1>2. app.packet.len = 0 /\ Waiting(app) = 0
  <2>1. app.packet.len \in Nat /\ Waiting(app) \in Nat
        BY <1>1, WaitingIs, PacketIs, Sizes
  <2> QED  BY <2>1 DEF Held
<1>3. Packet(app) = <<>> /\ Unsent(app) = <<>>
  <2>1. Packet(app) = <<>>
        BY <1>1, <1>2, NothingInPacket
  <2>2. Unsent(app) = <<>>
        BY <1>2 DEF Unsent
  <2> QED  BY <2>1, <2>2
<1>4. Holding(app) = Packet(app) \o Unsent(app)
      BY DEF Holding, Unsent
<1>5. InFlow(app)
  <2>1. <<>> \in Seq(Items) /\ app.length = 0
        BY <1>1, <1>2 DEF Transfer
  <2> QED  BY <1>2, <1>3, <2>1, Sizes DEF InFlow
<1> QED  BY <1>3, <1>4, <1>5

\* A call adds its text to what is owed; after an overrun the first one that
\* finds nothing under way begins again.
LEMMA OutWrite ==
    ASSUME IInv, OutInv, NEW k \in Tasks, write_r(k)
    PROVE  OutInv'
<1>1. PICK text \in Texts : /\ task' = [task EXCEPT ![k] = [pc |-> "next", src |-> text]]
                            /\ Owe(k, text)
      BY DEF write_r
<1>2. /\ task[k].pc = "idle"
      /\ UNCHANGED <<use, tx_queue, tdr, app>>
      BY DEF write_r, usart
<1>3. task \in TaskType /\ text \in Seq(Letters \cup {LF}) /\ CrLf(text) \in Seq(Char)
      BY Parts, TerminalsAssumption, CrLfPieces DEF IInv, TaskOK
<1>4. /\ task'[k] = [pc |-> "next", src |-> text]
      /\ \A j \in Tasks \ {k} : task'[j] = task[j]
      BY <1>1, <1>3 DEF TaskType
<1>5. /\ Unqueued(k) = <<>> /\ Unqueued(k)' = CrLf(text) /\ AtNewline(k)'
      /\ \A j \in Tasks \ {k} : Unqueued(j)' = Unqueued(j) /\ AtNewline(j)'
  <2>1. Unqueued(k) = <<>>
        BY <1>2 DEF Unqueued
  <2>2. Unqueued(k)' = CrLf(text) /\ AtNewline(k)'
        BY <1>4 DEF Unqueued, AtNewline, CrLf
  <2>3. \A j \in Tasks \ {k} : Unqueued(j)' = Unqueued(j) /\ AtNewline(j)'
        BY <1>4, UnqueuedKept DEF OutInv
  <2> QED  BY <2>1, <2>2, <2>3
<1>6. UnderWay' = UnderWay
      BY <1>2, UnderWayNext DEF UnderWay
<1>7. CASE lapped'
  <2>1. lapped /\ owed' = owed
        BY <1>1, <1>7 DEF Owe
  <2> QED  BY <1>2, <1>5, <1>7, <2>1, OutNext DEF OutInv
<1>8. CASE ~lapped'
  <2>1. owed' = [owed EXCEPT ![k] = @ \o CrLf(text)]
        BY <1>1, <1>8 DEF Owe
  <2>2. /\ owed' \in [Tasks -> Seq(Char)] /\ owed'[k] = owed[k] \o CrLf(text)
        /\ \A j \in Tasks \ {k} : owed'[j] = owed[j]
    <3>1. owed \in [Tasks -> Seq(Char)]
          BY DEF OutInv
    <3>2. owed[k] \o CrLf(text) \in Seq(Char)
          BY <1>3, <3>1, ConcatProperties
    <3> QED  BY <2>1, <3>1, <3>2
  <2>3. InFlow(app) /\ UnderWay \in Seq(Items)
        /\ \A j \in Tasks : owed[j] = CharsOf(j, UnderWay) \o Unqueued(j)
    <3>1. CASE ~lapped
          BY <3>1, OutTypes DEF OutInv
    <3>2. CASE lapped
      <4>1. ~(Held(app) > 0) /\ tx_queue = <<>> /\ \A j \in Tasks : ~Writing(j)
            BY <1>1, <1>8, <3>2 DEF Owe
      <4>2. Held(app) = 0
        <5>1. Held(app) \in Nat
          <6>1. Inside(app)
                BY Parts DEF IInv
          <6>2. app.packet.len \in Nat /\ Waiting(app) \in Nat
                BY <6>1, WaitingIs, PacketIs, Sizes
          <6> QED  BY <6>2 DEF Held
        <5> QED  BY <4>1, <5>1
      <4>3. InFlow(app) /\ Holding(app) = <<>>
            BY <4>2, NothingHeld
      <4>4. use.dev = "usb" /\ owed = [j \in Tasks |-> <<>>]
            BY <3>2 DEF OutInv
      <4>5. UnderWay = <<>>
            BY <4>1, <4>3, <4>4 DEF UnderWay
      <4>6. ASSUME NEW j \in Tasks
            PROVE  CharsOf(j, UnderWay) = <<>> /\ Unqueued(j) = <<>>
            BY <4>1, <4>5, CharsOfNone DEF Unqueued, Writing, WriteLabels
      <4> QED  BY <4>3, <4>4, <4>5, <4>6
    <3> QED  BY <3>1, <3>2
  <2>4. owed'[k] = CharsOf(k, UnderWay) \o Unqueued(k)'
    <3>1. CharsOf(k, UnderWay) \in Seq(Char)
          BY <2>3, CharsOfType
    <3>2. owed[k] = CharsOf(k, UnderWay)
          BY <1>5, <2>3, <3>1, ConcatEmptySeq
    <3> QED  BY <1>5, <2>2, <3>2
  <2>5. \A j \in Tasks : owed'[j] = CharsOf(j, UnderWay') \o Unqueued(j)'
        BY <1>5, <1>6, <2>2, <2>3, <2>4
  <2> QED  BY <1>2, <1>5, <1>8, <2>2, <2>3, <2>5, OutNext DEF OutInv
<1> QED  BY <1>7, <1>8

\* A character goes from the call to the queue.
LEMMA OutQueued ==
    ASSUME IInv, OutInv, NEW k \in Tasks, NEW c \in Char, xQueueSend(k, c),
           \A j \in Tasks \ {k} : task'[j] = task[j],
           AtNewline(k)', Unqueued(k)' \in Seq(Char), Unqueued(k) = <<c>> \o Unqueued(k)'
    PROVE  OutInv'
<1> DEFINE x == [by |-> k, c |-> c]
           front == IF use.dev = "xbee" THEN tdr ELSE Holding(app)
<1>1. /\ x \in Items /\ tx_queue' = Append(tx_queue, x)
      /\ UNCHANGED <<use, tdr, app, owed, lapped>>
      BY DEF Items, xQueueSend, usart
<1>2. \A j \in Tasks : AtNewline(j)'
      BY UnqueuedKept DEF OutInv
<1>3. ASSUME ~lapped', NEW j \in Tasks
      PROVE  owed'[j] = CharsOf(j, UnderWay') \o Unqueued(j)'
  <2>1. /\ tx_queue \in Seq(Items) /\ front \in Seq(Items) /\ <<x>> \in Seq(Items)
        /\ UnderWay \in Seq(Items) /\ UnderWay = front \o tx_queue
        BY <1>1, <1>3, OutTypes DEF UnderWay
  <2>2. UnderWay' = front \o Append(tx_queue, x)
        BY <1>1, UnderWayNext
  <2> HIDE DEF x, front
  <2>3. UnderWay' = UnderWay \o <<x>>
    <3>1. Append(tx_queue, x) = tx_queue \o <<x>>
          BY <1>1, <2>1, AppendIsConcat
    <3>2. (front \o tx_queue) \o <<x>> = front \o (tx_queue \o <<x>>)
          BY <2>1, ConcatAssociative
    <3> QED  BY <2>1, <2>2, <3>1, <3>2
  <2>4. CharsOf(j, UnderWay') = CharsOf(j, UnderWay) \o CharOf(j, x)
    <3>1. CharsOf(j, UnderWay \o <<x>>) = CharsOf(j, UnderWay) \o CharsOf(j, <<x>>)
          BY <2>1, CharsOfConcat
    <3> QED  BY <1>1, <2>3, <3>1, CharsOfOne
  <2>5. owed[j] = CharsOf(j, UnderWay) \o Unqueued(j) /\ CharsOf(j, UnderWay) \in Seq(Char)
        BY <1>1, <1>3, <2>1, CharsOfType DEF OutInv
  <2>6. CASE j = k
    <3>1. CharOf(j, x) = <<c>> /\ <<c>> \in Seq(Char)
          BY <2>6 DEF CharOf, x
    <3>2. (CharsOf(k, UnderWay) \o <<c>>) \o Unqueued(k)'
            = CharsOf(k, UnderWay) \o (<<c>> \o Unqueued(k)')
          BY <2>5, <2>6, <3>1, ConcatAssociative
    <3> QED  BY <1>1, <2>4, <2>5, <2>6, <3>1, <3>2
  <2>7. CASE j # k
    <3>1. CharOf(j, x) = <<>>
          BY <2>7 DEF CharOf, x
    <3>2. CharsOf(j, UnderWay') = CharsOf(j, UnderWay)
          BY <2>4, <2>5, <3>1, ConcatEmptySeq
    <3>3. Unqueued(j)' = Unqueued(j)
          BY <2>7, UnqueuedKept
    <3> QED  BY <1>1, <2>5, <3>2, <3>3
  <2> QED  BY <2>6, <2>7
<1> QED  BY <1>1, <1>2, <1>3, OutNext DEF OutInv

\* What is left after the first character of a call's text.
LEMMA RestQueued ==
    ASSUME IInv, OutInv, NEW k \in Tasks, Writing(k), Advance(k) \/ Goto(k, "char_set")
    PROVE  /\ Unqueued(k)' = CrLf(Tail(task[k].src)) /\ Unqueued(k)' \in Seq(Char)
           /\ AtNewline(k)' /\ \A j \in Tasks \ {k} : task'[j] = task[j]
<1> DEFINE s == task[k].src
           rest == Tail(s)
<1>1. task \in TaskType /\ TaskOK /\ s \in Seq(Letters \cup {LF}) /\ s # <<>>
      BY Parts DEF IInv, TaskOK, TaskType, WritersHaveText
<1>2. rest \in Seq(Letters \cup {LF})
      BY <1>1, HeadTailProperties
<1>3. CrLf(rest) \in Seq(Char) /\ (rest = <<>> => CrLf(rest) = <<>>)
      BY <1>2, CrLfPieces
<1>4. CASE Goto(k, "char_set")
  <2>1. task' = [task EXCEPT ![k] = [pc |-> "char_set", src |-> s]]
        BY <1>1, <1>4, GotoUpdate
  <2>2. task'[k] = [pc |-> "char_set", src |-> s] /\ \A j \in Tasks \ {k} : task'[j] = task[j]
        BY <1>1, <2>1 DEF TaskType
  <2>3. Unqueued(k)' = CrLf(rest) /\ AtNewline(k)'
        BY <2>2 DEF Unqueued, AtNewline, CrLf
  <2> QED  BY <1>3, <2>2, <2>3
<1>5. CASE Advance(k)
  <2> DEFINE pc == IF rest = <<>> THEN "idle" ELSE "next"
  <2>1. task' = [task EXCEPT ![k] = [pc |-> pc, src |-> rest]]
        BY <1>5 DEF Advance
  <2> HIDE DEF rest
  <2>2. task'[k] = [pc |-> pc, src |-> rest] /\ \A j \in Tasks \ {k} : task'[j] = task[j]
        BY <1>1, <2>1 DEF TaskType
  <2>3. AtNewline(k)'
        BY <2>2 DEF AtNewline
  <2>4. Unqueued(k)' = CrLf(rest)
    <3>1. CASE rest = <<>>
      <4>1. Unqueued(k)' = <<>>
            BY <2>2, <3>1 DEF Unqueued
      <4> QED  BY <1>3, <3>1, <4>1
    <3>2. CASE rest # <<>>
          BY <2>2, <3>2 DEF Unqueued, CrLf
    <3> QED  BY <3>1, <3>2
  <2> QED  BY <1>3, <2>2, <2>3, <2>4 DEF rest
<1> QED  BY <1>4, <1>5

LEMMA OutSendCr ==
    ASSUME IInv, OutInv, NEW k \in Tasks, NEW then \in {"cr_set", "char"}, SendCr(k, then)
    PROVE  OutInv'
<1> DEFINE s == task[k].src
<1>1. /\ task[k].pc = "next" /\ Head(s) = LF /\ xQueueSend(k, CR) /\ Goto(k, then)
      /\ CR \in Char /\ LF \in Char
      BY DEF SendCr, Char
<1>2. task \in TaskType /\ TaskOK /\ s \in Seq(Letters \cup {LF}) /\ s # <<>>
      BY <1>1, Parts DEF IInv, TaskOK, TaskType, WritersHaveText, Writing, WriteLabels
<1>3. /\ Tail(CrLf(s)) = <<LF>> \o CrLf(Tail(s)) /\ CrLf(s) = <<CR>> \o Tail(CrLf(s))
      BY <1>1, <1>2, CrLfOfNewline
<1>4. Tail(CrLf(s)) \in Seq(Char)
  <2>1. CrLf(Tail(s)) \in Seq(Char)
        BY <1>2, HeadTailProperties, CrLfPieces
  <2>2. <<LF>> \o CrLf(Tail(s)) \in Seq(Char)
        BY <1>1, <2>1, FirstAndRest
  <2> QED  BY <1>3, <2>2
<1>5. /\ task'[k] = [pc |-> then, src |-> s] /\ \A j \in Tasks \ {k} : task'[j] = task[j]
  <2>1. task' = [task EXCEPT ![k] = [pc |-> then, src |-> s]]
        BY <1>1, <1>2, GotoUpdate
  <2> QED  BY <1>2, <2>1 DEF TaskType
<1>6. Unqueued(k) = CrLf(s)
      BY <1>1 DEF Unqueued
<1>7. Unqueued(k)' = Tail(CrLf(s)) /\ AtNewline(k)'
      BY <1>1, <1>5 DEF Unqueued, AtNewline, CrLf
<1> QED  BY <1>1, <1>3, <1>4, <1>5, <1>6, <1>7, OutQueued

LEMMA OutSendChar ==
    ASSUME IInv, OutInv, NEW k \in Tasks, SendChar(k), Advance(k) \/ Goto(k, "char_set")
    PROVE  OutInv'
<1> DEFINE s == task[k].src
<1>1. /\ Writing(k) /\ xQueueSend(k, Head(s))
      /\ task[k].pc = "char" \/ (task[k].pc = "next" /\ Head(s) # LF)
      BY DEF SendChar, Writing, WriteLabels
<1>2. TaskOK /\ WritersHaveText /\ s \in Seq(Letters \cup {LF}) /\ s # <<>>
      BY <1>1, Parts DEF IInv, TaskOK, TaskType, WritersHaveText
<1>3. Unqueued(k) = <<Head(s)>> \o CrLf(Tail(s))
  <2>1. CASE task[k].pc = "char"
    <3>1. Head(s) = LF
          BY <2>1 DEF OutInv, AtNewline
    <3>2. Unqueued(k) = Tail(CrLf(s))
          BY <2>1 DEF Unqueued
    <3> QED  BY <1>2, <3>1, <3>2, CrLfOfNewline
  <2>2. CASE task[k].pc = "next" /\ Head(s) # LF
    <3>1. Unqueued(k) = CrLf(s)
          BY <2>2 DEF Unqueued
    <3> QED  BY <1>2, <2>2, <3>1, CrLfOfLetter
  <2> QED  BY <1>1, <2>1, <2>2
<1>4. Head(s) \in Char
      BY <1>1, <1>2, HeadIsChar
<1>5. /\ Unqueued(k)' = CrLf(Tail(s)) /\ Unqueued(k)' \in Seq(Char)
      /\ AtNewline(k)' /\ \A j \in Tasks \ {k} : task'[j] = task[j]
      BY <1>1, RestQueued
<1> QED  BY <1>1, <1>3, <1>4, <1>5, OutQueued

LEMMA OutEnableTx ==
    ASSUME IInv, OutInv, NEW k \in Tasks, EnableTx(k)
    PROVE  OutInv'
<1> DEFINE s == task[k].src
<1>1. /\ Writing(k) /\ UNCHANGED <<use, tx_queue, tdr, app, owed, lapped>>
      /\ \/ task[k].pc = "cr_set" /\ Goto(k, "char")
         \/ task[k].pc = "char_set" /\ Advance(k)
      BY DEF EnableTx, Writing, WriteLabels
<1>2. /\ Unqueued(k)' = Unqueued(k) /\ AtNewline(k)'
      /\ \A j \in Tasks \ {k} : task'[j] = task[j]
  <2>1. CASE task[k].pc = "cr_set" /\ Goto(k, "char")
    <3>1. task \in TaskType /\ TaskOK
          BY Parts DEF IInv, TaskOK
    <3>2. task' = [task EXCEPT ![k] = [pc |-> "char", src |-> s]]
          BY <2>1, <3>1, GotoUpdate
    <3>3. task'[k] = [pc |-> "char", src |-> s] /\ \A j \in Tasks \ {k} : task'[j] = task[j]
          BY <3>1, <3>2 DEF TaskType
    <3>4. Head(s) = LF
          BY <2>1 DEF OutInv, AtNewline
    <3>5. Unqueued(k)' = Tail(CrLf(s)) /\ AtNewline(k)'
          BY <3>3, <3>4 DEF Unqueued, AtNewline, CrLf
    <3>6. Unqueued(k) = Tail(CrLf(s))
          BY <2>1 DEF Unqueued
    <3> QED  BY <3>3, <3>5, <3>6
  <2>2. CASE task[k].pc = "char_set" /\ Advance(k)
    <3>1. Unqueued(k) = CrLf(Tail(s))
          BY <2>2 DEF Unqueued
    <3> QED  BY <1>1, <2>2, <3>1, RestQueued
  <2> QED  BY <1>1, <2>1, <2>2
<1>3. \A j \in Tasks : Unqueued(j)' = Unqueued(j) /\ AtNewline(j)'
      BY <1>2, UnqueuedKept DEF OutInv
<1> QED  BY <1>1, <1>3, OutKept

LEMMA OutSend ==
    ASSUME IInv, OutInv, NEW k \in Tasks, TaskStep(k)
    PROVE  OutInv'
<1>1. CASE SendCr(k, "cr_set") \/ SendCr(k, "char")
      BY <1>1, OutSendCr
<1>2. CASE SendChar(k) /\ (Advance(k) \/ Goto(k, "char_set"))
      BY <1>2, OutSendChar
<1>3. CASE EnableTx(k)
      BY <1>3, OutEnableTx
<1> QED  BY <1>1, <1>2, <1>3 DEF TaskStep, xbee_write_r, usb_write_r

\* The shell writes nothing while it reads.
LEMMA OutRead ==
    ASSUME IInv, OutInv, read_r \/ ReadStep
    PROVE  OutInv'
<1>1. UNCHANGED <<use, tx_queue, tdr, app, owed, lapped>>
      BY DEF read_r, ReadStep, Receive, ReceiveNothing, output, usart
<1>2. PICK pc \in {"idle", "receive", "receive_next"} : Goto(Shell, pc)
      BY DEF read_r, ReadStep, Receive, ReceiveNothing, Store
<1>3. TaskOK /\ task \in TaskType /\ Shell \in Tasks
      BY Parts, TerminalsAssumption DEF IInv, TaskOK
<1>4. task' = [task EXCEPT ![Shell] = [pc |-> pc, src |-> task[Shell].src]]
      BY <1>2, <1>3, GotoUpdate
<1>5. /\ task'[Shell] = [pc |-> pc, src |-> task[Shell].src]
      /\ \A j \in Tasks \ {Shell} : task'[j] = task[j]
      BY <1>3, <1>4 DEF TaskType
<1>6. task[Shell].pc \in {"idle", "receive", "receive_next"}
      BY DEF read_r, ReadStep, Receive, ReceiveNothing
<1>7. Unqueued(Shell)' = Unqueued(Shell) /\ AtNewline(Shell)'
      BY <1>5, <1>6 DEF Unqueued, AtNewline
<1>8. \A j \in Tasks : Unqueued(j)' = Unqueued(j) /\ AtNewline(j)'
      BY <1>5, <1>7, UnqueuedKept DEF OutInv
<1> QED  BY <1>1, <1>8, OutKept

LEMMA OutInput ==
    ASSUME OutInv, UNCHANGED <<use, output, task>>
    PROVE  OutInv'
<1>1. UNCHANGED <<use, tx_queue, tdr, app, owed, lapped>>
      BY DEF output, usart
<1>2. \A j \in Tasks : Unqueued(j)' = Unqueued(j) /\ AtNewline(j)'
      BY UnqueuedKept DEF OutInv
<1> QED  BY <1>1, <1>2, OutKept

\* What was the first part of what is under way is not owed any longer.
LEMMA Delivered ==
    ASSUME NEW items \in Seq(Items), NEW rest \in Seq(Items), UnderWay = items \o rest,
           IInv, OutInv, ~lapped, Deliver(items), NEW k \in Tasks
    PROVE  owed'[k] = CharsOf(k, rest) \o Unqueued(k)
<1> DEFINE a == CharsOf(k, items)
           b == CharsOf(k, rest)
           u == Unqueued(k)
<1>1. a \in Seq(Char) /\ b \in Seq(Char) /\ u \in Seq(Char)
      BY CharsOfType, UnqueuedType
<1>2. owed[k] = (a \o b) \o u
  <2>1. owed[k] = CharsOf(k, UnderWay) \o u
        BY DEF OutInv
  <2>2. CharsOf(k, items \o rest) = a \o b
        BY CharsOfConcat
  <2> QED  BY <2>1, <2>2
<1>3. owed'[k] = SubSeq(owed[k], Len(a) + 1, Len(owed[k]))
      BY DEF Deliver
<1> HIDE DEF a, b, u
<1>4. b \o u \in Seq(Char) /\ owed[k] = a \o (b \o u)
  <2>1. (a \o b) \o u = a \o (b \o u)
        BY <1>1, ConcatAssociative
  <2> QED  BY <1>1, <1>2, <2>1, ConcatProperties
<1>5. owed'[k] = b \o u
      BY <1>1, <1>3, <1>4, DropFront
<1> QED  BY <1>5 DEF b, u

\* What owed is a function of.
LEMMA OwedType ==
    ASSUME IInv, NEW V \in Seq(Items), NEW f, f = [k \in Tasks |-> f[k]],
           \A k \in Tasks : f[k] = CharsOf(k, V) \o Unqueued(k)
    PROVE  f \in [Tasks -> Seq(Char)]
<1>1. ASSUME NEW k \in Tasks  PROVE f[k] \in Seq(Char)
  <2>1. CharsOf(k, V) \in Seq(Char) /\ Unqueued(k) \in Seq(Char)
        BY CharsOfType, UnqueuedType
  <2>2. CharsOf(k, V) \o Unqueued(k) \in Seq(Char)
        BY <2>1, ConcatProperties
  <2> QED  BY <2>2
<1> QED  BY <1>1

LEMMA TasksKept ==
    ASSUME OutInv, UNCHANGED task
    PROVE  \A k \in Tasks : Unqueued(k)' = Unqueued(k) /\ AtNewline(k)'
BY UnqueuedKept DEF OutInv

LEMMA Device ==
    ASSUME IInv
    PROVE  use.dev \in {"xbee", "usb"}
BY Parts, TerminalsAssumption DEF IInv

LEMMA OutSendFrame ==
    ASSUME IInv, OutInv, SendFrame
    PROVE  OutInv'
<1>1. /\ tdr # <<>> /\ tdr' = <<>> /\ Deliver(tdr)
      /\ UNCHANGED <<use, tx_queue, app, lapped, task>>
      BY DEF SendFrame
<1>2. use.dev = "xbee" /\ ~lapped
      BY <1>1, Device DEF OutInv
<1>3. tdr \in Seq(Items) /\ tx_queue \in Seq(Items) /\ UnderWay = tdr \o tx_queue
      BY <1>2, OutTypes DEF UnderWay
<1>4. UnderWay' = tx_queue
  <2>1. UnderWay' = <<>> \o tx_queue
        BY <1>1, <1>2, UnderWayNext
  <2> QED  BY <1>3, <2>1, ConcatEmptySeq
<1>5. \A k \in Tasks : owed'[k] = CharsOf(k, tx_queue) \o Unqueued(k)
      BY <1>1, <1>2, <1>3, Delivered
<1>6. owed' \in [Tasks -> Seq(Char)]
  <2>1. owed' = [k \in Tasks |-> owed'[k]]
        BY <1>1 DEF Deliver
  <2> QED  BY <1>3, <1>5, <2>1, OwedType
<1>7. \A k \in Tasks : Unqueued(k)' = Unqueued(k) /\ AtNewline(k)'
      BY <1>1, TasksKept
<1> QED  BY <1>1, <1>2, <1>4, <1>5, <1>6, <1>7, OutNext DEF OutInv

\* The head of the queue becomes the data register.
LEMMA OutUsartIrq ==
    ASSUME IInv, OutInv, USART3_IRQHandler
    PROVE  OutInv'
<1>1. /\ use.dev = "xbee" /\ TransmitIrq
      /\ UNCHANGED <<use, app, owed, lapped, task>>
      BY DEF USART3_IRQHandler
<1>2. tdr \in Seq(Items) /\ tx_queue \in Seq(Items) /\ UnderWay = tdr \o tx_queue
      BY <1>1, OutTypes DEF UnderWay
<1>3. UnderWay' = tdr' \o tx_queue'
      BY <1>1, UnderWayNext
<1>4. tdr' \o tx_queue' = tdr \o tx_queue
  <2>1. CASE tdr = <<>> /\ tx_queue # <<>>
    <3>1. tdr' = <<Head(tx_queue)>> /\ tx_queue' = Tail(tx_queue)
          BY <1>1, <2>1 DEF TransmitIrq
    <3>2. tx_queue = <<Head(tx_queue)>> \o Tail(tx_queue)
          BY <1>2, <2>1, HeadTailProperties
    <3>3. <<>> \o tx_queue = tx_queue
          BY <1>2, ConcatEmptySeq
    <3> QED  BY <2>1, <3>1, <3>2, <3>3
  <2>2. CASE ~(tdr = <<>> /\ tx_queue # <<>>)
        BY <1>1, <2>2 DEF TransmitIrq, usart
  <2> QED  BY <2>1, <2>2
<1>5. \A k \in Tasks : Unqueued(k)' = Unqueued(k) /\ AtNewline(k)'
      BY <1>1, TasksKept
<1> QED  BY <1>1, <1>2, <1>3, <1>4, <1>5, OutNext DEF OutInv

\* What the interrupt does to the buffer.
LEMMA UsbBuffer ==
    ASSUME IInv, OutInv, NEW collected \in BOOLEAN, NEW sof \in BOOLEAN, NEW items \in Seq(Items),
           collected => app.packet.len > 0
    PROVE  LET in    == IF collected THEN usbd_cdc_DataIn(app) ELSE app
               start == IF sof THEN Handle_USBAsynchXfer(in) ELSE in
               v     == VCP_DataTx(start, items)
           IN  /\ Transfer(v) /\ Held(start) \in Nat
               /\ InFlow(app) /\ Held(start) + Len(items) < AppSize =>
                     /\ InFlow(v) /\ Holding(v) = Holding(start) \o items
                     /\ Holding(start) \in Seq(Items)
                     /\ Holding(app) = IF collected THEN Packet(app) \o Holding(start)
                                                    ELSE Holding(start)
<1> DEFINE in    == IF collected THEN usbd_cdc_DataIn(app) ELSE app
           start == IF sof THEN Handle_USBAsynchXfer(in) ELSE in
           v     == VCP_DataTx(start, items)
<1>1. Inside(app) /\ Transfer(app)
      BY Parts DEF IInv, OutInv
<1>2. /\ Inside(in) /\ Transfer(in)
      /\ InFlow(app) => /\ InFlow(in)
                        /\ Holding(app) = IF collected THEN Packet(app) \o Holding(in)
                                                       ELSE Holding(in)
  <2>1. CASE collected
        BY <1>1, <2>1, DataInInside, DataInKeeps
  <2>2. CASE ~collected
        BY <1>1, <2>2
  <2> QED  BY <2>1, <2>2
<1> HIDE DEF in
<1>3. /\ Inside(start) /\ Transfer(start)
      /\ InFlow(in) => InFlow(start) /\ Holding(start) = Holding(in)
  <2>1. CASE sof
        BY <1>2, <2>1, TransferInside, XferKeeps
  <2>2. CASE ~sof
        BY <1>2, <2>2
  <2> QED  BY <2>1, <2>2
<1> HIDE DEF start
<1>4. /\ Transfer(v)
      /\ InFlow(start) /\ Held(start) + Len(items) < AppSize =>
            InFlow(v) /\ Holding(v) = Holding(start) \o items
      BY <1>3, DataTxKeeps
<1>5. Held(start) \in Nat
  <2>1. start.packet.len \in Nat /\ Waiting(start) \in Nat
        BY <1>3, WaitingIs, PacketIs, Sizes
  <2> QED  BY <2>1 DEF Held
<1>6. InFlow(start) => Holding(start) \in Seq(Items)
  <2>1. Holding(start) = Packet(start) \o Unsent(start)
        BY DEF Holding, Unsent
  <2>2. InFlow(start) => Packet(start) \in Seq(Items) /\ Unsent(start) \in Seq(Items)
        BY DEF InFlow
  <2> QED  BY <2>1, <2>2, ConcatProperties
<1> HIDE DEF v
<1> QED  BY <1>2, <1>3, <1>4, <1>5, <1>6 DEF v, start, in

LEMMA OutUsb ==
    ASSUME IInv, OutInv,
           NEW n \in 0 .. Len(typing), NEW collected \in BOOLEAN, NEW sof \in BOOLEAN,
           OTG_FS_IRQHandler(n, collected, sof)
    PROVE  OutInv'
<1> DEFINE in    == IF collected THEN usbd_cdc_DataIn(app) ELSE app
           start == IF sof THEN Handle_USBAsynchXfer(in) ELSE in
           m     == Moved(Len(tx_queue))
           items == SubSeq(tx_queue, 1, m)
           left  == SubSeq(tx_queue, m + 1, Len(tx_queue))
<1>1. /\ use.dev = "usb"
      /\ collected => app.packet.len > 0
      /\ UNCHANGED <<use, tdr, task>>
      BY DEF OTG_FS_IRQHandler, usart
<1>2. /\ app' = VCP_DataTx(start, items) /\ tx_queue' = left
      /\ lapped' = (lapped \/ Held(start) + m >= AppSize)
      BY DEF OTG_FS_IRQHandler
<1>3. /\ lapped' => owed' = [k \in Tasks |-> <<>>]
      /\ ~lapped' /\ collected => Deliver(Packet(app))
      /\ ~lapped' /\ ~collected => owed' = owed
      BY DEF OTG_FS_IRQHandler
<1>4. /\ m \in 0 .. Len(tx_queue) /\ m \in Nat /\ tx_queue \in Seq(Items)
  <2>1. tx_queue \in Seq(Items) /\ Len(tx_queue) \in Nat
        BY OutTypes, LenProperties
  <2>2. \A l \in Nat : (l + 1) \div 2 \in 0 .. l
        OBVIOUS
  <2> QED  BY <2>1, <2>2 DEF Moved
<1> HIDE DEF m
<1>5. /\ items \in Seq(Items) /\ Len(items) = m /\ left \in Seq(Items)
      /\ tx_queue = items \o left
      BY <1>4, Part, PartsMake
<1> HIDE DEF items, left
<1>6. /\ Transfer(app') /\ Held(start) \in Nat
      /\ InFlow(app) /\ Held(start) + m < AppSize =>
            /\ InFlow(app') /\ Holding(app') = Holding(start) \o items
            /\ Holding(start) \in Seq(Items)
            /\ Holding(app) = IF collected THEN Packet(app) \o Holding(start)
                                           ELSE Holding(start)
      BY <1>1, <1>2, <1>5, UsbBuffer
<1>7. \A k \in Tasks : Unqueued(k)' = Unqueued(k) /\ AtNewline(k)'
      BY <1>1, TasksKept
<1> HIDE DEF start
<1>8. CASE lapped'
  <2>1. owed' \in [Tasks -> Seq(Char)]
    <3>1. <<>> \in Seq(Char)
          OBVIOUS
    <3> QED  BY <1>3, <1>8, <3>1
  <2> QED  BY <1>1, <1>3, <1>6, <1>7, <1>8, <2>1, OutNext DEF OutInv
<1>9. CASE ~lapped'
  <2>1. ~lapped /\ Held(start) + m < AppSize
    <3>1. ~lapped /\ ~(Held(start) + m >= AppSize)
          BY <1>2, <1>9
    <3>2. Held(start) \in Nat /\ m \in Nat /\ AppSize \in Nat
          BY <1>4, <1>6, Sizes
    <3> QED  BY <3>1, <3>2
  <2>2. InFlow(app)
        BY <2>1 DEF OutInv
  <2> DEFINE h == Holding(start)
             V == h \o tx_queue
  <2>3. h \in Seq(Items) /\ V \in Seq(Items)
        BY <1>4, <1>6, <2>1, <2>2, ConcatProperties
  <2>4. UnderWay' = V
    <3>1. UnderWay' = (h \o items) \o left
          BY <1>1, <1>2, <1>6, <2>1, <2>2, UnderWayNext
    <3>2. (h \o items) \o left = h \o (items \o left)
      <4> HIDE DEF h
      <4> QED  BY <1>5, <2>3, ConcatAssociative
    <3> QED  BY <1>5, <3>1, <3>2
  <2>5. UnderWay = Holding(app) \o tx_queue
        BY <1>1 DEF UnderWay
  <2>6. \A k \in Tasks : owed'[k] = CharsOf(k, V) \o Unqueued(k)
    <3>1. CASE collected
      <4>1. Packet(app) \in Seq(Items)
            BY <2>2 DEF InFlow
      <4>2. UnderWay = Packet(app) \o V
        <5>1. (Packet(app) \o h) \o tx_queue = Packet(app) \o (h \o tx_queue)
          <6> HIDE DEF h
          <6> QED  BY <1>4, <2>3, <4>1, ConcatAssociative
        <5> QED  BY <1>6, <2>1, <2>2, <2>5, <3>1, <5>1
      <4> HIDE DEF V
      <4> QED  BY <1>3, <1>9, <2>1, <2>3, <3>1, <4>1, <4>2, Delivered
    <3>2. CASE ~collected
      <4>1. V = UnderWay
            BY <1>6, <2>1, <2>2, <2>5, <3>2
      <4> HIDE DEF V
      <4> QED  BY <1>3, <1>9, <2>1, <3>2, <4>1 DEF OutInv
    <3> QED  BY <3>1, <3>2
  <2> HIDE DEF h, V
  <2>7. owed' \in [Tasks -> Seq(Char)]
    <3>1. owed' = [k \in Tasks |-> owed'[k]]
          BY <1>3, <1>9 DEF Deliver, OutInv
    <3> QED  BY <2>3, <2>6, <3>1, OwedType
  <2> QED  BY <1>1, <1>6, <1>7, <1>9, <2>1, <2>2, <2>4, <2>6, <2>7, OutNext DEF OutInv
<1> QED  BY <1>8, <1>9

LEMMA OutStep == IInv /\ OutInv /\ [Next]_vars => OutInv'
<1> SUFFICES ASSUME IInv, OutInv, [Next]_vars  PROVE OutInv'
    OBVIOUS
<1>1. CASE \E k \in Tasks : write_r(k) \/ TaskStep(k)
      BY <1>1, OutWrite, OutSend
<1>2. CASE read_r \/ ReadStep
      BY <1>2, OutRead
<1>3. CASE Type \/ ReceiveFrame
      BY <1>3, OutInput DEF Type, ReceiveFrame
<1>4. CASE SendFrame \/ USART3_IRQHandler
      BY <1>4, OutSendFrame, OutUsartIrq
<1>5. CASE Usb
      BY <1>5, OutUsb DEF Usb
<1>6. CASE UNCHANGED vars
      BY <1>6, OutInput DEF vars
<1> QED  BY <1>1, <1>2, <1>3, <1>4, <1>5, <1>6 DEF Next

\* What a task writes reaches the peer whole and in order, every newline with
\* its carriage return, through the queue and the registers of USART3 or the
\* buffer and the packets of USB, as long as the host keeps up, and again after
\* an overrun: for every set of tasks, every text and every size.
THEOREM OutputTheorem == Spec => []WritesInOrder
<1>1. Init => OutInv
      BY OutInit
<1>2. OutInv => WritesInOrder
      BY DEF OutInv, WritesInOrder
<1> QED  BY <1>1, <1>2, OutStep, SpecIInv, PTL DEF Spec
=============================================================================

------------------------------- MODULE Terminals -------------------------------
(***************************************************************************)
(* The two terminals of the firmware: USART3 with the radio (term_xbee.c)  *)
(* and the virtual serial port on USB (term_usb.c on top of                *)
(* usbd_cdc_core.c), each with a queue per direction between tasks and the *)
(* interrupt handler.  A handler runs whole between two steps of a task,   *)
(* and so does a call of the queues, which FreeRTOS protects.  A behaviour *)
(* has one of the terminals; they share no state.                          *)
(***************************************************************************)
EXTENDS Integers, SequencesExt

CONSTANTS
    Tasks, Shell,   \* tasks that write; the one of them that also reads
    TxSize, RxSize, \* TX_QUEUE_SIZE, RX_QUEUE_SIZE: 1024
    AppSize,        \* APP_RX_DATA_SIZE: 2048
    PacketSize,     \* CDC_DATA_IN_PACKET_SIZE: 64
    CR, LF, Letters,\* 13, 10, and the codes of other characters
    Texts,          \* what a task writes in one call
    ReadLen,        \* size of the read buffer
    Scenarios       \* which terminal, what the peer sends for a new line, the
                    \* tasks that write, and a bound on the keys not read yet

Char == {CR, LF} \cup Letters

LineEnds == {<<CR>>, <<LF>>, <<CR, LF>>}

ASSUME TerminalsAssumption ==
    /\ Shell \in Tasks
    /\ TxSize \in Nat \ {0} /\ RxSize \in Nat \ {0} /\ ReadLen \in Nat \ {0}
    /\ AppSize \in Nat \ {0} /\ PacketSize \in Nat \ {0}
    /\ {CR, LF} \cup Letters \subseteq Nat /\ CR \notin {0, LF}
    /\ CR \notin Letters /\ LF \notin Letters
    /\ Texts \subseteq Seq(Letters \cup {LF}) \ {<<>>}
    /\ Scenarios \subseteq [dev : {"xbee", "usb"}, eol : LineEnds,
                            writers : SUBSET Tasks, keys : Nat]

VARIABLES
    use,            \* the scenario
    tx_queue,       \* characters, each with the task it is of
    rx_queue,
    task,           \* per task: position in a call, what is left to write
    rd,             \* the shell's read_r: len, and whether timeout is portMAX_DELAY
    last_c,         \* of read_r
    txeie, tdr, rdr,\* USART3: CR1.TXEIE, the data registers (<<>> or one item)
    app,            \* USB: APP_Rx_Buffer, its pointers, the transfer
    typing,         \* what the peer still sends of a key
    owed,           \* history: per task, what the peer is still to get
    lapped,         \* history: the host did not keep up
    keys,           \* history: keys typed and not read yet
    lost            \* history: a typed byte found rx_queue full

usart  == <<txeie, tdr>>
output == <<tx_queue, usart, app, owed, lapped>>
input  == <<rx_queue, rdr, typing, keys, lost>>
reader == <<rd, last_c>>
vars   == <<use, output, input, reader, task>>

NoPacket == [ptr |-> 0, len |-> 0]

\* xbee_init or term_usb_init, and the enumeration of the USB device.
Init ==
    /\ use \in Scenarios
    /\ tx_queue = <<>> /\ rx_queue = <<>>
    /\ task = [k \in Tasks |-> [pc |-> "idle", src |-> <<>>]]
    /\ rd = [len |-> 0, forever |-> FALSE] /\ last_c = 0
    /\ txeie = FALSE /\ tdr = <<>> /\ rdr = <<>>
    /\ app = [buf |-> [i \in 0 .. AppSize - 1 |-> <<>>], ptr_in |-> 0, ptr_out |-> 0,
              length |-> 0, state |-> 0, packet |-> NoPacket]
    /\ typing = <<>> /\ keys = <<>> /\ lost = FALSE
    /\ owed = [k \in Tasks |-> <<>>] /\ lapped = FALSE

-----------------------------------------------------------------------------
(* xbee_write_r and usb_write_r                                            *)

WriteLabels == {"next", "cr_set", "char", "char_set"}

Prefixed(c) == IF c = LF THEN <<CR, LF>> ELSE <<c>>

\* What the peer is to get for a text: c-newlines become CRLF.
CrLf(text) == FlattenSeq([i \in DOMAIN text |-> Prefixed(text[i])])

\* How much of the buffer is not in a packet yet, and how much the host has not
\* collected.
Waiting(u) == (u.ptr_in - u.ptr_out) % AppSize

Held(u) == u.packet.len + Waiting(u)

Writing(k) == task[k].pc \in WriteLabels

\* After an overrun of the buffer the history begins again with the first call
\* that finds nothing under way.
Owe(k, text) ==
    /\ lapped' = (lapped /\ (Held(app) > 0 \/ tx_queue # <<>> \/ \E j \in Tasks : Writing(j)))
    /\ owed' = IF lapped' THEN owed ELSE [owed EXCEPT ![k] = @ \o CrLf(text)]

write_r(k) ==
    /\ task[k].pc = "idle"
    /\ k \in use.writers
    /\ \E text \in Texts :
          /\ task' = [task EXCEPT ![k] = [pc |-> "next", src |-> text]]
          /\ Owe(k, text)
    /\ UNCHANGED <<use, tx_queue, usart, app, input, reader>>

\* xQueueSend with portMAX_DELAY: waits for room.
xQueueSend(k, c) ==
    /\ Len(tx_queue) < TxSize
    /\ tx_queue' = Append(tx_queue, [by |-> k, c |-> c])
    /\ UNCHANGED <<use, usart, app, owed, lapped, input, reader>>

Goto(k, pc) == task' = [task EXCEPT ![k].pc = pc]

Advance(k) ==
    LET rest == Tail(task[k].src)
    IN  task' = [task EXCEPT ![k] = [pc |-> IF rest = <<>> THEN "idle" ELSE "next",
                                     src |-> rest]]

SendCr(k, then) ==
    /\ task[k].pc = "next" /\ Head(task[k].src) = LF
    /\ xQueueSend(k, CR)
    /\ Goto(k, then)

SendChar(k) ==
    /\ \/ task[k].pc = "char"
       \/ task[k].pc = "next" /\ Head(task[k].src) # LF
    /\ xQueueSend(k, Head(task[k].src))

\* A mutant: TXEIE is only set to make room.
EnableTxWhenFull(k) ==
    /\ task[k].pc \in {"cr_set", "char_set"}
    /\ txeie' = (txeie \/ Len(tx_queue) = TxSize)
    /\ IF task[k].pc = "cr_set" THEN Goto(k, "char") ELSE Advance(k)
    /\ UNCHANGED <<use, tx_queue, tdr, app, owed, lapped, input, reader>>

\* "CR1 |= TXEIE" reads, modifies and writes, but no other bit of CR1 ever
\* changes and the bit written is one whatever was read.
EnableTx(k) ==
    /\ task[k].pc \in {"cr_set", "char_set"}
    /\ txeie' = TRUE
    /\ IF task[k].pc = "cr_set" THEN Goto(k, "char") ELSE Advance(k)
    /\ UNCHANGED <<use, tx_queue, tdr, app, owed, lapped, input, reader>>

xbee_write_r(k) ==
    /\ use.dev = "xbee"
    /\ \/ SendCr(k, "cr_set")
       \/ SendChar(k) /\ Goto(k, "char_set")
       \/ EnableTx(k)

usb_write_r(k) ==
    /\ use.dev = "usb"
    /\ \/ SendCr(k, "char")
       \/ SendChar(k) /\ Advance(k)

-----------------------------------------------------------------------------
(* xbee_read_r and usb_read_r, which are the same                          *)

read_r ==
    /\ task[Shell].pc = "idle"
    /\ Goto(Shell, "receive")
    /\ rd' = [len |-> ReadLen, forever |-> TRUE]
    /\ UNCHANGED <<use, output, input, last_c>>

\* A mutant: last_c keeps its first value.
StoreForgets(c) ==
    /\ rd' = [len |-> rd.len - 1, forever |-> FALSE]
    /\ UNCHANGED last_c
    /\ keys' = IF keys = <<>> THEN keys ELSE Tail(keys)
    /\ Goto(Shell, IF rd.len = 1 THEN "idle" ELSE "receive")

\* *dest++, a carriage return as a newline.
Store(c) ==
    /\ rd' = [len |-> rd.len - 1, forever |-> FALSE]
    /\ last_c' = c
    /\ keys' = IF keys = <<>> THEN keys ELSE Tail(keys)
    /\ Goto(Shell, IF rd.len = 1 THEN "idle" ELSE "receive")

\* The newline of a CRLF is dropped for the character after it.
Receive ==
    /\ task[Shell].pc \in {"receive", "receive_next"}
    /\ rx_queue # <<>>
    /\ rx_queue' = Tail(rx_queue)
    /\ IF task[Shell].pc = "receive" /\ Head(rx_queue) = LF /\ last_c = CR
       THEN /\ Goto(Shell, "receive_next")
            /\ UNCHANGED <<keys, reader>>
       ELSE Store(Head(rx_queue))
    /\ UNCHANGED <<use, output, rdr, typing, lost>>

\* Only the first character is waited for.
ReceiveNothing ==
    /\ task[Shell].pc \in {"receive", "receive_next"}
    /\ rx_queue = <<>> /\ ~rd.forever
    /\ Goto(Shell, "idle")
    /\ UNCHANGED <<use, output, input, reader>>

-----------------------------------------------------------------------------
(* The peer                                                                *)

CharsOf(k, items) ==
    FlattenSeq([i \in DOMAIN items |-> IF items[i].by = k THEN <<items[i].c>> ELSE <<>>])

\* What reaches the peer is no longer owed; of a lapped buffer nothing is.
Deliver(items) ==
    owed' = [k \in Tasks |->
               SubSeq(owed[k], Len(CharsOf(k, items)) + 1, Len(owed[k]))]

\* A key; the one for a new line is sent as the peer's line end.  After a loss
\* the history begins again with the first key that finds nothing pending.
Type ==
    /\ typing = <<>> /\ Len(keys) < use.keys
    /\ \E key \in Letters \cup {LF} :
          /\ typing' = IF key = LF THEN use.eol ELSE <<key>>
          /\ lost' = (lost /\ rx_queue \o rdr # <<>>)
          /\ keys' = IF lost' THEN <<>> ELSE Append(keys, key)
    /\ UNCHANGED <<use, output, rx_queue, rdr, reader, task>>

\* rx_queue with the bytes that find room, and what becomes of the history.
Receives(bytes) ==
    LET room == RxSize - Len(rx_queue)
    IN  /\ rx_queue' = rx_queue \o SubSeq(bytes, 1, IF Len(bytes) < room THEN Len(bytes)
                                                                        ELSE room)
        /\ lost' = (lost \/ Len(bytes) > room)
        /\ keys' = IF lost' THEN <<>> ELSE keys

-----------------------------------------------------------------------------
(* USART3                                                                  *)

ReceiveFrame ==
    /\ use.dev = "xbee" /\ rdr = <<>> /\ typing # <<>>
    /\ rdr' = <<Head(typing)>> /\ typing' = Tail(typing)
    /\ UNCHANGED <<use, output, rx_queue, keys, lost, reader, task>>

\* The byte leaves the data register, and the chip.
SendFrame ==
    /\ tdr # <<>>
    /\ tdr' = <<>>
    /\ Deliver(tdr)
    /\ UNCHANGED <<use, tx_queue, txeie, app, lapped, input, reader, task>>

\* A mutant: TXE is not looked at.
TransmitIrqUnchecked ==
    IF tx_queue # <<>>
    THEN /\ tdr' = <<Head(tx_queue)>> /\ tx_queue' = Tail(tx_queue)
         /\ UNCHANGED txeie
    ELSE txeie' = FALSE /\ UNCHANGED <<tdr, tx_queue>>

TransmitIrq ==
    IF tdr # <<>> THEN UNCHANGED <<usart, tx_queue>>
    ELSE IF tx_queue # <<>>
    THEN /\ tdr' = <<Head(tx_queue)>> /\ tx_queue' = Tail(tx_queue)
         /\ UNCHANGED txeie
    ELSE txeie' = FALSE /\ UNCHANGED <<tdr, tx_queue>>

\* The transmit half looks at TXE only: a received byte moves one as well.
USART3_IRQHandler ==
    /\ use.dev = "xbee"
    /\ rdr # <<>> \/ (tdr = <<>> /\ txeie)
    /\ Receives(rdr) /\ rdr' = <<>>
    /\ TransmitIrq
    /\ UNCHANGED <<use, app, owed, lapped, typing, reader, task>>

-----------------------------------------------------------------------------
(* USB                                                                     *)

\* What the endpoint reads.
Packet(u) == [i \in 1 .. u.packet.len |-> u.buf[u.packet.ptr + i - 1]]

\* The next packet of the transfer is given to the endpoint.
StartPacket(u) ==
    LET n == IF u.length > PacketSize THEN PacketSize ELSE u.length
    IN  [u EXCEPT !.packet = [ptr |-> u.ptr_out, len |-> n],
                  !.ptr_out = @ + n, !.length = @ - n]

\* The host has collected a packet.
usbd_cdc_DataIn(u) ==
    IF u.length = 0 THEN [u EXCEPT !.state = 0, !.packet = NoPacket]
                    ELSE StartPacket(u)

Handle_USBAsynchXfer(u) ==
    LET out == IF u.ptr_out = AppSize THEN 0 ELSE u.ptr_out
    IN  IF u.state = 1 THEN u
        ELSE IF out = u.ptr_in THEN [u EXCEPT !.ptr_out = out]
        ELSE StartPacket([u EXCEPT !.ptr_out = out, !.state = 1,
                                   !.length = IF out > u.ptr_in THEN AppSize - out
                                                                ELSE u.ptr_in - out])

\* A mutant: the length of the queue is halved downwards.
MovedDown(n) == n \div 2

\* The loop of VCP_DataTx compares a growing index with the shrinking length
\* of the queue: it moves the larger half.
Moved(n) == (n + 1) \div 2

\* A mutant: the pointer is reset one slot late.
VCP_DataTxLateWrap(u, items) ==
    LET n == Len(items)
    IN  [u EXCEPT !.buf = [i \in DOMAIN @ |->
                             LET j == (i - u.ptr_in) % AppSize
                             IN  IF j < n THEN items[j + 1] ELSE @[i]],
                  !.ptr_in = (@ + n) % (AppSize + 1)]

\* VCP_DataTx looks at no other pointer of the buffer.
VCP_DataTx(u, items) ==
    LET n == Len(items)
    IN  [u EXCEPT !.buf = [i \in DOMAIN @ |->
                             LET j == (i - u.ptr_in) % AppSize
                             IN  IF j < n THEN items[j + 1] ELSE @[i]],
                  !.ptr_in = (@ + n) % AppSize]

\* One interrupt: bytes of the host, a packet collected by it, the start of the
\* frame that ends CDC_IN_FRAME_INTERVAL, each or none of them; then
\* VCP_DataTx.  The endpoint is taken to read a packet at the last moment.
OTG_FS_IRQHandler(n, collected, sof) ==
    /\ use.dev = "usb"
    /\ Receives(SubSeq(typing, 1, n)) /\ typing' = SubSeq(typing, n + 1, Len(typing))
    /\ collected => app.packet.len > 0
    /\ LET in    == IF collected THEN usbd_cdc_DataIn(app) ELSE app
           start == IF sof THEN Handle_USBAsynchXfer(in) ELSE in
           m     == Moved(Len(tx_queue))
       IN  /\ app' = VCP_DataTx(start, SubSeq(tx_queue, 1, m))
           /\ tx_queue' = SubSeq(tx_queue, m + 1, Len(tx_queue))
           /\ lapped' = (lapped \/ Held(start) + m >= AppSize)
    /\ IF lapped' THEN owed' = [k \in Tasks |-> <<>>]
       ELSE IF collected THEN Deliver(Packet(app))
       ELSE UNCHANGED owed
    /\ UNCHANGED <<use, usart, rdr, reader, task>>

-----------------------------------------------------------------------------
TaskStep(k) == xbee_write_r(k) \/ usb_write_r(k)

ReadStep == Receive \/ ReceiveNothing

Usb == \E n \in 0 .. Len(typing), collected, sof \in BOOLEAN :
          OTG_FS_IRQHandler(n, collected, sof)

Next == \/ \E k \in Tasks : write_r(k) \/ TaskStep(k)
        \/ read_r \/ ReadStep
        \/ Type \/ ReceiveFrame \/ SendFrame \/ USART3_IRQHandler \/ Usb

\* The kernel lets every task run, and a task that waits for room in a queue
\* is among those that get it in the end (those that write for ever have the
\* same priority); pending interrupts are taken; the radio keeps CTS asserted
\* again and again; the host sends frames and collects packets.
Fairness ==
    /\ \A k \in Tasks : SF_vars(TaskStep(k))
    /\ WF_vars(ReadStep)
    /\ WF_vars(USART3_IRQHandler) /\ WF_vars(SendFrame)
    /\ WF_vars(\E n \in 0 .. Len(typing), c \in BOOLEAN : OTG_FS_IRQHandler(n, c, TRUE))
    /\ WF_vars(\E n \in 0 .. Len(typing), s \in BOOLEAN : OTG_FS_IRQHandler(n, TRUE, s))

Spec == Init /\ [][Next]_vars /\ Fairness

-----------------------------------------------------------------------------
(* Properties                                                              *)

Items == [by : Tasks, c : Char]

OneOrNone(S) == {<<>>} \cup {<<x>> : x \in S}

\* Neither the queues nor the pointers of the USB driver leave their bounds, and
\* no packet or transfer reads behind the end of APP_Rx_Buffer.  (What owed is
\* follows from WritesInOrder.)
TypeOK ==
    /\ use \in Scenarios
    /\ tx_queue \in Seq(Items) /\ Len(tx_queue) <= TxSize
    /\ rx_queue \in Seq(Char) /\ Len(rx_queue) <= RxSize
    /\ task \in [Tasks -> [pc : {"idle", "receive", "receive_next"} \cup WriteLabels,
                           src : Seq(Letters \cup {LF})]]
    /\ rd \in [len : 0 .. ReadLen, forever : BOOLEAN] /\ last_c \in Char \cup {0}
    /\ txeie \in BOOLEAN /\ tdr \in OneOrNone(Items) /\ rdr \in OneOrNone(Char)
    /\ app \in [buf : [0 .. AppSize - 1 -> Items \cup {<<>>}],
                ptr_in : 0 .. AppSize - 1, ptr_out : 0 .. AppSize,
                length : 0 .. AppSize, state : {0, 1},
                packet : [ptr : 0 .. AppSize, len : 0 .. PacketSize]]
    /\ app.packet.ptr + app.packet.len <= AppSize
    /\ app.ptr_out + app.length <= AppSize
    /\ typing \in Seq(Char) /\ keys \in Seq(Letters \cup {LF})
    /\ lapped \in BOOLEAN /\ lost \in BOOLEAN

\* What is under way to the peer, and what task k has still to queue.
Holding(u) ==
    Packet(u) \o [i \in 1 .. Waiting(u) |-> u.buf[(u.ptr_out + i - 1) % AppSize]]

UnderWay == (IF use.dev = "xbee" THEN tdr ELSE Holding(app)) \o tx_queue

Unqueued(k) ==
    LET src == task[k].src
    IN  CASE task[k].pc = "next" -> CrLf(src)
          [] task[k].pc \in {"cr_set", "char"} -> Tail(CrLf(src))
          [] task[k].pc = "char_set" -> CrLf(Tail(src))
          [] OTHER -> <<>>

\* Nothing a task writes is lost, repeated, reordered or left without its
\* carriage return on the way through the queue and the registers of USART3,
\* or through the buffer and the packets of the USB driver as long as the host
\* keeps up, whatever the other tasks write in between.
WritesInOrder ==
    ~lapped => \A k \in Tasks : owed[k] = CharsOf(k, UnderWay) \o Unqueued(k)

\* A queued byte waits only while the transmit interrupt is enabled, or a task
\* is about to enable it: with several writers too, the handler's "CR1 &=
\* ~TXEIE" never switches off the interrupt that a queued byte depends on.
NoLostWakeup ==
    use.dev = "xbee" /\ tx_queue # <<>> =>
        txeie \/ \E k \in Tasks : task[k].pc \in {"cr_set", "char_set"}

\* What the peer's bytes mean after the byte before: CR, LF and CRLF are one
\* new line each.
MeaningOf(before, c) ==
    IF before = CR /\ c = LF THEN <<>> ELSE <<IF c = CR THEN LF ELSE c>>

Meaning(before, bytes) ==
    FlattenSeq([i \in DOMAIN bytes |->
                  MeaningOf(IF i = 1 THEN before ELSE bytes[i - 1], bytes[i])])

\* read_r returns every key once and in order, whichever line end the peer
\* uses, wherever a call ends between the two bytes of a CRLF, and again after
\* an overrun as soon as what was left of it has been read.
ReadsWhatWasTyped ==
    ~lost => keys = Meaning(last_c, rx_queue \o rdr \o typing)

\* Every call of write_r returns, also when the queue is full and other tasks
\* keep writing, and when nobody writes any more everything gets sent.
OutputKeepsFlowing ==
    /\ \A k \in Tasks : Writing(k) ~> ~Writing(k)
    /\ <>[](\A k \in Tasks : ~Writing(k)) => <>[](\A k \in Tasks : owed[k] = <<>>)
=============================================================================

--------------------------------- MODULE Uart ---------------------------------
(***************************************************************************)
(* Bootloader/uart.c: USART3 between the main program and its peer, with   *)
(* one ring per direction.  The main program runs step by step; the        *)
(* interrupt handler preempts it anywhere and runs to completion (one      *)
(* core, and no interrupt of a higher priority touches this state); the    *)
(* USART itself moves bytes on its own.                                    *)
(***************************************************************************)
EXTENDS RingOps

CONSTANTS CR, LF,     \* '\r' and '\n'
          Requests,   \* the byte sequences uart_write is called with
          MaxTx,      \* bound: bytes handed to uart_putc
          MaxRx       \* bound: bytes the peer sends

ASSUME UartAssumption == /\ {0, CR, LF} \subseteq Byte
                         /\ Requests \subseteq Seq(Byte) \ {<<>>}
                         /\ MaxTx \in Nat /\ MaxRx \in Nat

VARIABLES
    tx_buf, rx_buf,   \* the two rings
    txeie,            \* CR1.TXEIE
    tdr, shift, rdr,  \* data register (write side), shift register, data
                      \* register (read side): <<>> or one byte
    tc,               \* SR.TC
    main,             \* where the main program is, and its locals
    submitted, wire,  \* history: bytes put into tx_buf, bytes sent
    accepted, got     \* history: bytes put into rx_buf, bytes uart_getc gave

tx   == <<tx_buf, txeie, tdr, shift, tc, submitted, wire>>
rx   == <<rx_buf, rdr, accepted, got>>
vars == <<tx, rx, main>>

\* After uart_init: USART3 enabled, RXNEIE set, TXE and TC set by the reset.
Init ==
    /\ tx_buf = RINGBUF /\ rx_buf = RINGBUF
    /\ txeie = FALSE /\ tc = TRUE
    /\ tdr = <<>> /\ shift = <<>> /\ rdr = <<>>
    /\ main = [pc |-> "idle", todo |-> <<>>, slot |-> 0, ok |-> TRUE, c |-> 0]
    /\ submitted = <<>> /\ wire = <<>> /\ accepted = <<>> /\ got = <<>>

-----------------------------------------------------------------------------
(* The main program: uart_putc, in uart_write and printf_putchar           *)

Begin(bytes) ==
    /\ main.pc = "idle"
    /\ Len(submitted) + Len(bytes) <= MaxTx
    /\ main' = [main EXCEPT !.pc = "space", !.todo = bytes]
    /\ UNCHANGED <<tx, rx>>

uart_write == \E bytes \in Requests : Begin(bytes)

\* C newlines become terminal CRLF.
printf_putchar ==
    \E c \in Byte : Begin(IF c = LF THEN <<CR, LF>> ELSE <<c>>)

\* rb_putchar, up to the store: is there a free slot?
PutcSpace ==
    /\ main.pc = "space"
    /\ LET ck == Pointers(tx_buf, "RB_WRITE", 1)
       IN  main' = [main EXCEPT !.slot = ck.ptr1, !.ok = ck.len1 = 1,
                                !.pc = IF ck.len1 = 1 THEN "store" ELSE "enable"]
    /\ UNCHANGED <<tx, rx>>

PutcStore ==
    /\ main.pc = "store"
    /\ tx_buf' = [tx_buf EXCEPT !.buf[main.slot] = Head(main.todo)]
    /\ main' = [main EXCEPT !.pc = "commit"]
    /\ UNCHANGED <<txeie, tdr, shift, tc, submitted, wire, rx>>

PutcCommit ==
    /\ main.pc = "commit"
    /\ tx_buf' = Commit(tx_buf, "RB_WRITE", 1)
    /\ submitted' = Append(submitted, Head(main.todo))
    /\ main' = [main EXCEPT !.pc = "enable"]
    /\ UNCHANGED <<txeie, tdr, shift, tc, wire, rx>>

PutcContinue ==
    main' = IF ~main.ok THEN [main EXCEPT !.pc = "space"]
            ELSE [main EXCEPT !.todo = Tail(@),
                              !.pc = IF Len(main.todo) = 1 THEN "idle" ELSE "space"]

\* A mutant: TXEIE is only set to make room.
PutcEnableWhenFull ==
    /\ main.pc = "enable"
    /\ txeie' = (txeie \/ ~main.ok)
    /\ PutcContinue
    /\ UNCHANGED <<tx_buf, tdr, shift, tc, submitted, wire, rx>>

\* "CR1 |= TXEIE" reads, modifies and writes, but no other bit of CR1 ever
\* changes and the bit written is one whatever was read.  Then the next byte,
\* or the same one again while the ring is full.
PutcEnable ==
    /\ main.pc = "enable"
    /\ txeie' = TRUE
    /\ PutcContinue
    /\ UNCHANGED <<tx_buf, tdr, shift, tc, submitted, wire, rx>>

-----------------------------------------------------------------------------
(* The main program: uart_getc                                             *)

\* rb_getchar, up to the load; -1 when the ring is empty changes nothing.
uart_getc ==
    /\ main.pc = "idle"
    /\ LET ck == Pointers(rx_buf, "RB_READ", 1)
       IN  /\ ck.len1 = 1
           /\ main' = [main EXCEPT !.pc = "load", !.slot = ck.ptr1]
    /\ UNCHANGED <<tx, rx>>

GetcLoad ==
    /\ main.pc = "load"
    /\ main' = [main EXCEPT !.pc = "release", !.c = rx_buf.buf[main.slot]]
    /\ UNCHANGED <<tx, rx>>

GetcRelease ==
    /\ main.pc = "release"
    /\ rx_buf' = Commit(rx_buf, "RB_READ", 1)
    /\ got' = Append(got, main.c)
    /\ main' = [main EXCEPT !.pc = "idle"]
    /\ UNCHANGED <<tx, rdr, accepted>>

-----------------------------------------------------------------------------
(* The main program: uart_flush, two busy-wait loops                       *)

uart_flush ==
    /\ main.pc = "idle"
    /\ main' = [main EXCEPT !.pc = "flush_ring"]
    /\ UNCHANGED <<tx, rx>>

\* A mutant: the first loop forgotten.
FlushRingNoWait ==
    /\ main.pc = "flush_ring"
    /\ main' = [main EXCEPT !.pc = "flush_tc"]
    /\ UNCHANGED <<tx, rx>>

FlushRing ==
    /\ main.pc = "flush_ring"
    /\ BytesUsed(tx_buf) = 0
    /\ main' = [main EXCEPT !.pc = "flush_tc"]
    /\ UNCHANGED <<tx, rx>>

FlushTc ==
    /\ main.pc = "flush_tc"
    /\ tc
    /\ main' = [main EXCEPT !.pc = "idle"]
    /\ UNCHANGED <<tx, rx>>

-----------------------------------------------------------------------------
(* USART3_IRQHandler                                                       *)

TXE  == tdr = <<>>
RXNE == rdr # <<>>

\* A full ring drops the byte.
ReceiveIrq ==
    IF RXNE
    THEN /\ rdr' = <<>>
         /\ LET ck == Pointers(rx_buf, "RB_WRITE", 1)
            IN  IF ck.len1 = 1
                THEN /\ rx_buf' = Commit([rx_buf EXCEPT !.buf[ck.ptr1] = Head(rdr)],
                                         "RB_WRITE", 1)
                     /\ accepted' = Append(accepted, Head(rdr))
                ELSE UNCHANGED <<rx_buf, accepted>>
         /\ UNCHANGED got
    ELSE UNCHANGED rx

\* Reading SR and then writing DR clears TC.
TransmitIrq ==
    LET ck == Pointers(tx_buf, "RB_READ", 1)
    IN  IF ~TXE THEN UNCHANGED tx
        ELSE IF ck.len1 = 1
        THEN /\ tdr' = <<tx_buf.buf[ck.ptr1]>>
             /\ tx_buf' = Commit(tx_buf, "RB_READ", 1)
             /\ tc' = FALSE
             /\ UNCHANGED <<txeie, shift, submitted, wire>>
        ELSE /\ txeie' = FALSE
             /\ UNCHANGED <<tx_buf, tdr, shift, tc, submitted, wire>>

USART3_IRQHandler ==
    /\ RXNE \/ (TXE /\ txeie)
    /\ ReceiveIrq
    /\ TransmitIrq
    /\ UNCHANGED main

-----------------------------------------------------------------------------
(* The USART and its peer                                                  *)

LoadShift ==
    /\ tdr # <<>> /\ shift = <<>>
    /\ shift' = tdr /\ tdr' = <<>>
    /\ UNCHANGED <<tx_buf, txeie, tc, submitted, wire, rx, main>>

\* The frame ends (CTS allowed it); TC is set when nothing follows.
SendFrame ==
    /\ shift # <<>>
    /\ wire' = wire \o shift /\ shift' = <<>>
    /\ tc' = (tc \/ tdr = <<>>)
    /\ UNCHANGED <<tx_buf, txeie, tdr, submitted, rx, main>>

\* A frame arrives.  The peer heeds RTS, so the data register is free.
\* The peer's bytes are any; how many is bounded.
ReceiveFrame ==
    /\ rdr = <<>> /\ Len(accepted) < MaxRx
    /\ \E b \in Byte : rdr' = <<b>>
    /\ UNCHANGED <<rx_buf, accepted, got, tx, main>>

-----------------------------------------------------------------------------
MainCall == uart_write \/ printf_putchar \/ uart_getc \/ uart_flush

MainStep == PutcSpace \/ PutcStore \/ PutcCommit \/ PutcEnable
               \/ GetcLoad \/ GetcRelease \/ FlushRing \/ FlushTc

Next == MainCall \/ MainStep \/ USART3_IRQHandler
           \/ LoadShift \/ SendFrame \/ ReceiveFrame

\* The main program is the only thread and never stops inside a call; a
\* pending interrupt is taken; the USART shifts and the peer keeps CTS
\* asserted again and again.
Fairness == /\ WF_vars(MainStep)
            /\ WF_vars(USART3_IRQHandler)
            /\ WF_vars(LoadShift) /\ WF_vars(SendFrame)

Spec == Init /\ [][Next]_vars /\ Fairness

-----------------------------------------------------------------------------
(* Properties                                                              *)

PcValues == {"idle", "space", "store", "commit", "enable",
             "load", "release", "flush_ring", "flush_tc"}

OneOrNone == {<<>>} \cup {<<b>> : b \in Byte}

TypeOK ==
    /\ tx_buf \in Ring /\ rx_buf \in Ring
    /\ txeie \in BOOLEAN /\ tc \in BOOLEAN
    /\ tdr \in OneOrNone /\ shift \in OneOrNone /\ rdr \in OneOrNone
    /\ main \in [pc : PcValues, todo : Seq(Byte), slot : Slots,
                 ok : BOOLEAN, c : Byte]
    /\ submitted \in Seq(Byte) /\ wire \in Seq(Byte)
    /\ accepted \in Seq(Byte) /\ got \in Seq(Byte)

\* Every byte uart_putc put into the ring is, in order, on the wire, in the
\* shift register, in the data register or still in the ring: the handler and
\* the main program never lose, repeat or reorder one.
TransmitInOrder ==
    submitted = wire \o shift \o tdr \o Contents(tx_buf)

\* The same for reception: what uart_getc returned and what the ring holds is
\* what the handler accepted.
ReceiveInOrder == accepted = got \o Contents(rx_buf)

\* Data waits in the ring only while the transmit interrupt is enabled or the
\* main program is about to enable it: the handler's "CR1 &= ~TXEIE" never
\* switches off the interrupt that a byte just written depends on.
NoLostWakeup ==
    BytesUsed(tx_buf) > 0 => txeie \/ main.pc = "enable"

\* What each call relies on between its steps, whatever the handler does in
\* between: the slot it found is still its own, the byte it loaded is still the
\* oldest, a ring found empty by uart_flush stays empty, and TC means that
\* nothing is on its way.
CallInProgress ==
    /\ main.pc \in {"space", "store", "commit", "enable"} => main.todo # <<>>
    /\ main.pc \in {"store", "commit"} => BytesFree(tx_buf) > 0
    /\ main.pc = "store"   => main.slot = tx_buf.write_pos
    /\ main.pc = "commit"  => tx_buf.buf[tx_buf.write_pos] = Head(main.todo)
    /\ main.pc \in {"load", "release"} => BytesUsed(rx_buf) > 0
    /\ main.pc = "load"    => main.slot = rx_buf.read_pos
    /\ main.pc = "release" => main.c = rx_buf.buf[rx_buf.read_pos]
    /\ main.pc = "flush_tc" => BytesUsed(tx_buf) = 0
    /\ tc => shift = <<>> /\ tdr = <<>>

\* When uart_flush returns, every byte written before has left the wire: the
\* moment between the ring running empty and TC being cleared is not visible.
FlushMeansSent ==
    [][main.pc = "flush_tc" /\ main'.pc = "idle" => wire = submitted]_vars

\* Every byte put into the ring is sent in the end, and every uart_putc,
\* uart_write and uart_flush returns, also when the ring is full.
EverythingIsSent ==
    \A n \in 1 .. MaxTx : Len(submitted) >= n ~> Len(wire) >= n

CallsReturn == main.pc # "idle" ~> main.pc = "idle"
=============================================================================

-------------------------------- MODULE Packets --------------------------------
(***************************************************************************)
(* The packet layer: COBS/R framing (cobsr.c) and the two receivers of     *)
(* framed packets, msg_recv of the boot loader (msg_packet.c) and          *)
(* Connection of the ground station (Connection.cpp), at the end of a      *)
(* line that loses and damages bytes and pauses.                           *)
(*                                                                         *)
(* The sizes are parameters, as the framing depends on a byte only through *)
(* its being 0, and through its order relative to the length codes.        *)
(***************************************************************************)
EXTENDS Integers, Sequences, SequencesExt

CONSTANTS
    ByteMax,        \* 255: the largest byte and the length code of a full run
    CrcSize,        \* 2: bytes of the checksum
    IdSize,         \* 2: bytes of the message id
    MaxData,        \* MSG_MAX_DATA_SIZE
    PacketTimeout,  \* PACKET_TIMEOUT
    Crc(_),         \* the checksum of a sequence of bytes, as bytes
    Messages,       \* the messages that are sent: id and data in one sequence
    MaxFaults       \* bound on damaged and lost bytes

Bytes == 0 .. ByteMax

\* crc, id and data of a msg_generic.
MaxPacket == CrcSize + IdSize + MaxData

ASSUME PacketsAssumption ==
    /\ ByteMax \in Nat \ {0, 1} /\ PacketTimeout \in Nat /\ MaxFaults \in Nat
    /\ {CrcSize, IdSize, MaxData} \subseteq Nat
    /\ \A m \in Messages : /\ m \in Seq(Bytes) /\ Crc(m) \in [1 .. CrcSize -> Bytes]
                           /\ Len(m) \in IdSize .. IdSize + MaxData

\* Returned by the conversions instead of a sequence of bytes.
Failure == <<-1>>

-----------------------------------------------------------------------------
(* cobsr.c                                                                 *)

\* COBSR_ENCODE_DST_BUF_LEN_MAX
EncodedMax(n) == n + n \div (ByteMax - 1) + 1

\* Code byte and bytes of a group that is complete: the code counts itself.
Group(run) == <<Len(run) + 1>> \o run

\* One byte of the source: out are the groups that are complete, run is the
\* one that is being written.  A full run gets its code as soon as another
\* byte follows.
EncodeByte(st, b, dst_len) ==
    LET full == Len(st.run) + 1 = ByteMax
        out  == IF full THEN st.out \o Group(st.run) ELSE st.out
        run  == IF full THEN <<>> ELSE st.run
    IN  [out  |-> IF b = 0 THEN out \o Group(run) ELSE out,
         run  |-> IF b = 0 THEN <<>> ELSE Append(run, b),
         fits |-> st.fits /\ Len(out) + Len(run) + 1 < dst_len]

\* The last group: its last byte, if it is no less than the code, takes the
\* place of the code.
LastGroup(run) ==
    IF run # <<>> /\ Last(run) >= Len(run) + 1
    THEN <<Last(run)>> \o Front(run)
    ELSE Group(run)

cobsr_encode(src, dst_len) ==
    LET st[i \in 0 .. Len(src)] ==
            IF i = 0 THEN [out |-> <<>>, run |-> <<>>, fits |-> TRUE]
                     ELSE EncodeByte(st[i - 1], src[i], dst_len)
        end == st[Len(src)]
    IN  IF end.fits /\ Len(end.out) < dst_len
        THEN end.out \o LastGroup(end.run)
        ELSE Failure

\* The group at position p is not the last one.
More(src, p) == src[p] - 1 < Len(src) - p

\* What it stands for: a full run has no zero behind it, and a code that counts
\* beyond the end is the last byte.
Piece(src, p) ==
    LET code == src[p]
        run  == SubSeq(src, p + 1, IF More(src, p) THEN p + code - 1 ELSE Len(src))
    IN  IF More(src, p) THEN (IF code # ByteMax THEN Append(run, 0) ELSE run)
        ELSE IF code - 1 > Len(src) - p THEN Append(run, code) ELSE run

\* A mutant: nothing looks at the size of the destination.
FitsAlways(dst, dst_len) == TRUE

\* Each write is behind a check of the room that is left: what fits piece by piece is
\* what fits as a whole.
Fits(dst, dst_len) == Len(dst) <= dst_len

\* The bytes of src without any 0, group by group.
cobsr_decode(src, dst_len) ==
    LET groups[p \in 1 .. Len(src)] ==
            IF More(src, p) THEN Piece(src, p) \o groups[p + src[p]] ELSE Piece(src, p)
        dst == IF src = <<>> THEN <<>> ELSE groups[1]
    IN  IF (\E i \in 1 .. Len(src) : src[i] = 0) \/ ~Fits(dst, dst_len) THEN Failure ELSE dst

-----------------------------------------------------------------------------
(* msg_packet.c, Connection.cpp                                            *)

\* MAX_BUF_LENGTH: the longest packet and its end marker.
MaxBufLength == EncodedMax(MaxPacket) + 1

\* msg_send with its buffer of fixed size, encodeMessage with one that is as
\* long as the message needs.
Encode(side, m) ==
    LET packet == Crc(m) \o m
    IN  cobsr_encode(packet, IF side = "host" THEN MaxBufLength - 1
                                              ELSE EncodedMax(Len(packet)))

\* The end of msg_recv, and decodeMessage: the message, or Failure.
Decode(buf) ==
    LET packet == cobsr_decode(buf, MaxPacket)
        m      == SubSeq(packet, CrcSize + 1, Len(packet))
    IN  IF packet = Failure THEN Failure
        ELSE IF Len(packet) < CrcSize + IdSize THEN Failure
        ELSE IF Crc(m) # SubSeq(packet, 1, CrcSize) THEN Failure
        ELSE m

VARIABLES
    side,       \* which receiver this is: "board" (msg_recv) or "host" (Connection)
    wire,       \* bytes under way
    rx_buf,     \* bytes of the packet that is being received
    t,          \* msg_recv: ticks since t0
    received,   \* the messages received since the last Send
    due,        \* ghost: the message under way, and whether it is undisturbed
    faults      \* bytes lost or damaged so far

vars == <<side, wire, rx_buf, t, received, due, faults>>

Init ==
    /\ side \in {"board", "host"}
    /\ wire = <<>> /\ rx_buf = <<>> /\ t = 0
    /\ received = <<>>
    /\ due = [msg |-> Failure, clean |-> FALSE, aligned |-> TRUE, age |-> 0]
    /\ faults = 0

\* The other side sends a packet and its end marker.
Send ==
    /\ wire = <<>>
    /\ \E m \in Messages :
         /\ wire' = IF Encode(side, m) = Failure THEN <<>>
                                                 ELSE Append(Encode(side, m), 0)
         /\ due' = [due EXCEPT !.msg = m, !.clean = due.aligned, !.age = 0]
    /\ received' = <<>>
    /\ UNCHANGED <<side, rx_buf, t, faults>>

\* The line: a byte is lost, or becomes another one.
Damage ==
    /\ wire # <<>> /\ faults < MaxFaults
    /\ \/ wire' = Tail(wire)
       \/ \E b \in Bytes \ {Head(wire)} : wire' = <<b>> \o Tail(wire)
    /\ due' = [due EXCEPT !.clean = FALSE]
    /\ faults' = faults + 1
    /\ UNCHANGED <<side, rx_buf, t, received>>

\* Ghost: c was heard.  Between two end markers the age counts from the first
\* byte on.
Heard(c) == due' = [due EXCEPT !.aligned = (c = 0), !.age = IF due.aligned THEN 0 ELSE @]

\* msg_recv returns, with a message or an error, and is called again.
Return(result) ==
    /\ received' = IF result = Failure THEN received ELSE Append(received, result)
    /\ rx_buf' = <<>> /\ t' = 0

EndMarker ==
    /\ wire # <<>> /\ Head(wire) = 0
    /\ wire' = Tail(wire) /\ Heard(0)
    /\ Return(Decode(rx_buf))
    /\ UNCHANGED <<side, faults>>

TooLong(buf) == Len(buf) >= MaxBufLength

\* A mutant: the time is counted from the call on.
StartNever(buf) == t

\* The timeout is restarted by the first byte.
Start(buf) == IF Len(buf) = 1 THEN 0 ELSE t

\* One iteration of msg_recv with a byte of a packet.
msg_recv ==
    /\ side = "board"
    /\ wire # <<>> /\ Head(wire) # 0
    /\ wire' = Tail(wire) /\ Heard(Head(wire))
    /\ LET buf == Append(rx_buf, Head(wire))
       IN  IF Start(buf) > PacketTimeout \/ TooLong(buf)
           THEN Return(Failure)
           ELSE rx_buf' = buf /\ t' = Start(buf) /\ UNCHANGED received
    /\ UNCHANGED <<side, faults>>

\* One that finds no byte.
msg_recv_idle ==
    /\ side = "board"
    /\ t > PacketTimeout
    /\ Return(Failure)
    /\ UNCHANGED <<side, wire, due, faults>>

\* Connection keeps whatever comes until there is an end marker.
ioDevice_readyRead ==
    /\ side = "host"
    /\ wire # <<>> /\ Head(wire) # 0
    /\ wire' = Tail(wire) /\ Heard(Head(wire))
    /\ rx_buf' = Append(rx_buf, Head(wire))
    /\ UNCHANGED <<side, t, received, faults>>

\* Time passes; both clocks stop when they are past the timeout.  A packet that
\* takes longer than that from its first byte on counts as disturbed.
Tick ==
    LET older(x) == IF x > PacketTimeout THEN x ELSE x + 1
    IN  /\ side = "board"
        /\ t' = older(t)
        /\ due' = IF due.aligned THEN due
                  ELSE [due EXCEPT !.age = older(@),
                                   !.clean = @ /\ older(due.age) <= PacketTimeout]
        /\ UNCHANGED <<side, wire, rx_buf, received, faults>>

Next == \/ Send \/ Damage \/ Tick
        \/ EndMarker \/ msg_recv \/ msg_recv_idle \/ ioDevice_readyRead

Spec == Init /\ [][Next]_vars

-----------------------------------------------------------------------------
(* Properties                                                              *)

\* A message fits into a msg_generic.
Message(m) == m \in Seq(Bytes) /\ Len(m) \in IdSize .. IdSize + MaxData

\* The receive buffer of msg_recv is never overrun, and neither is the
\* msg_generic into which either receiver decodes, whatever the line does.
TypeOK ==
    /\ side \in {"board", "host"}
    /\ wire \in Seq(Bytes) /\ rx_buf \in Seq(Bytes \ {0})
    /\ side = "board" => Len(rx_buf) < MaxBufLength
    /\ t \in 0 .. PacketTimeout + 1
    /\ \A i \in 1 .. Len(received) : Message(received[i])
    /\ due \in [msg : {Failure} \cup Messages, clean : BOOLEAN, aligned : BOOLEAN,
               age : 0 .. PacketTimeout + 1]
    /\ faults \in 0 .. MaxFaults

\* A message that comes through undisturbed is received once and as it was sent: from
\* the first end marker after any disturbance on, with a line that had been
\* silent for any time, and for every message, zeros and full runs included.
CleanPacketArrives ==
    wire = <<>> /\ due.clean => received = <<due.msg>>
=============================================================================

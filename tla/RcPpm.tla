--------------------------------- MODULE RcPpm ---------------------------------
(***************************************************************************)
(* The decoder of the PPM sum signal (rc_ppm.c): the edges on the wire,    *)
(* TIM12 in one pulse mode, which captures their times and ends a frame    *)
(* when it expires, and the interrupt handler, which other interrupts and  *)
(* critical sections delay.  The wire and the timer go on between any two  *)
(* of its accesses to the timer.  Time is discrete; the signal quality     *)
(* (rssi) and the time stamp are left out, the age of a frame is in Flight.*)
(* (PpmInit, PpmNext, ...: Flight_proofs extends this module and Flight.)  *)
(***************************************************************************)
EXTENDS Integers, Sequences

CONSTANTS
    min_width,          \* 800 us
    max_width,          \* 2500 us
    sync_width,         \* 3800 us
    expected_channels,  \* 8
    RC_MAX_CHANNELS,    \* 10
    FrameLimit,         \* 50000: the literal of the handler
    Modulus,            \* 65536
    Widths,             \* channels as the transmitter sends them: 1000 .. 2000 us
    Scenarios           \* how late the handler may return, whether there are
                        \* glitches, and whether frames may be too long

ASSUME RcPpmAssumption ==
    /\ min_width \in Nat \ {0} /\ max_width \in Nat /\ sync_width \in Nat
    /\ min_width < max_width /\ max_width < sync_width
    /\ Widths \subseteq min_width .. max_width - 1 /\ Widths # {}
    /\ expected_channels \in 1 .. RC_MAX_CHANNELS /\ RC_MAX_CHANNELS \in Nat
    /\ FrameLimit \in Nat \ {0} /\ Modulus \in Nat /\ FrameLimit + sync_width <= Modulus
    \* Interrupts and critical sections hold the handler up for less than that.
    /\ Scenarios \subseteq [latency : 0 .. sync_width, glitches : BOOLEAN, long : BOOLEAN]

VARIABLES
    use,            \* the scenario
    wire,           \* next: time to the next edge; width: of the channel under
                    \* way, 0 in the pause; sent: widths since the pause, up
                    \* to one more than expected; time: since the first edge,
                    \* up to FrameLimit
    quiet,          \* no disturbance from now on
    tim,            \* TIM12: CNT, CEN, ARR, CCR2, CC2IF, UIF
    isr,            \* position in the handler, flags it has read from SR, and
                    \* how long it has been due
    frame,          \* valid, channels, t0: the statics of the handler
    rc_ppm_input    \* valid; the channels are copied along with it

ppmVars == <<use, wire, quiet, tim, isr, frame, rc_ppm_input>>

\* With nothing else to delay it, the handler is done before the next edge.
Latency == IF quiet THEN min_width - 1 ELSE use.latency

\* The pause between frames leaves the handler time to end one: it may have
\* taken a glitch for the last edge, and the counter passes ARR before it stops.
Pause == sync_width + 2 * use.latency + 2

\* TIM_TimeBaseInit sets the update flag with its software update.  The wire is
\* in a pause that lasts until the handler has seen to it, or in a frame
\* of not too many channels.
PpmInit ==
    /\ use \in Scenarios
    /\ \/ wire = [next |-> use.latency + 1, width |-> 0, sent |-> <<>>, time |-> 0]
       \/ ~use.long /\ \E w \in Widths : wire = [next |-> 1, width |-> w, sent |-> <<>>, time |-> 0]
    /\ quiet = FALSE
    /\ tim = [cnt |-> 0, cen |-> FALSE, arr |-> max_width, ccr2 |-> 0,
              cc2if |-> FALSE, uif |-> TRUE]
    /\ isr = [pc |-> "idle", cc2if |-> FALSE, uif |-> FALSE, late |-> 0]
    /\ frame = [valid |-> FALSE, channels |-> <<>>, t0 |-> 0]
    /\ rc_ppm_input = [valid |-> FALSE]

-----------------------------------------------------------------------------
(* The wire and the timer                                                  *)

\* An edge starts the counter, and its time is captured over the last one.
Captured == [tim EXCEPT !.cen = TRUE, !.ccr2 = tim.cnt, !.cc2if = TRUE]

Period == IF wire.width = 0 THEN Pause ELSE wire.width

\* The channel under way is complete.
Sent == IF Len(wire.sent) > expected_channels THEN wire.sent
                                              ELSE Append(wire.sent, wire.width)

Time == IF wire.time + wire.width < FrameLimit THEN wire.time + wire.width ELSE FrameLimit

\* The edge that ends a pause begins a frame.
FirstEdge ==
    /\ wire.next = 0 /\ wire.width = 0
    /\ \E w \in Widths : wire' = [next |-> w, width |-> w, sent |-> <<>>, time |-> 0]
    /\ tim' = Captured
    /\ UNCHANGED <<use, quiet, isr, frame, rc_ppm_input>>

\* The edge that ends a channel begins the next one or the pause.
NextEdge ==
    /\ wire.next = 0 /\ wire.width # 0
    /\ \/ /\ Len(Sent) < expected_channels \/ (use.long /\ ~quiet)
          /\ \E w \in Widths :
                wire' = [next |-> w, width |-> w, sent |-> Sent, time |-> Time]
       \/ /\ Len(Sent) >= expected_channels \/ ~quiet
          /\ wire' = [next |-> Pause, width |-> 0, sent |-> Sent, time |-> Time]
    /\ tim' = Captured
    /\ UNCHANGED <<use, quiet, isr, frame, rc_ppm_input>>

\* An edge that follows a true one too soon to be another.
Glitch ==
    /\ use.glitches /\ ~quiet
    /\ wire.next > 0 /\ Period - wire.next \in 1 .. min_width - 1
    /\ tim' = Captured
    /\ UNCHANGED <<use, wire, quiet, isr, frame, rc_ppm_input>>

Quiet ==
    /\ ~quiet /\ quiet' = TRUE
    /\ UNCHANGED <<use, wire, tim, isr, frame, rc_ppm_input>>

Due == isr.pc # "idle" \/ tim.cc2if \/ tim.uif

\* The counter stops when it passes ARR.
Counted ==
    IF ~tim.cen THEN tim
    ELSE IF tim.cnt = tim.arr THEN [tim EXCEPT !.cnt = 0, !.cen = FALSE, !.uif = TRUE]
    ELSE [tim EXCEPT !.cnt = (@ + 1) % Modulus]

\* Without a transmitter the pause goes on.
PpmTick ==
    /\ wire.next > 0 \/ (wire.width = 0 /\ ~quiet)
    /\ Due => isr.late < Latency
    /\ wire' = [wire EXCEPT !.next = IF @ = 0 THEN 0 ELSE @ - 1]
    /\ tim' = Counted
    /\ isr' = [isr EXCEPT !.late = IF Due THEN @ + 1 ELSE 0]
    /\ UNCHANGED <<use, quiet, frame, rc_ppm_input>>

-----------------------------------------------------------------------------
(* TIM8_BRK_TIM12_IRQHandler                                               *)

Idle == [pc |-> "idle", cc2if |-> FALSE, uif |-> FALSE, late |-> 0]

ReadStatus ==
    /\ isr.pc = "idle" /\ (tim.cc2if \/ tim.uif)
    /\ isr' = [isr EXCEPT !.pc = "capture", !.cc2if = tim.cc2if, !.uif = tim.uif]
    /\ UNCHANGED <<use, wire, quiet, tim, frame, rc_ppm_input>>

\* A mutant: a frame may get longer than the counter counts.
EndOfFrameNoLimit(t0) == (t0 + sync_width) % Modulus

\* ARR, 16 bits.
EndOfFrame(t0) == IF t0 < FrameLimit THEN (t0 + sync_width) % Modulus ELSE tim.arr

\* A mutant: a channel more than there is room for.
RoomOneMore == Len(frame.channels) <= RC_MAX_CHANNELS

Room == Len(frame.channels) < RC_MAX_CHANNELS

\* What an edge at time t after the last one makes of the frame.
WithEdge(t) ==
    LET t0 == (frame.t0 + t) % Modulus
    IN  IF t < max_width /\ Room
        THEN [frame EXCEPT !.channels = Append(@, t), !.t0 = t0]
        ELSE [frame EXCEPT !.valid = FALSE, !.t0 = t0]

\* Reading CCR2 clears CC2IF.
CapturePart ==
    /\ isr.pc = "capture"
    /\ IF isr.cc2if
       THEN LET t    == (tim.ccr2 - frame.t0) % Modulus
                read == [tim EXCEPT !.cc2if = FALSE]
            IN  IF t < min_width
                THEN tim' = read /\ UNCHANGED frame
                ELSE /\ frame' = WithEdge(t)
                     /\ tim' = [read EXCEPT !.arr = EndOfFrame(frame'.t0)]
       ELSE UNCHANGED <<tim, frame>>
    /\ isr' = IF isr.uif THEN [isr EXCEPT !.pc = "publish"] ELSE Idle
    /\ UNCHANGED <<use, wire, quiet, rc_ppm_input>>

\* A mutant: the channels are not counted.
CompleteAnyCount == TRUE

Complete == Len(frame.channels) = expected_channels

\* A mutant: valid is not set again.
NewFrameStillInvalid == [valid |-> frame.valid, channels |-> <<>>, t0 |-> 0]

NewFrame == [valid |-> TRUE, channels |-> <<>>, t0 |-> 0]

\* The frame is copied and reset, and the counter stopped.
Publish ==
    /\ isr.pc = "publish"
    /\ rc_ppm_input' = [valid |-> frame.valid /\ Complete]
    /\ frame' = NewFrame
    /\ tim' = [tim EXCEPT !.cen = FALSE]
    /\ isr' = [isr EXCEPT !.pc = "read_sr"]
    /\ UNCHANGED <<use, wire, quiet>>

\* "SR &= ~UIF" writes the zeros that it has read: a flag that is set in
\* between is cleared with UIF.
ReadSR ==
    /\ isr.pc = "read_sr"
    /\ isr' = [isr EXCEPT !.pc = "restart", !.cc2if = tim.cc2if]
    /\ UNCHANGED <<use, wire, quiet, tim, frame, rc_ppm_input>>

Restart ==
    /\ isr.pc = "restart"
    /\ tim' = [tim EXCEPT !.cc2if = @ /\ isr.cc2if, !.uif = FALSE,
                          !.arr = sync_width, !.cnt = 0]
    /\ isr' = Idle
    /\ UNCHANGED <<use, wire, quiet, frame, rc_ppm_input>>

-----------------------------------------------------------------------------
Edge == FirstEdge \/ NextEdge

Handler == ReadStatus \/ CapturePart \/ Publish \/ ReadSR \/ Restart

PpmNext == Edge \/ Glitch \/ Quiet \/ PpmTick \/ Handler

\* Time passes, the transmitter goes on, and the interrupt is taken.
PpmSpec ==
    /\ PpmInit /\ [][PpmNext]_ppmVars
    /\ WF_ppmVars(PpmTick) /\ WF_ppmVars(Edge) /\ WF_ppmVars(Handler)

-----------------------------------------------------------------------------
(* Properties                                                              *)

Flags == [pc : {"idle", "capture", "publish", "read_sr", "restart"},
          cc2if : BOOLEAN, uif : BOOLEAN, late : Nat]

\* Channels are pulses, as many as there is room for, and every register
\* holds a number of its width.
PpmTypeOK ==
    /\ use \in Scenarios /\ quiet \in BOOLEAN
    /\ wire \in [next : Nat, width : Widths \cup {0}, sent : Seq(Widths),
                time : 0 .. FrameLimit]
    /\ tim \in [cnt : 0 .. Modulus - 1, cen : BOOLEAN, arr : 0 .. Modulus - 1,
                ccr2 : 0 .. Modulus - 1, cc2if : BOOLEAN, uif : BOOLEAN]
    /\ isr \in Flags
    /\ frame \in [valid : BOOLEAN, channels : Seq(min_width .. max_width - 1),
                 t0 : 0 .. Modulus - 1]
    /\ Len(frame.channels) <= RC_MAX_CHANNELS
    /\ rc_ppm_input \in [valid : BOOLEAN]

\* The counter always gets to its end: however long a frame is and however
\* late its edges are looked at, ARR is never behind CNT, which would have the
\* counter wrap at 16 bits before the frame ends.
CounterReachesArr == tim.cen => tim.cnt <= tim.arr

\* A glitch that is captured over a true edge moves the edge by the latency.
Tolerance == IF use.glitches THEN use.latency ELSE 0

Total(widths) ==
    LET sum[i \in 0 .. Len(widths)] == IF i = 0 THEN 0 ELSE sum[i - 1] + widths[i]
    IN  sum[Len(widths)]

NearTo(a, b) ==
    /\ Len(a) = Len(b)
    /\ \A i \in DOMAIN a :
          Total(SubSeq(a, 1, i)) - Total(SubSeq(b, 1, i)) \in -Tolerance .. Tolerance

\* A frame that is published as valid is the one that was on the wire, channel
\* by channel and whole: edges that are lost or merged because the handler
\* came late, or at the end of the frame, never make a valid frame of another
\* one.  (Of a frame longer than the counter allows, the end may pass for one.)
ValidFrameIsWhatWasSent ==
    [][Publish /\ rc_ppm_input'.valid =>
         /\ wire.width = 0
         /\ wire.time < FrameLimit => NearTo(frame.channels, wire.sent)]_ppmVars

\* After any disturbance the decoder gets back in step: from some time on every
\* frame of a regular signal is valid.
Recovers == <>quiet => <>[]rc_ppm_input.valid
=============================================================================

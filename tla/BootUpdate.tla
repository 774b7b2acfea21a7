------------------------------ MODULE BootUpdate ------------------------------
(***************************************************************************)
(* A firmware update: QuadControl (BootProtocol.cpp, called by             *)
(* UpdateWindow.cpp) and the boot loader (Bootloader/main.c), with a link  *)
(* that loses and delays packets but keeps their order.  Packets that fail *)
(* the checksum are the lost ones; text packets are left out.  Of the      *)
(* flash, every chunk of one write request is a cell.                      *)
(***************************************************************************)
EXTENDS Naturals, Sequences

CONSTANTS
    Sectors,    \* the cells of each flash sector, in the order of erasing
    Sections,   \* the cells of each section of the hex file, in its order
    OldImage,   \* the cells of the application installed before
    AckWindow,  \* 10: writes under way before an answer is awaited
    MaxFaults   \* bound: packets lost or late, power cuts, flash errors,
                \* clicks on "Cancel"

Cells == UNION {Sectors[n] : n \in DOMAIN Sectors}

Section(s) == {Sections[s][k] : k \in DOMAIN Sections[s]}

NewImage == UNION {Section(s) : s \in DOMAIN Sections}

ASSUME BootAssumption ==
    /\ Cells \subseteq Nat
    /\ Sectors \in Seq(SUBSET Cells) /\ Sectors # <<>>
    /\ Sections \in Seq(Seq(Cells) \ {<<>>}) /\ Sections # <<>>
    /\ \A s, t \in DOMAIN Sections : s # t => Section(s) \cap Section(t) = {}
    /\ OldImage \subseteq Cells
    /\ AckWindow \in Nat \ {0} /\ MaxFaults \in Nat

\* Of a cell: its content in the old or the new image, or neither.
Contents == {"empty", "old", "new", "mixed"}

VARIABLES
    flash,    \* the contents of the cells
    mode,     \* "loop": the boot loader's message_loop; "app"
    boot,     \* boot_active, boot_exit and the request whose flash operation
              \* is running
    up, down, \* packets to the boot loader, packets to the host (the ones
              \* waiting in messageQueue included)
    host,     \* sendHexFile: where it is, sector or section, loop index
    result,   \* how the last sendHexFile ended
    fresh,    \* history: nothing was under way when the update began
    faults

target == <<flash, mode, boot>>
vars   == <<target, up, down, host, result, fresh, faults>>

Fault == faults < MaxFaults /\ faults' = faults + 1

NoRequest == [id |-> "none", arg |-> 0]

AtReset == [active |-> FALSE, exit |-> FALSE, busy |-> NoRequest]

Init ==
    /\ flash = [c \in Cells |-> IF c \in OldImage THEN "old" ELSE "empty"]
    /\ mode \in {"loop", "app"} /\ boot = AtReset
    /\ up = <<>> /\ down = <<>>
    /\ host = [pc |-> "idle", at |-> 0, i |-> 0] /\ result = "none"
    /\ fresh = TRUE /\ faults = 0

Whole(f, image, content) == \A c \in image : f[c] = content

-----------------------------------------------------------------------------
(* Boot loader: answers                                                    *)

\* The four bytes after the error code: the number of a section whose
\* checksum they are, or 0 for anything else.  (A packet without data leaves
\* there what an earlier packet brought: a text, or another section's checksum.)
Respond(ok, crc) == down' = Append(down, [ok |-> ok, crc |-> crc])

handle_boot_verify(s) ==
    Respond(TRUE, IF Whole(flash, Section(s), "new") THEN s ELSE 0)

\* Programming clears bits, so only an erased cell gets its content.
Programmed(old) == IF old \in {"empty", "new"} THEN "new" ELSE "mixed"

\* What a flash operation makes of each of its cells; and what it may leave
\* when it is broken off.
Done(req) ==
    [c \in Cells |->
       IF req.id = "write" /\ c = req.arg THEN Programmed(flash[c])
       ELSE IF req.id = "erase" /\ c \in Sectors[req.arg] THEN "empty"
       ELSE flash[c]]

BrokenOff(req) ==
    {f \in [Cells -> Contents] :
        \A c \in Cells : \/ f[c] \in {flash[c], Done(req)[c]}
                         \/ f[c] = "mixed" /\ Done(req)[c] # flash[c]}

-----------------------------------------------------------------------------
(* Boot loader: message_loop                                               *)

Receive(id) ==
    /\ mode = "loop" /\ boot.busy = NoRequest /\ ~boot.exit
    /\ up # <<>> /\ Head(up).id \in id
    /\ up' = Tail(up)
    /\ UNCHANGED <<flash, mode, host, result, fresh, faults>>

handle_boot_enter ==
    /\ Receive({"enter"})
    /\ boot' = [boot EXCEPT !.active = TRUE]
    /\ Respond(TRUE, 0)

\* EBOOT_INACTIVE; and EMSG_UNKNOWN for the text of bootResetHack.
handle_message_error ==
    /\ \/ ~boot.active /\ Receive({"shell", "erase", "write", "verify", "exit"})
       \/ boot.active /\ Receive({"shell"})
    /\ Respond(FALSE, 0)
    /\ UNCHANGED boot

handle_message_verify ==
    /\ boot.active /\ Receive({"verify"})
    /\ handle_boot_verify(Head(up).arg)
    /\ UNCHANGED boot

\* A mutant: only the first cell is looked at.
check_empty_first(n) == flash[CHOOSE c \in Sectors[n] : \A d \in Sectors[n] : c <= d] = "empty"

check_empty(n) == Whole(flash, Sectors[n], "empty")

\* A sector that is empty already is not erased again.
handle_boot_erase_skip ==
    /\ boot.active /\ Receive({"erase"})
    /\ check_empty(Head(up).arg)
    /\ Respond(TRUE, 0)
    /\ UNCHANGED boot

handle_boot_erase_write ==
    /\ boot.active /\ Receive({"erase", "write"})
    /\ Head(up).id = "erase" => ~check_empty(Head(up).arg)
    /\ boot' = [boot EXCEPT !.busy = Head(up)]
    /\ UNCHANGED down

handle_boot_exit ==
    /\ boot.active /\ Receive({"exit"})
    /\ boot' = [boot EXCEPT !.exit = TRUE]
    /\ Respond(TRUE, 0)

FlashDone ==
    /\ boot.busy # NoRequest
    /\ flash' = Done(boot.busy)
    /\ boot' = [boot EXCEPT !.busy = NoRequest]
    /\ Respond(TRUE, 0)
    /\ UNCHANGED <<mode, up, host, result, fresh, faults>>

FlashError ==
    /\ boot.busy # NoRequest
    /\ Fault
    /\ flash' \in BrokenOff(boot.busy)
    /\ boot' = [boot EXCEPT !.busy = NoRequest]
    /\ Respond(FALSE, 0)
    /\ UNCHANGED <<mode, up, host, result, fresh>>

-----------------------------------------------------------------------------
(* Boot loader: reset, time-out and start of the application               *)

\* The program that begins finds nothing of what the UART had received.
Restart(m) ==
    /\ mode' = m /\ boot' = AtReset
    /\ \E n \in 0 .. Len(up) : up' = SubSeq(up, n + 1, Len(up))

check_app == Whole(flash, OldImage, "old") \/ Whole(flash, NewImage, "new")

\* A mutant: started unchecked.
start_app_unchecked ==
    /\ Restart("app")
    /\ UNCHANGED <<flash, down, host, result, fresh>>

\* check_app, then the application or NVIC_SystemReset.
start_app ==
    /\ \/ check_app /\ Restart("app")
       \/ ~check_app /\ Restart("loop")
    /\ UNCHANGED <<flash, down, host, result, fresh>>

Quiet == up = <<>> /\ down = <<>> /\ boot.busy = NoRequest

message_loop_exit ==
    /\ mode = "loop" /\ boot.exit
    /\ start_app
    /\ UNCHANGED faults

\* A mutant: a session that has begun is never given up.
BootTimeoutInactive ==
    /\ mode = "loop" /\ ~boot.exit /\ ~boot.active /\ boot.busy = NoRequest
    /\ IF \/ up = <<>> /\ host.pc = "idle"
          \/ Quiet /\ host.pc \in {"erase", "ack", "verify", "exit"}
       THEN UNCHANGED faults ELSE Fault
    /\ start_app

\* BOOT_TIMEOUT, 2000 ms after the last packet: the host does nothing or waits
\* as long itself (not for 500 ms, in bootEnter).  Otherwise a packet is late.
BootTimeout ==
    /\ mode = "loop" /\ ~boot.exit /\ boot.busy = NoRequest
    /\ IF \/ up = <<>> /\ host.pc = "idle"
          \/ Quiet /\ host.pc \in {"erase", "ack", "verify", "exit"}
       THEN UNCHANGED faults ELSE Fault
    /\ start_app

\* The application takes the text "reset" and nothing else.
AppReceive ==
    /\ mode = "app" /\ up # <<>>
    /\ IF Head(up).id = "shell"
       THEN /\ mode' = "loop" /\ boot' = AtReset
            /\ \E n \in 1 .. Len(up) : up' = SubSeq(up, n + 1, Len(up))
       ELSE up' = Tail(up) /\ UNCHANGED <<mode, boot>>
    /\ UNCHANGED <<flash, down, host, result, fresh, faults>>

\* Answers that had not left the UART are lost as well.
PowerLoss ==
    /\ Fault
    /\ Restart("loop")
    /\ flash' \in BrokenOff(boot.busy)
    /\ \E n \in 0 .. Len(down) : down' = SubSeq(down, 1, n)
    /\ UNCHANGED <<host, result, fresh>>

-----------------------------------------------------------------------------
(* The link                                                                *)

LoseRequest ==
    /\ up # <<>> /\ up' = Tail(up)
    /\ Fault
    /\ UNCHANGED <<target, down, host, result, fresh>>

LoseResponse ==
    /\ down # <<>> /\ down' = Tail(down)
    /\ Fault
    /\ UNCHANGED <<target, up, host, result, fresh>>

-----------------------------------------------------------------------------
(* Host: bootGetResponse                                                   *)

\* An answer that is there, whatever request it belongs to.
Response(ok) ==
    /\ down # <<>> /\ Head(down).ok = ok
    /\ down' = Tail(down)
    /\ UNCHANGED faults

\* The time-out.  While an answer would still come, that answer is late.
Timeout ==
    /\ IF Quiet THEN UNCHANGED faults ELSE Fault
    /\ UNCHANGED down

NoResponse == Response(FALSE) \/ Timeout

-----------------------------------------------------------------------------
(* Host: sendHexFile, called by updateButton_clicked                       *)

\* sendMessage, then wait for the answer.
Ask(pc, at, id) ==
    /\ host' = [pc |-> pc, at |-> at, i |-> 0]
    /\ up' = Append(up, [id |-> id, arg |-> at])
    /\ UNCHANGED <<target, result, fresh>>

Return(res) ==
    /\ host' = [pc |-> "idle", at |-> 0, i |-> 0]
    /\ result' = res
    /\ UNCHANGED <<target, fresh>>

\* A click makes a new BootProtocol with an empty messageQueue; a retry by
\* tryAction keeps the queue.
updateButton_clicked ==
    /\ host.pc = "idle"
    /\ \E n \in 0 .. Len(down) : down' = SubSeq(down, n + 1, Len(down))
    /\ host' = [pc |-> "hack", at |-> 0, i |-> 0]
    /\ up' = Append(up, [id |-> "shell", arg |-> 0])
    /\ fresh' = (up = <<>> /\ down' = <<>> /\ boot.busy = NoRequest)
    /\ UNCHANGED <<target, result, faults>>

\* bootResetHack ignores what it gets, bootEnter follows.
bootResetHack ==
    /\ host.pc = "hack"
    /\ Response(TRUE) \/ NoResponse
    /\ Ask("enter", 0, "enter")

\* Again and again until it works.
bootEnterRepeat ==
    /\ host.pc = "enter"
    /\ NoResponse
    /\ Ask("hack", 0, "shell")

bootEnter ==
    /\ host.pc = "enter"
    /\ Response(TRUE)
    /\ Ask("erase", 1, "erase")

BeginSection(s) ==
    /\ host' = [pc |-> "write", at |-> s, i |-> 0]
    /\ UNCHANGED <<target, up, result, fresh>>

bootEraseSector ==
    /\ host.pc = "erase"
    /\ Response(TRUE)
    /\ IF host.at < Len(Sectors) THEN Ask("erase", host.at + 1, "erase")
                                 ELSE BeginSection(1)

\* bootWriteData: round i of the loop writes chunk i, and then awaits the
\* answer to chunk i - ack_window.
Chunks == Len(Sections[host.at])

Window == IF AckWindow > Chunks THEN Chunks ELSE AckWindow

WriteChunk ==
    IF host.i < Chunks
    THEN up' = Append(up, [id |-> "write", arg |-> Sections[host.at][host.i + 1]])
    ELSE UNCHANGED up

bootWriteDataAsync ==
    /\ host.pc = "write"
    /\ WriteChunk
    /\ host' = IF host.i >= Window THEN [host EXCEPT !.pc = "ack"]
                                   ELSE [host EXCEPT !.i = @ + 1]
    /\ UNCHANGED <<target, down, result, fresh, faults>>

LastRound == host.i + 1 = Chunks + Window

bootWriteData ==
    /\ host.pc = "ack"
    /\ Response(TRUE)
    /\ IF LastRound
       THEN Ask("verify", host.at, "verify")
       ELSE /\ host' = [host EXCEPT !.pc = "write", !.i = @ + 1]
            /\ UNCHANGED <<target, up, result, fresh>>

\* A mutant: any answer will do.
MatchAny == down # <<>>

Match == down # <<>> /\ Head(down).crc = host.at

bootVerifyData ==
    /\ host.pc = "verify"
    /\ Match /\ Response(TRUE)
    /\ IF host.at < Len(Sections) THEN BeginSection(host.at + 1)
                                  ELSE Ask("exit", 0, "exit")

bootExit ==
    /\ host.pc = "exit"
    /\ Response(TRUE)
    /\ Return("ok")
    /\ UNCHANGED up

\* What bootGetResponse and bootVerifyData refuse ends sendHexFile.
Failure ==
    /\ host.pc \in {"erase", "ack", "verify", "exit"}
    /\ \/ NoResponse
       \/ host.pc = "verify" /\ ~Match /\ Response(TRUE)
    /\ Return("failed")
    /\ UNCHANGED up

\* wasCanceled is looked at after every successful step, and after every
\* chunk, whose answers then stay on their way.
Cancel ==
    /\ Fault
    /\ Return("canceled")
    /\ \/ host.pc = "write" /\ host.i < Chunks /\ WriteChunk /\ UNCHANGED down
       \/ /\ \/ host.pc \in {"enter", "erase"}
             \/ host.pc = "ack" /\ LastRound
             \/ host.pc = "verify" /\ Match
          /\ down # <<>> /\ (host.pc # "enter" => Head(down).ok)
          /\ down' = Tail(down)
          /\ UNCHANGED up
       \/ host.pc = "enter" /\ UNCHANGED <<up, down>>

-----------------------------------------------------------------------------
TargetStep ==
    \/ handle_boot_enter \/ handle_message_error \/ handle_message_verify
    \/ handle_boot_erase_skip \/ handle_boot_erase_write \/ handle_boot_exit
    \/ FlashDone \/ message_loop_exit \/ BootTimeout \/ AppReceive

HostStep ==
    \/ bootResetHack \/ bootEnterRepeat \/ bootEnter \/ bootEraseSector
    \/ bootWriteDataAsync \/ bootWriteData \/ bootVerifyData \/ bootExit
    \/ Failure

Next == \/ TargetStep \/ HostStep \/ updateButton_clicked
        \/ FlashError \/ PowerLoss \/ LoseRequest \/ LoseResponse \/ Cancel

\* Both programs run, and their timers expire.
Fairness == /\ WF_vars(UNCHANGED faults /\ TargetStep)
            /\ WF_vars(UNCHANGED faults /\ HostStep)

Spec == Init /\ [][Next]_vars /\ Fairness

-----------------------------------------------------------------------------
(* Properties                                                              *)

Operations == [id : {"erase"}, arg : DOMAIN Sectors] \cup [id : {"write"}, arg : Cells]

Requests == [id : {"shell", "enter", "exit"}, arg : {0}]
              \cup Operations \cup [id : {"verify"}, arg : DOMAIN Sections]

Responses == [ok : BOOLEAN, crc : 0 .. Len(Sections)]

BootStates == [active : BOOLEAN, exit : BOOLEAN, busy : {NoRequest} \cup Operations]

TypeOK ==
    /\ flash \in [Cells -> Contents]
    /\ mode \in {"loop", "app"} /\ boot \in BootStates
    /\ up \in Seq(Requests) /\ down \in Seq(Responses)
    /\ host \in [pc : {"idle", "hack", "enter", "erase", "write", "ack",
                       "verify", "exit"}, at : Nat, i : Nat]
    /\ host.pc = "erase" => host.at \in DOMAIN Sectors
    /\ host.pc \in {"write", "ack", "verify"} => host.at \in DOMAIN Sections
    /\ result \in {"none", "ok", "failed", "canceled"}
    /\ fresh \in BOOLEAN /\ faults \in 0 .. MaxFaults

\* The flash and the application are what Firmware promises.
Image == IF Whole(flash, NewImage, "new") THEN "new"
         ELSE IF Whole(flash, OldImage, "old") THEN "old" ELSE "part"

App == INSTANCE Firmware
         WITH Images <- {"old", "new"}, image <- Image, running <- (mode = "app")

ImplementsFirmware == App!Spec

\* The host is past section s.
Past(s) == \/ host.pc \in {"write", "ack", "verify"} /\ s < host.at
           \/ host.pc = "exit"

\* The host only goes on to the next section, and to the end, when the one
\* before is in the flash as it is in the file: unless answers were under way
\* already when the update began, no late answer and no checksum of another
\* moment is ever taken for the proof of it.
VerifiedSections ==
    fresh => \A s \in DOMAIN Sections :
        Past(s) => Whole(flash, Section(s), "new")

\* Why: at most one checksum is ever under way, it is the last thing under
\* way, and nothing that could make it untrue is left behind it.  (With TypeOK
\* and VerifiedSections this is inductive.)
Damages(req, s) ==
    \/ req.id = "erase"
    \/ req.id = "write" /\ req.arg \in Section(s)

NothingDamages(s) == ~Damages(boot.busy, s) /\ \A k \in DOMAIN up : ~Damages(up[k], s)

NoVerify == \A k \in DOMAIN up : up[k].id # "verify"

VerifyLast == \A k \in DOMAIN up :
                 up[k].id = "verify" => k = Len(up) /\ up[k].arg = host.at

NoChecksum == \A k \in DOMAIN down : down[k].crc = 0

ChecksumLast ==
    /\ up = <<>> /\ boot.busy = NoRequest
    /\ \A k \in DOMAIN down :
          down[k].crc # 0 => /\ k = Len(down) /\ down[k].crc = host.at
                             /\ Whole(flash, Section(host.at), "new")

VerifyPhases ==
    fresh =>
    /\ host.pc \notin {"idle", "verify"} => NoVerify /\ NoChecksum
    /\ host.pc = "verify" => VerifyLast /\ (NoChecksum \/ ChecksumLast)
    /\ \A s \in DOMAIN Sections : Past(s) => NothingDamages(s)

\* Whatever an interrupted update left behind, the next one on a quiet link
\* succeeds, if nothing goes wrong any more.
RetrySucceeds ==
    /\ host.pc = "hack" /\ faults = MaxFaults
    /\ Len(up) = 1 /\ down = <<>> /\ boot.busy = NoRequest
    ~> result = "ok"

\* A whole application is started in the end, by boot_exit or by the time-out,
\* unless the host begins another update or a late request damages it.
IntactAppRuns ==
    host.pc = "idle" /\ Image # "part"
        ~> \/ mode = "app"
           \/ host.pc # "idle" \/ Image = "part"

\* "ignore errors" (BootProtocol.cpp:106): the answer to the text of
\* bootResetHack does not matter, so that once nothing goes wrong any more the
\* host gets past bootEnter.
EnteringEnds ==
    host.pc \in {"hack", "enter"} ~> host.pc \notin {"hack", "enter"}
=============================================================================

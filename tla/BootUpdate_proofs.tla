--------------------------- MODULE BootUpdate_proofs ---------------------------
(***************************************************************************)
(* The update, for any sectors, any file, any window and any number of     *)
(* faults: the boot loader keeps the promises of Firmware, and the host    *)
(* never goes on before the section it leaves behind is in the flash.      *)
(***************************************************************************)
EXTENDS BootUpdate, TLAPS

-----------------------------------------------------------------------------
(* Sequences                                                               *)

LEMMA TailElements ==
  ASSUME NEW S, NEW s \in Seq(S), s # <<>>
  PROVE  /\ Tail(s) \in Seq(S) /\ Head(s) \in S /\ Head(s) = s[1]
         /\ Len(s) \in Nat \ {0} /\ Len(Tail(s)) = Len(s) - 1
         /\ \A k \in DOMAIN Tail(s) : k + 1 \in DOMAIN s /\ Tail(s)[k] = s[k + 1]
  OBVIOUS

LEMMA AppendElements ==
  ASSUME NEW S, NEW s \in Seq(S), NEW e \in S
  PROVE  /\ Append(s, e) \in Seq(S)
         /\ Len(Append(s, e)) = Len(s) + 1 /\ Append(s, e)[Len(s) + 1] = e
         /\ \A k \in DOMAIN Append(s, e) :
              \/ k \in DOMAIN s /\ Append(s, e)[k] = s[k]
              \/ k = Len(s) + 1
  OBVIOUS

\* What is left when the first n elements are gone.
LEMMA SuffixElements ==
  ASSUME NEW S, NEW s \in Seq(S), NEW n \in 0 .. Len(s)
  PROVE  LET t == SubSeq(s, n + 1, Len(s))
         IN  /\ t \in Seq(S) /\ Len(t) = Len(s) - n
             /\ \A k \in DOMAIN t : k + n \in DOMAIN s /\ t[k] = s[k + n]
  OBVIOUS

\* What is left when only the first n elements are kept.
LEMMA PrefixElements ==
  ASSUME NEW S, NEW s \in Seq(S), NEW n \in 0 .. Len(s)
  PROVE  LET t == SubSeq(s, 1, n)
         IN  /\ t \in Seq(S) /\ Len(t) = n
             /\ \A k \in DOMAIN t : k \in DOMAIN s /\ t[k] = s[k]
  OBVIOUS

-----------------------------------------------------------------------------
(* Types                                                                   *)

LEMMA SectionCells ==
  ASSUME NEW s \in DOMAIN Sections
  PROVE  /\ s \in Nat \ {0} /\ s <= Len(Sections)
         /\ Sections[s] \in Seq(Cells) /\ Section(s) \subseteq Cells
         /\ \A k \in 1 .. Len(Sections[s]) : Sections[s][k] \in Section(s)
  BY BootAssumption DEF Section

LEMMA BrokenOffType ==
  ASSUME NEW req
  PROVE  BrokenOff(req) \subseteq [Cells -> Contents]
  BY DEF BrokenOff

LEMMA DoneType ==
  ASSUME TypeOK, NEW req
  PROVE  Done(req) \in [Cells -> Contents]
  BY DEF TypeOK, Done, Programmed, Contents

LEMMA FaultType ==
  ASSUME faults \in 0 .. MaxFaults, Fault
  PROVE  faults' \in 0 .. MaxFaults
  BY BootAssumption DEF Fault

LEMMA BootType ==
  /\ AtReset \in BootStates
  /\ \A b \in BootStates :
            /\ [b EXCEPT !.active = TRUE] \in BootStates
            /\ [b EXCEPT !.exit = TRUE] \in BootStates
            /\ [b EXCEPT !.busy = NoRequest] \in BootStates
            /\ \A req \in Operations : [b EXCEPT !.busy = req] \in BootStates
  BY DEF AtReset, BootStates

LEMMA RespondType ==
  ASSUME TypeOK, NEW ok \in BOOLEAN, NEW crc \in 0 .. Len(Sections), Respond(ok, crc)
  PROVE  down' \in Seq(Responses)
<1>1. [ok |-> ok, crc |-> crc] \in Responses
  BY DEF Responses
<1> QED
  BY <1>1, AppendElements DEF TypeOK, Respond

LEMMA NoCrcType == 0 \in 0 .. Len(Sections)
  BY BootAssumption

LEMMA InitType == Init => TypeOK
  BY BootType, BootAssumption DEF Init, TypeOK, Contents

\* The requests that are taken are well formed, and what is left is as well.
LEMMA ReceiveType ==
  ASSUME TypeOK, NEW ids, Receive(ids)
  PROVE  /\ Head(up) \in Requests /\ up' \in Seq(Requests)
         /\ Head(up).id \in ids
  BY TailElements DEF TypeOK, Receive

LEMMA LoopType ==
  ASSUME TypeOK,
         \/ handle_boot_enter \/ handle_message_error \/ handle_message_verify
         \/ handle_boot_erase_skip \/ handle_boot_erase_write \/ handle_boot_exit
  PROVE  TypeOK'
<1>1. CASE handle_boot_enter
  <2>1. boot' \in BootStates /\ down' \in Seq(Responses) /\ up' \in Seq(Requests)
    BY <1>1, ReceiveType, RespondType, NoCrcType, BootType DEF TypeOK, handle_boot_enter
  <2> QED
    BY <1>1, <2>1 DEF TypeOK, handle_boot_enter, Receive
<1>2. CASE handle_message_error
  <2>1. boot' \in BootStates /\ down' \in Seq(Responses) /\ up' \in Seq(Requests)
    BY <1>2, ReceiveType, RespondType, NoCrcType DEF TypeOK, handle_message_error
  <2> QED
    BY <1>2, <2>1 DEF TypeOK, handle_message_error, Receive
<1>3. CASE handle_message_verify
  <2>1. Head(up) \in Requests /\ Head(up).id = "verify" /\ up' \in Seq(Requests)
    BY <1>3, ReceiveType DEF handle_message_verify
  <2>2. Head(up).arg \in DOMAIN Sections
    BY <2>1 DEF Requests, Operations
  <2>3. PICK crc \in {Head(up).arg, 0} : Respond(TRUE, crc)
    BY <1>3 DEF handle_message_verify, handle_boot_verify
  <2>4. crc \in 0 .. Len(Sections)
    BY <2>2, <2>3, SectionCells, NoCrcType
  <2>5. down' \in Seq(Responses)
    BY <2>3, <2>4, RespondType
  <2> QED
    BY <1>3, <2>1, <2>5 DEF TypeOK, handle_message_verify, Receive
<1>4. CASE handle_boot_erase_skip
  <2>1. boot' \in BootStates /\ down' \in Seq(Responses) /\ up' \in Seq(Requests)
    BY <1>4, ReceiveType, RespondType, NoCrcType DEF TypeOK, handle_boot_erase_skip
  <2> QED
    BY <1>4, <2>1 DEF TypeOK, handle_boot_erase_skip, Receive
<1>5. CASE handle_boot_erase_write
  <2>1. Head(up) \in Requests /\ Head(up).id \in {"erase", "write"} /\ up' \in Seq(Requests)
    BY <1>5, ReceiveType DEF handle_boot_erase_write
  <2>2. Head(up) \in Operations
    BY <2>1 DEF Requests, Operations
  <2>3. boot' \in BootStates
    BY <1>5, <2>2, BootType DEF TypeOK, handle_boot_erase_write
  <2> QED
    BY <1>5, <2>1, <2>3 DEF TypeOK, handle_boot_erase_write, Receive
<1>6. CASE handle_boot_exit
  <2>1. boot' \in BootStates /\ down' \in Seq(Responses) /\ up' \in Seq(Requests)
    BY <1>6, ReceiveType, RespondType, NoCrcType, BootType DEF TypeOK, handle_boot_exit
  <2> QED
    BY <1>6, <2>1 DEF TypeOK, handle_boot_exit, Receive
<1> QED
  BY <1>1, <1>2, <1>3, <1>4, <1>5, <1>6

LEMMA FlashType ==
  ASSUME TypeOK, FlashDone \/ FlashError
  PROVE  TypeOK'
<1>1. flash' \in [Cells -> Contents]
  BY BrokenOffType, DoneType DEF FlashDone, FlashError
<1>2. boot' \in BootStates /\ down' \in Seq(Responses)
  BY RespondType, NoCrcType, BootType DEF TypeOK, FlashDone, FlashError
<1>3. faults' \in 0 .. MaxFaults
  BY FaultType DEF TypeOK, FlashDone, FlashError
<1> QED
  BY <1>1, <1>2, <1>3 DEF TypeOK, FlashDone, FlashError

LEMMA RestartType ==
  ASSUME TypeOK, NEW m \in {"loop", "app"}, Restart(m)
  PROVE  mode' \in {"loop", "app"} /\ up' \in Seq(Requests) /\ boot' \in BootStates
<1>1. PICK n \in 0 .. Len(up) : up' = SubSeq(up, n + 1, Len(up))
  BY DEF Restart
<1>2. up' \in Seq(Requests)
  BY <1>1, SuffixElements DEF TypeOK
<1> QED
  BY <1>2, BootType DEF Restart

LEMMA StartType ==
  ASSUME TypeOK, start_app
  PROVE  mode' \in {"loop", "app"} /\ up' \in Seq(Requests) /\ boot' \in BootStates
  BY RestartType DEF start_app

LEMMA ResettingType ==
  ASSUME TypeOK,
         message_loop_exit \/ BootTimeout \/ AppReceive \/ PowerLoss
  PROVE  TypeOK'
<1>1. CASE message_loop_exit
  BY <1>1, StartType DEF TypeOK, message_loop_exit, start_app
<1>2. CASE BootTimeout
  <2>1. faults' \in 0 .. MaxFaults
    BY <1>2, FaultType DEF TypeOK, BootTimeout
  <2>2. start_app
    BY <1>2 DEF BootTimeout
  <2> QED
    BY <2>1, <2>2, StartType DEF TypeOK, start_app
<1>3. CASE AppReceive
  <2>1. CASE Head(up).id = "shell"
    <3>1. PICK n \in 1 .. Len(up) : up' = SubSeq(up, n + 1, Len(up))
      BY <1>3, <2>1 DEF AppReceive
    <3>2. up' \in Seq(Requests)
      BY <3>1, SuffixElements DEF TypeOK
    <3> QED
      BY <1>3, <2>1, <3>2, BootType DEF TypeOK, AppReceive
  <2>2. CASE Head(up).id # "shell"
    <3>1. /\ up # <<>> /\ up' = Tail(up)
          /\ UNCHANGED <<flash, mode, boot, down, host, result, fresh, faults>>
      BY <1>3, <2>2 DEF AppReceive
    <3>2. up' \in Seq(Requests)
      BY <3>1, TailElements DEF TypeOK
    <3> QED
      BY <3>1, <3>2 DEF TypeOK
  <2> QED
    BY <2>1, <2>2
<1>4. CASE PowerLoss
  <2>1. PICK n \in 0 .. Len(down) : down' = SubSeq(down, 1, n)
    BY <1>4 DEF PowerLoss
  <2>2. down' \in Seq(Responses)
    BY <2>1, PrefixElements DEF TypeOK
  <2>3. flash' \in [Cells -> Contents]
    BY <1>4, BrokenOffType DEF PowerLoss
  <2>4. faults' \in 0 .. MaxFaults
    BY <1>4, FaultType DEF PowerLoss, TypeOK
  <2> QED
    BY <1>4, <2>2, <2>3, <2>4, RestartType DEF TypeOK, PowerLoss
<1> QED
  BY <1>1, <1>2, <1>3, <1>4

LEMMA LinkType ==
  ASSUME TypeOK, LoseRequest \/ LoseResponse
  PROVE  TypeOK'
<1>1. CASE LoseRequest
  <2>1. up' \in Seq(Requests) /\ faults' \in 0 .. MaxFaults
    BY <1>1, TailElements, FaultType DEF TypeOK, LoseRequest
  <2> QED
    BY <1>1, <2>1 DEF TypeOK, LoseRequest, target
<1>2. CASE LoseResponse
  <2>1. down' \in Seq(Responses) /\ faults' \in 0 .. MaxFaults
    BY <1>2, TailElements, FaultType DEF TypeOK, LoseResponse
  <2> QED
    BY <1>2, <2>1 DEF TypeOK, LoseResponse, target
<1> QED
  BY <1>1, <1>2

-----------------------------------------------------------------------------
(* Types: the host                                                         *)

Hosts == [pc : {"idle", "hack", "enter", "erase", "write", "ack", "verify", "exit"},
          at : Nat, i : Nat]

LEMMA AskType ==
  ASSUME TypeOK, NEW pc, NEW at, NEW id, Ask(pc, at, id),
         [id |-> id, arg |-> at] \in Requests,
         pc \in {"enter", "hack", "exit"} \/ pc = id
  PROVE  /\ flash' \in [Cells -> Contents]
         /\ mode' \in {"loop", "app"} /\ boot' \in BootStates
         /\ up' \in Seq(Requests)
         /\ host' = [pc |-> pc, at |-> at, i |-> 0]
         /\ result' \in {"none", "ok", "failed", "canceled"}
         /\ fresh' \in BOOLEAN
  BY AppendElements DEF TypeOK, Ask, target


LEMMA HostStepType ==
  ASSUME TypeOK,
         flash' \in [Cells -> Contents] /\ mode' \in {"loop", "app"} /\ boot' \in BootStates,
         up' \in Seq(Requests) /\ down' \in Seq(Responses),
         result' \in {"none", "ok", "failed", "canceled"} /\ fresh' \in BOOLEAN,
         faults' \in 0 .. MaxFaults,
         NEW pc \in {"idle", "hack", "enter", "erase", "write", "ack", "verify", "exit"},
         NEW at \in Nat, NEW i \in Nat, host' = [pc |-> pc, at |-> at, i |-> i],
         pc = "erase" => at \in DOMAIN Sectors,
         pc \in {"write", "ack", "verify"} => at \in DOMAIN Sections
  PROVE  TypeOK'
<1>1. host' \in [pc : {"idle", "hack", "enter", "erase", "write", "ack", "verify", "exit"},
                 at : Nat, i : Nat]
  OBVIOUS
<1>2. host'.pc = pc /\ host'.at = at
  OBVIOUS
<1> QED
  BY <1>1, <1>2 DEF TypeOK

LEMMA RequestType ==
  /\ [id |-> "shell", arg |-> 0] \in Requests /\ [id |-> "enter", arg |-> 0] \in Requests
  /\ [id |-> "exit", arg |-> 0] \in Requests
  /\ \A n \in DOMAIN Sectors : n \in Nat /\ [id |-> "erase", arg |-> n] \in Requests
  /\ \A c \in Cells : [id |-> "write", arg |-> c] \in Requests
  /\ \A s \in DOMAIN Sections : [id |-> "verify", arg |-> s] \in Requests
  BY BootAssumption DEF Requests, Operations

LEMMA FirstOnes == 1 \in DOMAIN Sectors /\ 1 \in DOMAIN Sections
  BY BootAssumption

LEMMA NextOnes ==
  /\ \A n \in DOMAIN Sectors : n < Len(Sectors) => n + 1 \in DOMAIN Sectors
  /\ \A s \in DOMAIN Sections : s < Len(Sections) => s + 1 \in DOMAIN Sections
  BY BootAssumption

LEMMA GetResponseType ==
  ASSUME TypeOK, Response(TRUE) \/ NoResponse
  PROVE  down' \in Seq(Responses) /\ faults' \in 0 .. MaxFaults
<1>1. CASE Response(TRUE) \/ Response(FALSE)
  <2>1. down # <<>> /\ down' = Tail(down) /\ faults' = faults
    BY <1>1 DEF Response
  <2> QED
    BY <2>1, TailElements DEF TypeOK
<1>2. CASE Timeout
  BY <1>2, FaultType DEF TypeOK, Timeout
<1> QED
  BY <1>1, <1>2 DEF NoResponse

LEMMA AskTypeOK ==
  ASSUME TypeOK, Response(TRUE) \/ NoResponse,
         NEW pc \in {"hack", "enter", "erase", "verify", "exit"}, NEW at \in Nat, NEW id,
         Ask(pc, at, id), [id |-> id, arg |-> at] \in Requests,
         pc = "erase" => at \in DOMAIN Sectors,
         pc = "verify" => at \in DOMAIN Sections
  PROVE  TypeOK'
<1>1. up' \in Seq(Requests)
  BY AppendElements DEF TypeOK, Ask
<1>2. /\ flash' \in [Cells -> Contents] /\ mode' \in {"loop", "app"} /\ boot' \in BootStates
      /\ result' \in {"none", "ok", "failed", "canceled"} /\ fresh' \in BOOLEAN
  BY DEF TypeOK, Ask, target
<1>3. host' = [pc |-> pc, at |-> at, i |-> 0]
  BY DEF Ask
<1> QED
  BY <1>1, <1>2, <1>3, GetResponseType, HostStepType

LEMMA ReturnTypeOK ==
  ASSUME TypeOK, NEW res \in {"ok", "failed", "canceled"}, Return(res),
         up' \in Seq(Requests), down' \in Seq(Responses), faults' \in 0 .. MaxFaults
  PROVE  TypeOK'
<1>1. /\ flash' \in [Cells -> Contents] /\ mode' \in {"loop", "app"} /\ boot' \in BootStates
      /\ result' \in {"none", "ok", "failed", "canceled"} /\ fresh' \in BOOLEAN
  BY DEF TypeOK, Return, target
<1>2. host' = [pc |-> "idle", at |-> 0, i |-> 0]
  BY DEF Return
<1> QED
  BY <1>1, <1>2, HostStepType

LEMMA BeginSectionTypeOK ==
  ASSUME TypeOK, Response(TRUE), NEW s \in DOMAIN Sections, BeginSection(s)
  PROVE  TypeOK'
<1>1. /\ flash' \in [Cells -> Contents] /\ mode' \in {"loop", "app"} /\ boot' \in BootStates
      /\ up' \in Seq(Requests)
      /\ result' \in {"none", "ok", "failed", "canceled"} /\ fresh' \in BOOLEAN
  BY DEF TypeOK, BeginSection, target
<1>2. host' = [pc |-> "write", at |-> s, i |-> 0]
  BY DEF BeginSection
<1> QED
  BY <1>1, <1>2, GetResponseType, SectionCells, HostStepType

LEMMA WriteChunkType ==
  ASSUME TypeOK, host.pc = "write", WriteChunk
  PROVE  /\ up' \in Seq(Requests)
         /\ \/ UNCHANGED up
            \/ \E c \in Section(host.at) : up' = Append(up, [id |-> "write", arg |-> c])
<1>1. CASE UNCHANGED up
  BY <1>1 DEF TypeOK
<1>2. CASE host.i < Chunks
  <2>1. host.at \in DOMAIN Sections /\ host.i \in Nat
    BY DEF TypeOK
  <2>2. host.i + 1 \in 1 .. Len(Sections[host.at])
    BY <1>2, <2>1, SectionCells DEF Chunks
  <2>3. Sections[host.at][host.i + 1] \in Section(host.at)
    BY <2>1, <2>2, SectionCells
  <2>4. Sections[host.at][host.i + 1] \in Cells
    BY <2>1, <2>3, SectionCells
  <2>5. up' = Append(up, [id |-> "write", arg |-> Sections[host.at][host.i + 1]])
    BY <1>2 DEF WriteChunk
  <2> QED
    BY <2>3, <2>4, <2>5, RequestType, AppendElements DEF TypeOK
<1> QED
  BY <1>1, <1>2 DEF WriteChunk

LEMMA HostType ==
  ASSUME TypeOK, HostStep \/ updateButton_clicked \/ Cancel
  PROVE  TypeOK'
<1>1. CASE updateButton_clicked
  <2>1. PICK n \in 0 .. Len(down) : down' = SubSeq(down, n + 1, Len(down))
    BY <1>1 DEF updateButton_clicked
  <2>2. down' \in Seq(Responses)
    BY <2>1, SuffixElements DEF TypeOK
  <2>3. up' \in Seq(Requests)
    BY <1>1, RequestType, AppendElements DEF TypeOK, updateButton_clicked
  <2>4. /\ flash' \in [Cells -> Contents] /\ mode' \in {"loop", "app"} /\ boot' \in BootStates
        /\ result' \in {"none", "ok", "failed", "canceled"} /\ fresh' \in BOOLEAN
        /\ faults' \in 0 .. MaxFaults
    BY <1>1 DEF TypeOK, updateButton_clicked, target
  <2>5. host' = [pc |-> "hack", at |-> 0, i |-> 0]
    BY <1>1 DEF updateButton_clicked
  <2> QED
    BY <2>2, <2>3, <2>4, <2>5, HostStepType
<1>2. CASE bootResetHack
  BY <1>2, AskTypeOK, RequestType DEF bootResetHack
<1>3. CASE bootEnterRepeat
  BY <1>3, AskTypeOK, RequestType DEF bootEnterRepeat
<1>4. CASE bootEnter
  BY <1>4, AskTypeOK, RequestType, FirstOnes DEF bootEnter
<1>5. CASE bootEraseSector
  <2>1. host.at \in DOMAIN Sectors
    BY <1>5 DEF TypeOK, bootEraseSector
  <2>2. CASE host.at < Len(Sectors)
    <3>1. host.at + 1 \in DOMAIN Sectors
      BY <2>1, <2>2, NextOnes
    <3> QED
      BY <1>5, <2>2, <3>1, AskTypeOK, RequestType DEF bootEraseSector
  <2>3. CASE ~(host.at < Len(Sectors))
    BY <1>5, <2>3, BeginSectionTypeOK, FirstOnes DEF bootEraseSector
  <2> QED
    BY <2>2, <2>3
<1>6. CASE bootWriteDataAsync
  <2>1. host.at \in DOMAIN Sections /\ host.at \in Nat /\ host.i \in Nat /\ host.pc = "write"
    BY <1>6 DEF TypeOK, bootWriteDataAsync
  <2>2. up' \in Seq(Requests)
    BY <1>6, WriteChunkType DEF bootWriteDataAsync
  <2>3. /\ flash' \in [Cells -> Contents] /\ mode' \in {"loop", "app"} /\ boot' \in BootStates
        /\ down' \in Seq(Responses)
        /\ result' \in {"none", "ok", "failed", "canceled"} /\ fresh' \in BOOLEAN
        /\ faults' \in 0 .. MaxFaults
    BY <1>6 DEF TypeOK, bootWriteDataAsync, target
  <2>4. host = [pc |-> "write", at |-> host.at, i |-> host.i]
    BY <2>1 DEF TypeOK
  <2>5. CASE host' = [host EXCEPT !.pc = "ack"]
    <3>1. host' = [pc |-> "ack", at |-> host.at, i |-> host.i]
      BY <2>4, <2>5
    <3> QED
      BY <2>1, <2>2, <2>3, <3>1, HostStepType
  <2>6. CASE host' = [host EXCEPT !.i = @ + 1]
    <3>1. host' = [pc |-> "write", at |-> host.at, i |-> host.i + 1]
      BY <2>4, <2>6
    <3> QED
      BY <2>1, <2>2, <2>3, <3>1, HostStepType
  <2> QED
    BY <1>6, <2>5, <2>6 DEF bootWriteDataAsync
<1>7. CASE bootWriteData
  <2>1. host.at \in DOMAIN Sections /\ host.at \in Nat /\ host.i \in Nat
    BY <1>7 DEF TypeOK, bootWriteData
  <2>2. CASE LastRound
    BY <1>7, <2>1, <2>2, AskTypeOK, RequestType DEF bootWriteData
  <2>3. CASE ~LastRound
    <3>1. host' = [pc |-> "write", at |-> host.at, i |-> host.i + 1]
      BY <1>7, <2>3 DEF TypeOK, bootWriteData
    <3>2. /\ flash' \in [Cells -> Contents] /\ mode' \in {"loop", "app"} /\ boot' \in BootStates
          /\ up' \in Seq(Requests)
          /\ result' \in {"none", "ok", "failed", "canceled"} /\ fresh' \in BOOLEAN
      BY <1>7, <2>3 DEF TypeOK, bootWriteData, target
    <3>3. down' \in Seq(Responses) /\ faults' \in 0 .. MaxFaults
      BY <1>7, GetResponseType DEF bootWriteData
    <3> QED
      BY <2>1, <3>1, <3>2, <3>3, HostStepType
  <2> QED
    BY <2>2, <2>3
<1>8. CASE bootVerifyData
  <2>1. host.at \in DOMAIN Sections
    BY <1>8 DEF TypeOK, bootVerifyData
  <2>2. CASE host.at < Len(Sections)
    <3>1. host.at + 1 \in DOMAIN Sections
      BY <2>1, <2>2, NextOnes
    <3> QED
      BY <1>8, <2>2, <3>1, BeginSectionTypeOK DEF bootVerifyData
  <2>3. CASE ~(host.at < Len(Sections))
    BY <1>8, <2>3, AskTypeOK, RequestType DEF bootVerifyData
  <2> QED
    BY <2>2, <2>3
<1>9. CASE bootExit
  <2>1. up' \in Seq(Requests)
    BY <1>9 DEF bootExit, TypeOK
  <2> QED
    BY <1>9, <2>1, GetResponseType, ReturnTypeOK DEF bootExit
<1>10. CASE Failure
  <2>1. up' \in Seq(Requests)
    BY <1>10 DEF Failure, TypeOK
  <2> QED
    BY <1>10, <2>1, GetResponseType, ReturnTypeOK DEF Failure
<1>11. CASE Cancel
  <2>1. up' \in Seq(Requests)
    BY <1>11, WriteChunkType DEF Cancel, TypeOK
  <2>2. down' = down \/ (down # <<>> /\ down' = Tail(down))
    <3>1. CASE UNCHANGED down
      BY <3>1
    <3>2. CASE down # <<>> /\ down' = Tail(down)
      BY <3>2
    <3> QED
      BY <1>11, <3>1, <3>2 DEF Cancel
  <2>3. down' \in Seq(Responses)
    <3>1. down \in Seq(Responses)
      BY DEF TypeOK
    <3> QED
      BY <2>2, <3>1, TailElements
  <2>4. faults' \in 0 .. MaxFaults
    BY <1>11, FaultType DEF Cancel, TypeOK
  <2> QED
    BY <1>11, <2>1, <2>3, <2>4, ReturnTypeOK DEF Cancel
<1> QED
  BY <1>1, <1>2, <1>3, <1>4, <1>5, <1>6, <1>7, <1>8, <1>9, <1>10, <1>11 DEF HostStep

LEMMA StutterType == ASSUME TypeOK, UNCHANGED vars PROVE TypeOK'
  BY DEF TypeOK, vars, target

LEMMA TypeStep == ASSUME TypeOK, [Next]_vars PROVE TypeOK'
  BY LoopType, FlashType, ResettingType, LinkType, HostType, StutterType
     DEF Next, TargetStep

\* Every state of every run is well formed: no request and no section outside
\* the tables of the flash and of the file is ever asked for.
THEOREM TypeCorrect == Spec => []TypeOK
  BY InitType, TypeStep, PTL DEF Spec

-----------------------------------------------------------------------------
(* The boot loader implements Firmware                                     *)

\* The application runs alone: no flash operation is under way, and what runs
\* is whole.
AppAlone == mode = "app" => boot = AtReset /\ Image # "part"

\* Without a request nothing is broken off.
LEMMA NothingBroken ==
  ASSUME TypeOK
  PROVE  BrokenOff(NoRequest) = {flash}
<1>1. Done(NoRequest) = [c \in Cells |-> flash[c]]
  BY DEF Done, NoRequest
<1>2. flash \in [Cells -> Contents]
  BY DEF TypeOK
<1>3. ASSUME NEW f \in BrokenOff(NoRequest) PROVE f = flash
  <2>1. f \in [Cells -> Contents] /\ \A c \in Cells : f[c] = flash[c]
    BY <1>1, <1>3 DEF BrokenOff
  <2> QED
    BY <1>2, <2>1
<1>4. flash \in BrokenOff(NoRequest)
  BY <1>1, <1>2 DEF BrokenOff
<1> QED
  BY <1>3, <1>4

LEMMA CheckApp == check_app => Image # "part"
  BY DEF check_app, Image

LEMMA ImageType == Image \in {"old", "new", "part"} /\ Image' \in {"old", "new", "part"}
  BY DEF Image

LEMMA SameImage == ASSUME flash' = flash PROVE Image' = Image
  BY DEF Image, Whole

\* While the application runs, only a reset changes anything.
LEMMA AppStep ==
  ASSUME TypeOK, AppAlone, mode = "app", [Next]_vars
  PROVE  /\ flash' = flash
         /\ mode' = "loop" \/ (mode' = "app" /\ boot' = boot)
<1>1. boot.busy = NoRequest
  BY DEF AppAlone, AtReset
<1>2. CASE \/ handle_boot_enter \/ handle_message_error \/ handle_message_verify
           \/ handle_boot_erase_skip \/ handle_boot_erase_write \/ handle_boot_exit
           \/ FlashDone \/ FlashError \/ message_loop_exit \/ BootTimeout
  BY <1>1, <1>2
     DEF handle_boot_enter, handle_message_error, handle_message_verify, handle_boot_erase_skip,
         handle_boot_erase_write, handle_boot_exit, Receive, FlashDone, FlashError,
         message_loop_exit, BootTimeout
<1>3. CASE AppReceive
  BY <1>3 DEF AppReceive
<1>4. CASE PowerLoss
  BY <1>1, <1>4, NothingBroken DEF PowerLoss, Restart
<1>5. CASE LoseRequest \/ LoseResponse
  BY <1>5 DEF LoseRequest, LoseResponse, target
<1>6. CASE HostStep \/ updateButton_clicked \/ Cancel
  BY <1>6 DEF HostStep, updateButton_clicked, bootResetHack, bootEnterRepeat, bootEnter,
              bootEraseSector, bootWriteDataAsync, bootWriteData, bootVerifyData, bootExit,
              Failure, Cancel, Ask, Return, BeginSection, target
<1>7. CASE UNCHANGED vars
  BY <1>7 DEF vars, target
<1> QED
  BY <1>2, <1>3, <1>4, <1>5, <1>6, <1>7 DEF Next, TargetStep

\* It is only started when it has been checked.
LEMMA LoopStep ==
  ASSUME TypeOK, mode = "loop", [Next]_vars
  PROVE  \/ mode' = "loop"
         \/ mode' = "app" /\ boot' = AtReset /\ flash' = flash /\ Image # "part"
<1>1. CASE \/ handle_boot_enter \/ handle_message_error \/ handle_message_verify
           \/ handle_boot_erase_skip \/ handle_boot_erase_write \/ handle_boot_exit
           \/ FlashDone \/ FlashError
  BY <1>1
     DEF handle_boot_enter, handle_message_error, handle_message_verify, handle_boot_erase_skip,
         handle_boot_erase_write, handle_boot_exit, Receive, FlashDone, FlashError
<1>2. CASE message_loop_exit \/ BootTimeout
  <2>1. start_app
    BY <1>2 DEF message_loop_exit, BootTimeout
  <2> QED
    BY <2>1, CheckApp DEF start_app, Restart
<1>3. CASE AppReceive \/ PowerLoss
  BY <1>3 DEF AppReceive, PowerLoss, Restart
<1>4. CASE LoseRequest \/ LoseResponse
  BY <1>4 DEF LoseRequest, LoseResponse, target
<1>5. CASE HostStep \/ updateButton_clicked \/ Cancel
  BY <1>5 DEF HostStep, updateButton_clicked, bootResetHack, bootEnterRepeat, bootEnter,
              bootEraseSector, bootWriteDataAsync, bootWriteData, bootVerifyData, bootExit,
              Failure, Cancel, Ask, Return, BeginSection, target
<1>6. CASE UNCHANGED vars
  BY <1>6 DEF vars, target
<1> QED
  BY <1>1, <1>2, <1>3, <1>4, <1>5, <1>6 DEF Next, TargetStep

LEMMA FirmwareInit == Init => App!Init /\ AppAlone
<1> SUFFICES ASSUME Init PROVE App!Init /\ AppAlone
  OBVIOUS
<1>1. Whole(flash, OldImage, "old")
  BY BootAssumption DEF Init, Whole
<1>2. Image # "part"
  BY <1>1 DEF Image
<1> QED
  BY <1>2, ImageType DEF Init, App!Init, AppAlone

LEMMA FirmwareStep ==
  ASSUME TypeOK, AppAlone, [Next]_vars
  PROVE  [App!Next]_(App!vars) /\ AppAlone'
<1>1. CASE mode = "app"
  <2>1. Image' = Image /\ Image # "part"
    BY <1>1, AppStep, SameImage DEF AppAlone
  <2> QED
    BY <1>1, <2>1, AppStep DEF App!Next, App!Reset, App!vars, AppAlone
<1>2. CASE mode = "loop"
  <2>1. CASE mode' = "loop"
    BY <1>2, <2>1, ImageType DEF App!Next, App!Change, AppAlone
  <2>2. CASE mode' = "app" /\ boot' = AtReset /\ flash' = flash /\ Image # "part"
    <3>1. Image' = Image
      BY <2>2, SameImage
    <3> QED
      BY <1>2, <2>2, <3>1 DEF App!Next, App!Start, AppAlone
  <2> QED
    BY <1>2, <2>1, <2>2, LoopStep
<1> QED
  BY <1>1, <1>2 DEF TypeOK

\* Whatever the host sends, whatever is lost and whenever the power fails: an
\* application only runs when it is whole, and only changes while none runs.
THEOREM BootImplementsFirmware == Spec => ImplementsFirmware
<1>1. Init => App!Init /\ AppAlone
  BY FirmwareInit
<1>2. TypeOK /\ AppAlone /\ [Next]_vars => [App!Next]_(App!vars) /\ AppAlone'
  BY FirmwareStep
<1> QED
  BY <1>1, <1>2, TypeCorrect, PTL DEF Spec, ImplementsFirmware, App!Spec

-----------------------------------------------------------------------------
(* The host goes on only past sections that are in the flash               *)

Verified == VerifiedSections /\ VerifyPhases

\* Some elements of s, in its order, without a gap.
Part(t, s) == \E n \in Nat : /\ Len(t) + n <= Len(s)
                             /\ \A k \in DOMAIN t : k + n \in DOMAIN s /\ t[k] = s[k + n]

LEMMA PartSame == ASSUME NEW S, NEW s \in Seq(S) PROVE Part(s, s)
<1>1. Len(s) + 0 <= Len(s) /\ \A k \in DOMAIN s : k + 0 \in DOMAIN s /\ s[k] = s[k + 0]
  OBVIOUS
<1> QED
  BY <1>1 DEF Part

LEMMA PartTail == ASSUME NEW S, NEW s \in Seq(S), s # <<>> PROVE Part(Tail(s), s)
<1>1. /\ Len(Tail(s)) + 1 <= Len(s)
      /\ \A k \in DOMAIN Tail(s) : k + 1 \in DOMAIN s /\ Tail(s)[k] = s[k + 1]
  BY TailElements
<1> QED
  BY <1>1 DEF Part

LEMMA PartSuffix ==
  ASSUME NEW S, NEW s \in Seq(S), NEW n \in 0 .. Len(s)
  PROVE  Part(SubSeq(s, n + 1, Len(s)), s)
<1> DEFINE t == SubSeq(s, n + 1, Len(s))
<1>1. Len(t) + n <= Len(s) /\ \A k \in DOMAIN t : k + n \in DOMAIN s /\ t[k] = s[k + n]
  BY SuffixElements
<1>2. n \in Nat
  OBVIOUS
<1> HIDE DEF t
<1>3. Part(t, s)
  BY <1>1, <1>2 DEF Part
<1> QED
  BY <1>3 DEF t

LEMMA PartPrefix ==
  ASSUME NEW S, NEW s \in Seq(S), NEW n \in 0 .. Len(s)
  PROVE  Part(SubSeq(s, 1, n), s)
<1> DEFINE t == SubSeq(s, 1, n)
<1>1. Len(t) = n /\ \A k \in DOMAIN t : k \in DOMAIN s /\ t[k] = s[k]
  BY PrefixElements
<1>2. t \in Seq(S)
  BY PrefixElements
<1> HIDE DEF t
<1>3. Len(t) + 0 <= Len(s) /\ \A k \in DOMAIN t : k + 0 \in DOMAIN s /\ t[k] = s[k + 0]
  BY <1>1, <1>2
<1>4. Part(t, s)
  BY <1>3 DEF Part
<1> QED
  BY <1>4 DEF t

LEMMA NoRequestDamages == \A s : ~Damages(NoRequest, s)
  BY DEF Damages, NoRequest

\* What is whole stays whole when no operation damages it.
LEMMA BrokenOffKeeps ==
  ASSUME TypeOK, NEW s \in DOMAIN Sections, NEW req, ~Damages(req, s),
         Whole(flash, Section(s), "new"),
         flash' = Done(req) \/ flash' \in BrokenOff(req)
  PROVE  Whole(flash', Section(s), "new")
<1>1. ASSUME NEW c \in Section(s) PROVE flash'[c] = "new"
  <2>1. c \in Cells /\ flash[c] = "new"
    BY <1>1, SectionCells DEF Whole
  <2>2. Done(req)[c] = "new"
    BY <2>1 DEF Done, Damages, Programmed
  <2> QED
    BY <2>1, <2>2 DEF BrokenOff
<1> QED
  BY <1>1 DEF Whole

\* Steps of the boot loader and of the link: they take requests, give answers
\* that are no checksum, and lose what is under way.
FlashKept == \A s \in DOMAIN Sections :
                ~Damages(boot.busy, s) /\ Whole(flash, Section(s), "new")
                    => Whole(flash', Section(s), "new")

NextBusy == \/ boot'.busy \in {boot.busy, NoRequest}
            \/ up # <<>> /\ boot'.busy = Head(up)

NoNewChecksum ==
    \/ Part(down', down)
    \/ /\ up # <<>> \/ boot.busy # NoRequest
       /\ \E ok : Respond(ok, 0)

LEMMA TargetKeeps ==
  ASSUME TypeOK, TypeOK', Verified, UNCHANGED <<host, fresh>>,
         FlashKept, NextBusy, NoNewChecksum, Part(up', up)
  PROVE  Verified'
<1> SUFFICES ASSUME fresh PROVE Verified'
  BY DEF Verified, VerifiedSections, VerifyPhases
<1>1. /\ up \in Seq(Requests) /\ up' \in Seq(Requests)
      /\ down \in Seq(Responses) /\ down' \in Seq(Responses)
  BY DEF TypeOK
<1>2. \A s : Past(s)' = Past(s)
  BY DEF Past
<1>3. \A s \in DOMAIN Sections : Past(s) => NothingDamages(s)'
  <2> TAKE s \in DOMAIN Sections
  <2> HAVE Past(s)
  <2>1. NothingDamages(s)
    BY DEF Verified, VerifyPhases
  <2>2. ~Damages(boot.busy, s)'
    BY <1>1, <2>1, TailElements, NoRequestDamages DEF NothingDamages, NextBusy, Damages
  <2>3. \A k \in DOMAIN up' : ~Damages(up'[k], s)
    BY <1>1, <2>1 DEF NothingDamages, Part
  <2> QED
    BY <2>2, <2>3 DEF NothingDamages, Damages
<1>4. VerifiedSections'
  <2> SUFFICES ASSUME NEW s \in DOMAIN Sections, Past(s)
               PROVE  Whole(flash', Section(s), "new")
    BY <1>2 DEF VerifiedSections, Whole
  <2>1. ~Damages(boot.busy, s) /\ Whole(flash, Section(s), "new")
    BY DEF Verified, VerifiedSections, VerifyPhases, NothingDamages
  <2> QED
    BY <2>1 DEF FlashKept
<1>5. NoVerify => NoVerify'
  BY <1>1 DEF NoVerify, Part
<1>6. VerifyLast => VerifyLast'
  BY <1>1 DEF VerifyLast, Part
<1>7. NoChecksum => NoChecksum'
  <2>1. CASE Part(down', down)
    BY <1>1, <2>1 DEF NoChecksum, Part
  <2>2. CASE \E ok : Respond(ok, 0)
    BY <1>1, <2>2 DEF NoChecksum, Respond
  <2> QED
    BY <2>1, <2>2 DEF NoNewChecksum
<1>8. ASSUME host.pc = "verify", ChecksumLast PROVE ChecksumLast'
  <2>1. up = <<>> /\ boot.busy = NoRequest
    BY <1>8 DEF ChecksumLast
  <2>2. up' = <<>> /\ boot'.busy = NoRequest
    BY <1>1, <2>1 DEF Part, NextBusy
  <2>3. Part(down', down)
    BY <2>1 DEF NoNewChecksum
  <2>4. host.at \in DOMAIN Sections
    BY <1>8 DEF TypeOK
  <2>5. Whole(flash, Section(host.at), "new") => Whole(flash', Section(host.at), "new")
    BY <2>1, <2>4, NoRequestDamages DEF FlashKept
  <2>6. ASSUME NEW k \in DOMAIN down', down'[k].crc # 0
        PROVE  k = Len(down') /\ down'[k].crc = host.at /\ Whole(flash', Section(host.at), "new")
    <3>1. PICK n \in Nat : Len(down') + n <= Len(down) /\ k + n \in DOMAIN down
                           /\ down'[k] = down[k + n]
      BY <2>3, <2>6 DEF Part
    <3>2. /\ k + n = Len(down) /\ down[k + n].crc = host.at
          /\ Whole(flash, Section(host.at), "new")
      BY <1>8, <2>6, <3>1 DEF ChecksumLast
    <3> QED
      BY <1>1, <2>5, <2>6, <3>1, <3>2
  <2> QED
    BY <2>2, <2>6 DEF ChecksumLast, Whole
<1> QED
  BY <1>2, <1>3, <1>4, <1>5, <1>6, <1>7, <1>8 DEF Verified, VerifyPhases

LEMMA ReceiveKeeps ==
  ASSUME TypeOK, NEW ids, Receive(ids)
  PROVE  /\ FlashKept /\ Part(up', up) /\ up # <<>> /\ UNCHANGED <<host, fresh>>
  BY PartTail DEF TypeOK, Receive, FlashKept

LEMMA LoopVerified ==
  ASSUME TypeOK, TypeOK', Verified,
         \/ handle_boot_enter \/ handle_message_error
         \/ handle_boot_erase_skip \/ handle_boot_erase_write \/ handle_boot_exit
  PROVE  Verified'
<1>1. PICK ids : Receive(ids)
  BY DEF handle_boot_enter, handle_message_error, handle_boot_erase_skip,
         handle_boot_erase_write, handle_boot_exit
<1>2. boot \in BootStates /\ down \in Seq(Responses)
  BY DEF TypeOK
<1>3. boot'.busy = boot.busy \/ boot'.busy = Head(up)
  BY <1>2 DEF handle_boot_enter, handle_message_error, handle_boot_erase_skip,
              handle_boot_erase_write, handle_boot_exit, BootStates
<1>4. UNCHANGED down \/ (\E ok : Respond(ok, 0))
  BY DEF handle_boot_enter, handle_message_error, handle_boot_erase_skip,
         handle_boot_erase_write, handle_boot_exit
<1>5. NoNewChecksum
  BY <1>1, <1>2, <1>4, ReceiveKeeps, PartSame DEF NoNewChecksum
<1> QED
  BY <1>1, <1>3, <1>5, ReceiveKeeps, TargetKeeps DEF NextBusy

\* A checksum is made when nothing else is under way any more.
LEMMA VerifyVerified ==
  ASSUME TypeOK, TypeOK', Verified, handle_message_verify
  PROVE  Verified'
<1> SUFFICES ASSUME fresh PROVE Verified'
  BY DEF Verified, VerifiedSections, VerifyPhases, handle_message_verify, Receive
<1>1. /\ up \in Seq(Requests) /\ down \in Seq(Responses)
      /\ up # <<>> /\ up' = Tail(up) /\ Head(up).id = "verify" /\ boot.busy = NoRequest
      /\ UNCHANGED <<flash, boot, host, fresh>>
  BY DEF TypeOK, handle_message_verify, Receive
<1>2. up[1].id = "verify" /\ 1 \in DOMAIN up
  BY <1>1
<1>3. host.pc \in {"idle", "verify"}
  BY <1>2 DEF Verified, VerifyPhases, NoVerify
<1>4. VerifiedSections'
  BY <1>1 DEF Verified, VerifiedSections, Past, Whole
<1>5. \A s \in DOMAIN Sections : Past(s)' => NothingDamages(s)'
  <2> TAKE s \in DOMAIN Sections
  <2> HAVE Past(s)'
  <2>1. NothingDamages(s)
    BY <1>1 DEF Past, Verified, VerifyPhases
  <2> QED
    BY <1>1, <2>1, TailElements DEF NothingDamages, Damages
<1>6. ASSUME host.pc = "verify" PROVE VerifyLast' /\ ChecksumLast'
  <2>1. Len(up) = 1 /\ up[1].arg = host.at /\ NoChecksum
    BY <1>1, <1>2, <1>6 DEF Verified, VerifyPhases, VerifyLast, ChecksumLast
  <2>2. up' = <<>>
    BY <1>1, <2>1
  <2>3. Head(up).arg = host.at
    BY <1>1, <2>1
  <2>4. PICK crc : /\ down' = Append(down, [ok |-> TRUE, crc |-> crc])
                   /\ crc # 0 => crc = host.at /\ Whole(flash, Section(host.at), "new")
    BY <2>3 DEF handle_message_verify, handle_boot_verify, Respond
  <2>5. ASSUME NEW k \in DOMAIN down', down'[k].crc # 0
        PROVE  k = Len(down') /\ down'[k].crc = host.at /\ Whole(flash, Section(host.at), "new")
    <3>1. k = Len(down) + 1
      BY <1>1, <2>1, <2>4, <2>5 DEF NoChecksum
    <3>2. down'[k].crc = crc /\ Len(down') = Len(down) + 1
      BY <1>1, <2>4, <3>1
    <3> QED
      BY <2>4, <2>5, <3>1, <3>2
  <2> QED
    BY <1>1, <2>2, <2>5 DEF VerifyLast, ChecksumLast, Whole
<1> QED
  BY <1>1, <1>3, <1>4, <1>5, <1>6 DEF Verified, VerifyPhases

LEMMA FlashVerified ==
  ASSUME TypeOK, TypeOK', Verified, FlashDone \/ FlashError
  PROVE  Verified'
<1>1. up \in Seq(Requests) /\ boot \in BootStates
  BY DEF TypeOK
<1>2. FlashKept
  BY BrokenOffKeeps DEF FlashKept, FlashDone, FlashError
<1>3. NextBusy
  BY <1>1 DEF NextBusy, FlashDone, FlashError, BootStates
<1>4. NoNewChecksum
  BY DEF NoNewChecksum, FlashDone, FlashError
<1>5. UNCHANGED <<up, host, fresh>>
  BY DEF FlashDone, FlashError
<1> QED
  BY <1>1, <1>2, <1>3, <1>4, <1>5, PartSame, TargetKeeps

LEMMA RestartKeeps == ASSUME TypeOK, NEW m, Restart(m) PROVE Part(up', up) /\ NextBusy
<1>1. PICK n \in 0 .. Len(up) : up' = SubSeq(up, n + 1, Len(up))
  BY DEF Restart
<1>2. up \in Seq(Requests)
  BY DEF TypeOK
<1> QED
  BY <1>1, <1>2, PartSuffix DEF Restart, NextBusy, AtReset

LEMMA ResettingVerified ==
  ASSUME TypeOK, TypeOK', Verified,
         message_loop_exit \/ BootTimeout \/ AppReceive \/ PowerLoss
  PROVE  Verified'
<1>1. up \in Seq(Requests) /\ down \in Seq(Responses)
  BY DEF TypeOK
<1>2. CASE message_loop_exit \/ BootTimeout
  <2>1. start_app
    BY <1>2 DEF message_loop_exit, BootTimeout
  <2>2. UNCHANGED <<flash, down, host, result, fresh>>
    BY <2>1 DEF start_app
  <2>3. Part(up', up) /\ NextBusy
    BY <2>1, RestartKeeps DEF start_app
  <2>4. FlashKept /\ NoNewChecksum
    BY <1>1, <2>2, PartSame DEF FlashKept, NoNewChecksum
  <2> QED
    BY <2>2, <2>3, <2>4, TargetKeeps
<1>3. CASE AppReceive
  <2>1. UNCHANGED <<flash, down, host, result, fresh>>
    BY <1>3 DEF AppReceive
  <2>2. Part(up', up)
    <3>1. CASE Head(up).id = "shell"
      <4>1. PICK n \in 1 .. Len(up) : up' = SubSeq(up, n + 1, Len(up))
        BY <1>3, <3>1 DEF AppReceive
      <4> QED
        BY <1>1, <4>1, PartSuffix
    <3>2. CASE Head(up).id # "shell"
      <4>1. up # <<>> /\ up' = Tail(up)
        BY <1>3, <3>2 DEF AppReceive
      <4> QED
        BY <1>1, <4>1, PartTail
    <3> QED
      BY <3>1, <3>2
  <2>3. NextBusy
    BY <1>3 DEF AppReceive, NextBusy, AtReset
  <2>4. FlashKept /\ NoNewChecksum
    BY <1>1, <2>1, PartSame DEF FlashKept, NoNewChecksum
  <2> QED
    BY <2>1, <2>2, <2>3, <2>4, TargetKeeps
<1>4. CASE PowerLoss
  <2>1. Part(up', up) /\ NextBusy
    BY <1>4, RestartKeeps DEF PowerLoss
  <2>2. PICK n \in 0 .. Len(down) : down' = SubSeq(down, 1, n)
    BY <1>4 DEF PowerLoss
  <2>3. NoNewChecksum
    BY <1>1, <2>2, PartPrefix DEF NoNewChecksum
  <2>4. FlashKept
    BY <1>4, BrokenOffKeeps DEF PowerLoss, FlashKept
  <2>5. UNCHANGED <<host, fresh>>
    BY <1>4 DEF PowerLoss
  <2> QED
    BY <2>1, <2>3, <2>4, <2>5, TargetKeeps
<1> QED
  BY <1>2, <1>3, <1>4

LEMMA LinkVerified ==
  ASSUME TypeOK, TypeOK', Verified, LoseRequest \/ LoseResponse
  PROVE  Verified'
<1>1. up \in Seq(Requests) /\ down \in Seq(Responses)
  BY DEF TypeOK
<1>2. UNCHANGED <<flash, boot, host, fresh>>
  BY DEF LoseRequest, LoseResponse, target
<1>3. Part(up', up) /\ Part(down', down)
  BY <1>1, PartTail, PartSame DEF LoseRequest, LoseResponse
<1> QED
  BY <1>2, <1>3, TargetKeeps DEF FlashKept, NextBusy, NoNewChecksum

-----------------------------------------------------------------------------
(* The same for the host                                                   *)

LEMMA GetResponsePart ==
  ASSUME TypeOK, Response(TRUE) \/ NoResponse
  PROVE  Part(down', down)
<1>1. down \in Seq(Responses)
  BY DEF TypeOK
<1>2. UNCHANGED down \/ (down # <<>> /\ down' = Tail(down))
  BY DEF Response, NoResponse, Timeout
<1> QED
  BY <1>1, <1>2, PartTail, PartSame

LEMMA NoChecksumKept ==
  ASSUME TypeOK, TypeOK', NoChecksum, Part(down', down)
  PROVE  NoChecksum'
<1>1. down \in Seq(Responses) /\ down' \in Seq(Responses)
  BY DEF TypeOK
<1> QED
  BY <1>1 DEF NoChecksum, Part

\* The answers to writes, and to everything before the first verification.
LEMMA BeforeVerify ==
  ASSUME TypeOK, TypeOK', Verified, fresh,
         host.pc \notin {"idle", "verify"}, host'.pc \notin {"idle", "verify"},
         \A s \in DOMAIN Sections : Past(s)' => Past(s),
         UNCHANGED <<target, fresh>>, Part(down', down),
         \/ UNCHANGED up
         \/ \E req : /\ up' = Append(up, req) /\ req \in Requests
                     /\ req.id # "verify"
                     /\ \A s \in DOMAIN Sections : Past(s) => ~Damages(req, s)
  PROVE  Verified'
<1>1. up \in Seq(Requests) /\ up' \in Seq(Requests)
  BY DEF TypeOK
<1>2. UNCHANGED <<flash, boot>>
  BY DEF target
<1>3. NoVerify /\ NoChecksum /\ \A s \in DOMAIN Sections : Past(s) => NothingDamages(s)
  BY DEF Verified, VerifyPhases
<1>4. VerifiedSections'
  BY <1>2 DEF Verified, VerifiedSections, Whole
<1>5. NoChecksum'
  BY <1>3, NoChecksumKept
<1>6. NoVerify' /\ \A s \in DOMAIN Sections : Past(s)' => NothingDamages(s)'
  <2>1. CASE UNCHANGED up
    BY <1>2, <1>3, <2>1 DEF NoVerify, NothingDamages, Damages
  <2>2. CASE ~UNCHANGED up
    <3>1. PICK req \in Requests :
             /\ up' = Append(up, req) /\ req.id # "verify"
             /\ \A s \in DOMAIN Sections : Past(s) => ~Damages(req, s)
      BY <2>2
    <3>2. \A k \in DOMAIN up' : up'[k] = req \/ (k \in DOMAIN up /\ up'[k] = up[k])
      BY <1>1, <3>1, AppendElements
    <3>3. NoVerify'
      BY <1>3, <3>1, <3>2 DEF NoVerify
    <3>4. ASSUME NEW s \in DOMAIN Sections, Past(s)' PROVE NothingDamages(s)'
      <4>1. Past(s) /\ NothingDamages(s) /\ ~Damages(req, s)
        BY <1>3, <3>1, <3>4
      <4>2. \A k \in DOMAIN up' : ~Damages(up'[k], s)
        BY <3>2, <4>1 DEF NothingDamages
      <4> QED
        BY <1>2, <4>1, <4>2 DEF NothingDamages, Damages
    <3> QED
      BY <3>3, <3>4
  <2> QED
    BY <2>1, <2>2
<1> QED
  BY <1>4, <1>5, <1>6 DEF Verified, VerifyPhases

LEMMA AskVerified ==
  ASSUME TypeOK, TypeOK', Verified, fresh, host.pc \in {"hack", "enter", "erase"},
         Response(TRUE) \/ NoResponse,
         NEW pc \in {"hack", "enter", "erase"}, NEW at, NEW id, Ask(pc, at, id),
         [id |-> id, arg |-> at] \in Requests, id # "verify"
  PROVE  Verified'
<1>1. Part(down', down)
  BY GetResponsePart
<1>2. host'.pc = pc /\ UNCHANGED <<target, fresh>>
      /\ up' = Append(up, [id |-> id, arg |-> at])
  BY DEF Ask
<1>3. \A s \in DOMAIN Sections : ~Past(s) /\ ~Past(s)'
  BY <1>2 DEF Past
<1> QED
  BY <1>1, <1>2, <1>3, BeforeVerify

\* At home again: nothing is claimed.
LEMMA ReturnVerified ==
  ASSUME NEW res, Return(res)
  PROVE  Verified'
<1>1. host'.pc = "idle"
  BY DEF Return
<1> QED
  BY <1>1 DEF Verified, VerifiedSections, VerifyPhases, Past

LEMMA ClickVerified ==
  ASSUME TypeOK, TypeOK', updateButton_clicked
  PROVE  Verified'
<1> SUFFICES ASSUME fresh' PROVE Verified'
  BY DEF Verified, VerifiedSections, VerifyPhases
<1>1. /\ up = <<>> /\ up' = Append(up, [id |-> "shell", arg |-> 0])
      /\ down' = <<>> /\ host'.pc = "hack"
  BY DEF updateButton_clicked
<1>2. \A k \in DOMAIN up' : up'[k] = [id |-> "shell", arg |-> 0]
  BY <1>1, RequestType, AppendElements DEF TypeOK
<1>3. NoVerify' /\ NoChecksum' /\ \A s \in DOMAIN Sections : ~Past(s)'
  BY <1>1, <1>2 DEF Past, NoVerify, NoChecksum
<1> QED
  BY <1>1, <1>3 DEF Verified, VerifiedSections, VerifyPhases

LEMMA EraseVerified ==
  ASSUME TypeOK, TypeOK', Verified, fresh, bootEraseSector
  PROVE  Verified'
<1>1. CASE host.at < Len(Sectors)
  <2>1. host.at + 1 \in DOMAIN Sectors
    BY <1>1, NextOnes DEF TypeOK, bootEraseSector
  <2> QED
    BY <1>1, <2>1, AskVerified, RequestType DEF bootEraseSector
<1>2. CASE ~(host.at < Len(Sectors))
  <2>1. Part(down', down)
    BY GetResponsePart DEF bootEraseSector
  <2>2. /\ host'.pc = "write" /\ host'.at = 1 /\ host.pc = "erase"
        /\ UNCHANGED <<target, up, fresh>>
    BY <1>2 DEF bootEraseSector, BeginSection
  <2>3. \A s \in DOMAIN Sections : ~Past(s)'
    BY <2>2, SectionCells DEF Past
  <2> QED
    BY <2>1, <2>2, <2>3, BeforeVerify
<1> QED
  BY <1>1, <1>2

LEMMA WriteAsyncVerified ==
  ASSUME TypeOK, TypeOK', Verified, fresh, bootWriteDataAsync
  PROVE  Verified'
<1>1. /\ host.pc = "write" /\ WriteChunk /\ host.at \in DOMAIN Sections
      /\ UNCHANGED <<target, down, fresh>>
  BY DEF bootWriteDataAsync, TypeOK
<1>2. host'.pc \in {"write", "ack"} /\ host'.at = host.at
  <2>1. host = [pc |-> host.pc, at |-> host.at, i |-> host.i]
    BY DEF TypeOK
  <2> QED
    BY <1>1, <2>1 DEF bootWriteDataAsync
<1>3. Part(down', down)
  BY <1>1, PartSame DEF TypeOK
<1>4. \A s \in DOMAIN Sections : Past(s)' = Past(s)
  BY <1>1, <1>2 DEF Past
<1>5. CASE UNCHANGED up
  BY <1>1, <1>2, <1>3, <1>4, <1>5, BeforeVerify
<1>6. CASE ~UNCHANGED up
  <2>1. PICK c \in Section(host.at) : up' = Append(up, [id |-> "write", arg |-> c])
    BY <1>1, <1>6, WriteChunkType
  <2> DEFINE req == [id |-> "write", arg |-> c]
  <2>2. req \in Requests /\ req.id # "verify"
    BY <1>1, <2>1, SectionCells, RequestType
  <2>3. ASSUME NEW s \in DOMAIN Sections, Past(s) PROVE ~Damages(req, s)
    <3>1. s # host.at
      BY <1>1, <2>3, SectionCells DEF Past
    <3>2. c \notin Section(s)
      BY <1>1, <2>1, <3>1, BootAssumption
    <3> QED
      BY <3>2 DEF Damages
  <2> QED
    BY <1>1, <1>2, <1>3, <1>4, <2>1, <2>2, <2>3, BeforeVerify
<1> QED
  BY <1>5, <1>6

LEMMA WriteVerified ==
  ASSUME TypeOK, TypeOK', Verified, fresh, bootWriteData
  PROVE  Verified'
<1>1. Part(down', down) /\ host.pc = "ack" /\ host.at \in DOMAIN Sections
  BY GetResponsePart DEF bootWriteData, TypeOK
<1>2. CASE ~LastRound
  <2>1. host = [pc |-> host.pc, at |-> host.at, i |-> host.i]
    BY DEF TypeOK
  <2>2. host'.pc = "write" /\ host'.at = host.at /\ UNCHANGED <<target, up, fresh>>
    BY <1>2, <2>1 DEF bootWriteData
  <2>3. \A s \in DOMAIN Sections : Past(s)' = Past(s)
    BY <1>1, <2>2 DEF Past
  <2> QED
    BY <1>1, <2>2, <2>3, BeforeVerify
<1>3. CASE LastRound
  <2> DEFINE req == [id |-> "verify", arg |-> host.at]
  <2>1. /\ host'.pc = "verify" /\ host'.at = host.at
        /\ up' = Append(up, req)
        /\ UNCHANGED <<target, flash, boot, fresh>>
    BY <1>3 DEF bootWriteData, Ask, target
  <2>2. \A s \in DOMAIN Sections : Past(s)' = Past(s)
    BY <1>1, <2>1 DEF Past
  <2>3. NoVerify /\ NoChecksum /\ \A s \in DOMAIN Sections : Past(s) => NothingDamages(s)
    BY <1>1 DEF Verified, VerifyPhases
  <2>4. up \in Seq(Requests) /\ req \in Requests
    BY <1>1, RequestType DEF TypeOK
  <2>5. /\ Len(up') = Len(up) + 1
        /\ \A k \in DOMAIN up' : \/ k \in DOMAIN up /\ up'[k] = up[k]
                                 \/ k = Len(up) + 1 /\ up'[k] = req
    BY <2>1, <2>4, AppendElements
  <2>6. VerifyLast'
    BY <2>1, <2>3, <2>5 DEF VerifyLast, NoVerify
  <2>7. NoChecksum'
    BY <1>1, <2>3, NoChecksumKept
  <2>8. ASSUME NEW s \in DOMAIN Sections, Past(s)' PROVE NothingDamages(s)'
    <3>1. NothingDamages(s) /\ ~Damages(req, s)
      BY <2>2, <2>3, <2>8 DEF Damages
    <3>2. \A k \in DOMAIN up' : ~Damages(up'[k], s)
      BY <2>5, <3>1 DEF NothingDamages
    <3> QED
      BY <2>1, <3>1, <3>2 DEF NothingDamages, Damages
  <2>9. VerifiedSections'
    BY <2>1, <2>2 DEF Verified, VerifiedSections, Whole
  <2> QED
    BY <2>1, <2>6, <2>7, <2>8, <2>9 DEF Verified, VerifyPhases
<1> QED
  BY <1>2, <1>3

\* A checksum that matches is the only thing under way, and still true.
LEMMA MatchProves ==
  ASSUME TypeOK, Verified, fresh, host.pc = "verify", Match
  PROVE  /\ up = <<>> /\ boot.busy = NoRequest /\ Len(down) = 1
         /\ Whole(flash, Section(host.at), "new")
<1>1. host.at \in DOMAIN Sections /\ down \in Seq(Responses) /\ down # <<>>
  BY DEF TypeOK, Match
<1>2. 1 \in DOMAIN down /\ down[1].crc = host.at /\ host.at # 0
  BY <1>1, SectionCells DEF Match
<1>3. ChecksumLast
  BY <1>2 DEF Verified, VerifyPhases, NoChecksum
<1> QED
  BY <1>2, <1>3 DEF ChecksumLast

LEMMA VerifyDataVerified ==
  ASSUME TypeOK, TypeOK', Verified, fresh, bootVerifyData
  PROVE  Verified'
<1>1. /\ up = <<>> /\ boot.busy = NoRequest /\ Len(down) = 1
      /\ Whole(flash, Section(host.at), "new")
  BY MatchProves DEF bootVerifyData
<1>2. /\ down' = <<>> /\ host.pc = "verify" /\ host.at \in DOMAIN Sections
      /\ host.at \in Nat
  <2>1. down \in Seq(Responses) /\ down' = Tail(down)
    BY DEF TypeOK, bootVerifyData, Response
  <2>2. down' = <<>>
    BY <1>1, <2>1
  <2> QED
    BY <2>2 DEF TypeOK, bootVerifyData
<1>3. UNCHANGED <<flash, boot, fresh>>
  BY DEF bootVerifyData, Ask, BeginSection, target
<1>4. \/ /\ up' = up
         /\ host'.pc = "write" /\ host'.at = host.at + 1
      \/ /\ up' = Append(up, [id |-> "exit", arg |-> 0])
         /\ host'.pc = "exit" /\ host.at = Len(Sections)
  <2>1. CASE host.at < Len(Sections)
    BY <2>1 DEF bootVerifyData, BeginSection
  <2>2. CASE ~(host.at < Len(Sections))
    <3>1. host.at = Len(Sections)
      BY <1>2, <2>2, SectionCells
    <3> QED
      BY <2>2, <3>1 DEF bootVerifyData, Ask
  <2> QED
    BY <2>1, <2>2
<1>5. \A s \in DOMAIN Sections : Past(s)' => Past(s) \/ s = host.at
  BY <1>2, <1>4, SectionCells DEF Past
<1>6. VerifiedSections'
  BY <1>1, <1>3, <1>5 DEF Verified, VerifiedSections, Whole
<1>7. NoVerify' /\ \A s \in DOMAIN Sections : NothingDamages(s)'
  <2>1. \A k \in DOMAIN up' : up'[k] = [id |-> "exit", arg |-> 0]
    BY <1>1, <1>4, RequestType, AppendElements DEF TypeOK
  <2> QED
    BY <1>1, <1>3, <2>1, NoRequestDamages DEF NoVerify, NothingDamages, Damages
<1>8. NoChecksum'
  BY <1>2 DEF NoChecksum
<1> QED
  BY <1>4, <1>6, <1>7, <1>8 DEF Verified, VerifyPhases

LEMMA HostVerified ==
  ASSUME TypeOK, TypeOK', Verified, HostStep \/ updateButton_clicked \/ Cancel
  PROVE  Verified'
<1>1. CASE updateButton_clicked
  BY <1>1, ClickVerified
<1>2. CASE bootExit \/ Failure \/ Cancel
  BY <1>2, ReturnVerified DEF bootExit, Failure, Cancel
<1>3. CASE \/ bootResetHack \/ bootEnterRepeat \/ bootEnter \/ bootEraseSector
           \/ bootWriteDataAsync \/ bootWriteData \/ bootVerifyData
  <2>1. UNCHANGED fresh
    BY <1>3 DEF bootResetHack, bootEnterRepeat, bootEnter, bootEraseSector,
                bootWriteDataAsync, bootWriteData, bootVerifyData, Ask, BeginSection
  <2>2. CASE ~fresh
    BY <2>1, <2>2 DEF Verified, VerifiedSections, VerifyPhases
  <2>3. CASE fresh
    <3>1. CASE bootResetHack
      BY <2>3, <3>1, AskVerified, RequestType DEF bootResetHack
    <3>2. CASE bootEnterRepeat
      BY <2>3, <3>2, AskVerified, RequestType DEF bootEnterRepeat
    <3>3. CASE bootEnter
      BY <2>3, <3>3, AskVerified, RequestType, FirstOnes DEF bootEnter
    <3> QED
      BY <1>3, <2>3, <3>1, <3>2, <3>3, EraseVerified, WriteAsyncVerified, WriteVerified,
         VerifyDataVerified
  <2> QED
    BY <2>2, <2>3
<1> QED
  BY <1>1, <1>2, <1>3 DEF HostStep

LEMMA VerifiedInit == Init => Verified
  BY DEF Init, Verified, VerifiedSections, VerifyPhases, Past

LEMMA VerifiedStep == ASSUME TypeOK, TypeOK', Verified, [Next]_vars PROVE Verified'
<1>1. ASSUME UNCHANGED vars PROVE Verified'
  BY <1>1 DEF vars, target, Verified, VerifiedSections, VerifyPhases, Past, NothingDamages,
              Damages, NoVerify, VerifyLast, NoChecksum, ChecksumLast, Whole
<1> QED
  BY <1>1, LoopVerified, VerifyVerified, FlashVerified, ResettingVerified, LinkVerified,
     HostVerified
     DEF Next, TargetStep

\* Whatever is late or lost, and however often the power fails: the host goes
\* on to the next section, and to the end, only when the section it leaves is in
\* the flash as it is in the file.
THEOREM UpdateVerified == Spec => []VerifiedSections
<1>1. Init => TypeOK /\ Verified
  BY InitType, VerifiedInit
<1>2. TypeOK /\ Verified /\ [Next]_vars => (TypeOK /\ Verified)'
  BY TypeStep, VerifiedStep
<1>3. Verified => VerifiedSections
  BY DEF Verified
<1> QED
  BY <1>1, <1>2, <1>3, PTL DEF Spec

\* A checksum on its way to the host is the last thing under way, and true.
THEOREM OneChecksum == Spec => []VerifyPhases
<1>1. Init => TypeOK /\ Verified
  BY InitType, VerifiedInit
<1>2. TypeOK /\ Verified /\ [Next]_vars => (TypeOK /\ Verified)'
  BY TypeStep, VerifiedStep
<1>3. Verified => VerifyPhases
  BY DEF Verified
<1> QED
  BY <1>1, <1>2, <1>3, PTL DEF Spec
=============================================================================

---------------------------- MODULE Parameter_proofs ----------------------------
(***************************************************************************)
(* The magic word vouches for the image, a save that returns has saved,    *)
(* and start-up loads a whole image or the defaults: for any number of     *)
(* parameters, values, shells and power cuts.                              *)
(***************************************************************************)
EXTENDS Parameter, TLAPS

Positions == {"off", "gone", "idle", "fault"} \cup Loading \cup Saving \cup Clearing

Place == [pc : Positions, i : Params]

LEMMA Constants ==
  /\ NumParams \in Nat /\ NumParams >= 1 /\ 1 \in Params /\ NumParams \in Params
  /\ Default \in Values /\ Values \subseteq Nat
  /\ init_task \in Tasks /\ init_task \notin Shells /\ Shells \subseteq Tasks
  /\ MaxCuts \in Nat
  BY ParameterAssumption DEF Params, Tasks

LEMMA Words ==
  /\ Erased \in Word /\ Mixed \in Word /\ PARAM_MAGIC \in Word /\ Zero \in Word
  /\ NumParams \in Word /\ Params \subseteq Word /\ Values \subseteq Word
  /\ Erased # PARAM_MAGIC /\ Mixed # PARAM_MAGIC /\ Zero # PARAM_MAGIC
  /\ NumParams # Mixed /\ NumParams # Erased
  BY Constants DEF Word, Erased, Mixed, PARAM_MAGIC, Zero

-----------------------------------------------------------------------------
(* Type correctness                                                        *)

LEMMA BootingType == Booting \in [Tasks -> Place]
  BY Constants DEF Booting, Place, Positions, Loading

LEMMA EmptyImageType == EmptyImage \in Image
  BY Words DEF EmptyImage, Image

LEMMA TypeInit == Init => TypeOK
<1> SUFFICES ASSUME Init PROVE TypeOK
  OBVIOUS
<1>1. val \in [Params -> Values] /\ cuts \in 0 .. MaxCuts
  BY Constants DEF Init
<1>2. flash \in Image
  BY EmptyImageType DEF Init, EmptyImage
<1>3. task \in [Tasks -> Place]
  BY BootingType DEF Init
<1> QED
  BY <1>1, <1>2, <1>3 DEF Init, TypeOK, Place, Positions

LEMMA ProgrammedType ==
  ASSUME NEW old \in Word, NEW new \in Word
  PROVE  Programmed(old, new) \in Word
  BY Words DEF Programmed

\* Writing one word of an image.
LEMMA WriteType ==
  ASSUME NEW f \in Image, NEW p \in Params, NEW w \in Word
  PROVE  /\ [f EXCEPT !.magic = w] \in Image /\ [f EXCEPT !.size = w] \in Image
         /\ [f EXCEPT !.id[p] = w] \in Image /\ [f EXCEPT !.val[p] = w] \in Image
<1>1. [f.id EXCEPT ![p] = w] \in [Params -> Word] /\ [f.val EXCEPT ![p] = w] \in [Params -> Word]
  BY DEF Image
<1> QED
  BY <1>1 DEF Image

Programming == {"id", "value", "size", "magic", "clear_magic"}

LEMMA TargetType ==
  ASSUME TypeOK, NEW t \in Tasks, task[t].pc \in Programming
  PROVE  Target(t) \in Image /\ CutProgram(t) \subseteq Image
<1> DEFINE i == task[t].i
<1>1. /\ flash \in Image /\ i \in Params /\ i \in Word
      /\ flash.magic \in Word /\ flash.size \in Word
      /\ flash.id[i] \in Word /\ flash.val[i] \in Word
      /\ val[i] \in Word
  BY Words DEF TypeOK, Image
<1>2. CASE task[t].pc = "id"
  <2>1. Target(t) = [flash EXCEPT !.id[i] = Programmed(flash.id[i], i)]
    BY <1>2 DEF Target
  <2>2. CutProgram(t) = {flash, Target(t), [flash EXCEPT !.id[i] = Mixed]}
    BY <1>2 DEF CutProgram
  <2> HIDE DEF i
  <2>3. Programmed(flash.id[i], i) \in Word /\ Mixed \in Word
    BY <1>1, Words, ProgrammedType
  <2>4. [flash EXCEPT !.id[i] = Programmed(flash.id[i], i)] \in Image
    BY <1>1, <2>3, WriteType
  <2>5. [flash EXCEPT !.id[i] = Mixed] \in Image
    BY <1>1, <2>3, WriteType
  <2> QED
    BY <1>1, <2>1, <2>2, <2>4, <2>5
<1>3. CASE task[t].pc = "value"
  <2>1. Target(t) = [flash EXCEPT !.val[i] = Programmed(flash.val[i], val[i])]
    BY <1>3 DEF Target
  <2>2. CutProgram(t) = {flash, Target(t), [flash EXCEPT !.val[i] = Mixed]}
    BY <1>3 DEF CutProgram
  <2> HIDE DEF i
  <2>3. Programmed(flash.val[i], val[i]) \in Word /\ Mixed \in Word
    BY <1>1, Words, ProgrammedType
  <2>4. [flash EXCEPT !.val[i] = Programmed(flash.val[i], val[i])] \in Image
    BY <1>1, <2>3, WriteType
  <2>5. [flash EXCEPT !.val[i] = Mixed] \in Image
    BY <1>1, <2>3, WriteType
  <2> QED
    BY <1>1, <2>1, <2>2, <2>4, <2>5
<1>4. CASE task[t].pc = "size"
  <2>1. Target(t) = [flash EXCEPT !.size = Programmed(flash.size, NumParams)]
    BY <1>4 DEF Target
  <2>2. CutProgram(t) = {flash, Target(t), [flash EXCEPT !.size = Mixed]}
    BY <1>4 DEF CutProgram
  <2> HIDE DEF i
  <2>3. Programmed(flash.size, NumParams) \in Word /\ Mixed \in Word
    BY <1>1, Words, ProgrammedType
  <2>4. [flash EXCEPT !.size = Programmed(flash.size, NumParams)] \in Image
    BY <1>1, <2>3, WriteType
  <2>5. [flash EXCEPT !.size = Mixed] \in Image
    BY <1>1, <2>3, WriteType
  <2> QED
    BY <1>1, <2>1, <2>2, <2>4, <2>5
<1>5. CASE task[t].pc = "magic"
  <2>1. Target(t) = [flash EXCEPT !.magic = Programmed(flash.magic, PARAM_MAGIC)]
    BY <1>5 DEF Target
  <2>2. CutProgram(t) = {flash, Target(t), [flash EXCEPT !.magic = Mixed]}
    BY <1>5 DEF CutProgram
  <2> HIDE DEF i
  <2>3. Programmed(flash.magic, PARAM_MAGIC) \in Word /\ Mixed \in Word
    BY <1>1, Words, ProgrammedType
  <2>4. [flash EXCEPT !.magic = Programmed(flash.magic, PARAM_MAGIC)] \in Image
    BY <1>1, <2>3, WriteType
  <2>5. [flash EXCEPT !.magic = Mixed] \in Image
    BY <1>1, <2>3, WriteType
  <2> QED
    BY <1>1, <2>1, <2>2, <2>4, <2>5
<1>6. CASE task[t].pc = "clear_magic"
  <2>1. Target(t) = [flash EXCEPT !.magic = Programmed(flash.magic, Zero)]
    BY <1>6 DEF Target
  <2>2. CutProgram(t) = {flash, Target(t), [flash EXCEPT !.magic = Mixed]}
    BY <1>6 DEF CutProgram
  <2> HIDE DEF i
  <2>3. Programmed(flash.magic, Zero) \in Word /\ Mixed \in Word
    BY <1>1, Words, ProgrammedType
  <2>4. [flash EXCEPT !.magic = Programmed(flash.magic, Zero)] \in Image
    BY <1>1, <2>3, WriteType
  <2>5. [flash EXCEPT !.magic = Mixed] \in Image
    BY <1>1, <2>3, WriteType
  <2> QED
    BY <1>1, <2>1, <2>2, <2>4, <2>5
<1> QED
  BY <1>2, <1>3, <1>4, <1>5, <1>6 DEF Programming

LEMMA CutEraseType ==
  ASSUME TypeOK
  PROVE  CutErase \subseteq Image
<1>1. /\ flash.magic \in Word /\ flash.size \in Word
      /\ flash.id \in [Params -> Word] /\ flash.val \in [Params -> Word]
  BY DEF TypeOK, Image
<1>2. ASSUME NEW words \in [Params -> Word] PROVE CutWords(words) \subseteq [Params -> Word]
  BY Words DEF CutWords
<1>3. CutWord(flash.magic, Erased) \subseteq Word /\ CutWord(flash.size, Erased) \subseteq Word
  BY <1>1, Words DEF CutWord
<1>4. CutWords(flash.id) \subseteq [Params -> Word] /\ CutWords(flash.val) \subseteq [Params -> Word]
  BY <1>1, <1>2
<1> HIDE DEF CutWords
<1> QED
  BY <1>3, <1>4 DEF CutErase, Image

\* Moving a task.
LEMMA MoveType ==
  ASSUME TypeOK, NEW t \in Tasks
  PROVE  /\ \A pc \in Positions : GoTo(t, pc) => task' \in [Tasks -> Place]
         /\ \A pc \in Positions : Begin(t, pc) => task' \in [Tasks -> Place]
         /\ Return(t) => task' \in [Tasks -> Place]
         /\ NextEntry(t) => task' \in [Tasks -> Place]
<1>1. task \in [Tasks -> Place] /\ task[t] \in Place /\ task[t].i \in Params
  BY DEF TypeOK, Place, Positions
<1>2. ASSUME NEW x \in Place, task' = [task EXCEPT ![t] = x] PROVE task' \in [Tasks -> Place]
  BY <1>1, <1>2
<1>3. ASSUME NEW pc \in Positions, GoTo(t, pc) PROVE task' \in [Tasks -> Place]
  <2>1. [task[t] EXCEPT !.pc = pc] \in Place
    BY <1>1 DEF Place
  <2> QED
    BY <1>2, <1>3, <2>1 DEF GoTo
<1>4. ASSUME NEW pc \in Positions, Begin(t, pc) PROVE task' \in [Tasks -> Place]
  <2>1. [pc |-> pc, i |-> 1] \in Place
    BY Constants DEF Place
  <2> QED
    BY <1>2, <1>4, <2>1 DEF Begin
<1>5. "idle" \in Positions /\ "gone" \in Positions
  BY DEF Positions
<1>6. ASSUME Return(t) PROVE task' \in [Tasks -> Place]
  <2>1. CASE t = init_task
    BY <1>5, <1>6, <2>1, Constants DEF Return, Place
  <2>2. CASE t # init_task
    BY <1>4, <1>5, <1>6, <2>2 DEF Return
  <2> QED
    BY <2>1, <2>2
<1>7. ASSUME NextEntry(t) PROVE task' \in [Tasks -> Place]
  <2>1. CASE task[t].i < NumParams
    <3>1. task[t].i + 1 \in Params
      BY <1>1, <2>1, Constants DEF Params
    <3>2. [task[t] EXCEPT !.i = @ + 1] \in Place
      BY <1>1, <3>1 DEF Place
    <3> QED
      BY <1>2, <1>7, <2>1, <3>2 DEF NextEntry
  <2>2. CASE ~(task[t].i < NumParams)
    BY <1>6, <1>7, <2>2 DEF NextEntry
  <2> QED
    BY <2>1, <2>2
<1> QED
  BY <1>3, <1>4, <1>6, <1>7

\* The table, after a parameter has been set.
LEMMA SetType ==
  ASSUME TypeOK, NEW p \in Params, NEW v \in Values, param_set(p, v)
  PROVE  val' \in [Params -> Values] /\ stable' \in BOOLEAN
  BY DEF TypeOK, param_set

LEMMA LoadType ==
  ASSUME TypeOK, NEW t \in Tasks, param_load(t)
  PROVE  TypeOK'
<1>1. "load_size" \in Positions /\ "load_entry" \in Positions /\ "fault" \in Positions
  BY DEF Positions, Loading
<1>2. /\ task' \in [Tasks -> Place]
      /\ val' \in [Params -> Values] /\ stable' \in BOOLEAN
      /\ UNCHANGED <<flashvars, cuts, tainted>>
  <2>1. CASE LoadMagic(t)
    BY <1>1, <2>1, MoveType DEF LoadMagic, TypeOK, ghosts
  <2>2. CASE LoadSize(t)
    BY <1>1, <2>2, MoveType DEF LoadSize, TypeOK, ghosts
  <2>3. CASE LoadEntry(t)
    <3>1. task' \in [Tasks -> Place] /\ UNCHANGED <<flashvars, cuts, tainted>>
      BY <2>3, MoveType DEF LoadEntry
    <3>2. val' \in [Params -> Values] /\ stable' \in BOOLEAN
      <4>1. CASE \E p \in Params, w \in Values : param_set(p, w)
        BY <4>1, SetType
      <4>2. CASE UNCHANGED <<val, stable>>
        BY <4>2 DEF TypeOK
      <4> QED
        BY <2>3, <4>1, <4>2 DEF LoadEntry
    <3> QED
      BY <3>1, <3>2
  <2> QED
    BY <2>1, <2>2, <2>3 DEF param_load
<1> QED
  BY <1>2 DEF TypeOK, flashvars, Place, Positions

\* What the flash controller does to the image and to its flags.
LEMMA ControllerType ==
  ASSUME TypeOK, NEW s \in Tasks,
         \/ FLASH_Unlock \/ FLASH_Lock \/ FLASH_EraseSector
         \/ task[s].pc \in Programming /\ FLASH_ProgramWord(s)
  PROVE  flash' \in Image /\ locked' \in BOOLEAN /\ err' \in BOOLEAN
<1>1. CASE FLASH_Unlock \/ FLASH_Lock
  BY <1>1 DEF FLASH_Unlock, FLASH_Lock, TypeOK
<1>2. CASE FLASH_EraseSector
  BY <1>2, EmptyImageType DEF FLASH_EraseSector, TypeOK
<1>3. CASE task[s].pc \in Programming /\ FLASH_ProgramWord(s)
  BY <1>3, TargetType DEF FLASH_ProgramWord, TypeOK
<1> QED
  BY <1>1, <1>2, <1>3

LEMMA ShellPositions ==
  /\ "idle" \in Positions /\ "load" \in Positions
  /\ Saving \subseteq Positions /\ Clearing \subseteq Positions
  /\ {"unlock", "erase", "id", "value", "size", "magic", "lock"} \subseteq Positions
  /\ {"clear_unlock", "clear_magic", "clear_lock"} \subseteq Positions
  BY DEF Positions, Loading, Saving, Clearing

\* The steps of a shell that move it on and change no more than the flash.
LEMMA ShellType ==
  ASSUME TypeOK, NEW s \in Shells,
         task' \in [Tasks -> Place],
         flash' \in Image, locked' \in BOOLEAN, err' \in BOOLEAN,
         val' = val, cuts' = cuts, tainted' \in BOOLEAN, stable' \in BOOLEAN
  PROVE  TypeOK'
  BY DEF TypeOK, Place, Positions

LEMMA CommandType ==
  ASSUME TypeOK, NEW s \in Shells,
         cmd_sp(s) \/ cmd_param_load(s) \/ cmd_param_save(s) \/ cmd_param_clear(s)
  PROVE  TypeOK'
<1>1. s \in Tasks
  BY Constants
<1>2. CASE cmd_sp(s)
  <2>1. val' \in [Params -> Values] /\ stable' \in BOOLEAN
    BY <1>2, SetType DEF cmd_sp
  <2> QED
    BY <1>2, <2>1 DEF cmd_sp, TypeOK, flashvars
<1>3. CASE cmd_param_load(s)
  BY <1>1, <1>3, ShellPositions, MoveType, ShellType DEF cmd_param_load, flashvars, ghosts, TypeOK
<1>4. CASE cmd_param_save(s)
  <2>1. task' \in [Tasks -> Place]
    BY <1>1, <1>4, ShellPositions, MoveType DEF cmd_param_save
  <2> QED
    BY <1>4, <2>1, ShellType DEF cmd_param_save, flashvars, TypeOK
<1>5. CASE cmd_param_clear(s)
  <2>1. task' \in [Tasks -> Place]
    BY <1>1, <1>5, ShellPositions, MoveType DEF cmd_param_clear
  <2> QED
    BY <1>5, <2>1, ShellType DEF cmd_param_clear, flashvars, TypeOK
<1> QED
  BY <1>2, <1>3, <1>4, <1>5

LEMMA SaveType ==
  ASSUME TypeOK, NEW s \in Shells, param_save(s)
  PROVE  TypeOK'
<1>1. s \in Tasks
  BY Constants
<1>2. task' \in [Tasks -> Place]
  <2>1. CASE SaveValue(s)
    <3>1. CASE task[s].i < NumParams
      <4>1. task[s] \in Place /\ task[s].i \in Params
        BY <1>1 DEF TypeOK, Place, Positions
      <4>2. [pc |-> "id", i |-> task[s].i + 1] \in Place
        BY <3>1, <4>1, Constants, ShellPositions DEF Place, Params
      <4>3. task' = [task EXCEPT ![s] = [pc |-> "id", i |-> task[s].i + 1]]
        BY <2>1, <3>1 DEF SaveValue
      <4> QED
        BY <4>2, <4>3 DEF TypeOK, Place, Positions
    <3>2. CASE ~(task[s].i < NumParams)
      BY <1>1, <2>1, <3>2, ShellPositions, MoveType DEF SaveValue, GoTo
    <3> QED
      BY <3>1, <3>2
  <2> QED
    BY <1>1, <2>1, ShellPositions, MoveType
       DEF param_save, SaveUnlock, SaveErase, SaveId, SaveSize, SaveMagic, SaveLock
<1>3. flash' \in Image /\ locked' \in BOOLEAN /\ err' \in BOOLEAN
  BY <1>1, ControllerType
     DEF param_save, SaveUnlock, SaveErase, SaveId, SaveValue, SaveSize, SaveMagic, SaveLock,
         At, Programming
<1>4. val' = val /\ cuts' = cuts /\ tainted' \in BOOLEAN /\ stable' \in BOOLEAN
  BY DEF param_save, SaveUnlock, SaveErase, SaveId, SaveValue, SaveSize, SaveMagic, SaveLock,
         ghosts, TypeOK
<1> QED
  BY <1>2, <1>3, <1>4, ShellType

LEMMA ClearType ==
  ASSUME TypeOK, NEW s \in Shells, param_clear(s)
  PROVE  TypeOK'
<1>1. s \in Tasks
  BY Constants
<1>2. task' \in [Tasks -> Place]
  BY <1>1, ShellPositions, MoveType DEF param_clear, ClearUnlock, ClearMagic, ClearLock
<1>3. flash' \in Image /\ locked' \in BOOLEAN /\ err' \in BOOLEAN
  BY <1>1, ControllerType DEF param_clear, ClearUnlock, ClearMagic, ClearLock, At, Programming
<1>4. val' = val /\ cuts' = cuts /\ tainted' \in BOOLEAN /\ stable' \in BOOLEAN
  BY DEF param_clear, ClearUnlock, ClearMagic, ClearLock, ghosts, TypeOK
<1> QED
  BY <1>2, <1>3, <1>4, ShellType

\* A start of the program, whatever image it finds.
LEMMA RebootType ==
  ASSUME TypeOK, Reboot, flash' \in Image, cuts' \in 0 .. MaxCuts, tainted' \in BOOLEAN
  PROVE  TypeOK'
<1>1. task' \in [Tasks -> Place]
  BY BootingType DEF Reboot, Booting
<1> QED
  BY <1>1, Constants DEF Reboot, TypeOK, Place, Positions

\* The ways the program is cut short, and the image each leaves.
LEMMA CutCases ==
  ASSUME TypeOK, PowerCut \/ WatchdogReset
                 \/ \E s \in Shells : PowerCutInErase(s) \/ PowerCutInProgram(s)
  PROVE  /\ Reboot /\ flash' \in Image
         /\ cuts' \in 0 .. MaxCuts /\ tainted' \in BOOLEAN
<1>1. CASE PowerCut
  BY <1>1, Constants DEF PowerCut, Cut, TypeOK
<1>2. CASE WatchdogReset
  BY <1>2 DEF WatchdogReset, TypeOK
<1>3. ASSUME NEW s \in Shells, PowerCutInErase(s)
      PROVE  /\ Reboot /\ flash' \in Image
             /\ cuts' \in 0 .. MaxCuts /\ tainted' \in BOOLEAN
  BY <1>3, CutEraseType, Constants DEF PowerCutInErase, Cut, TypeOK
<1>4. ASSUME NEW s \in Shells, PowerCutInProgram(s)
      PROVE  /\ Reboot /\ flash' \in Image
             /\ cuts' \in 0 .. MaxCuts /\ tainted' \in BOOLEAN
  <2>1. Reboot /\ cuts < MaxCuts /\ cuts' = cuts + 1 /\ tainted' = tainted
    BY <1>4 DEF PowerCutInProgram, Cut
  <2>2. flash' \in Image
    BY <1>4, Constants, TargetType DEF PowerCutInProgram, Programming
  <2> QED
    BY <2>1, <2>2, Constants DEF TypeOK
<1> QED
  BY <1>1, <1>2, <1>3, <1>4

LEMMA TypeNext == TypeOK /\ [Next]_vars => TypeOK'
<1> SUFFICES ASSUME TypeOK, [Next]_vars PROVE TypeOK'
  OBVIOUS
<1>1. CASE UNCHANGED vars
  BY <1>1 DEF vars, flashvars, ghosts, TypeOK
<1>2. CASE Next
  BY <1>2, LoadType, CommandType, SaveType, ClearType, CutCases, RebootType DEF Next
<1> QED
  BY <1>1, <1>2

\* Every variable stays in its domain, a task's position in the image among
\* the entries: what a power cut leaves is an image too.
THEOREM TypeCorrect == Spec => []TypeOK
  BY TypeInit, TypeNext, PTL DEF Spec

-----------------------------------------------------------------------------
(* The inductive invariant                                                 *)

\* Entry p has been written, and holds the parameter's value unless that was
\* changed; entry p is still empty.
Written(p) == /\ flash.id[p] = p /\ flash.val[p] \in Values
              /\ stable => flash.val[p] = val[p]
Blank(p)   == flash.id[p] = Erased /\ flash.val[p] = Erased

\* The image while a save has come to entry i.
Upto(i) ==
    /\ flash.magic = Erased /\ flash.size = Erased
    /\ \A p \in Params : IF p < i THEN Written(p) ELSE p > i => Blank(p)

Unlocked == {"erase", "id", "value", "size", "magic", "lock", "clear_magic", "clear_lock"}

\* What a save or a clear has done when it is at its position.
Phase(t) ==
    LET pc == task[t].pc
        i  == task[t].i
    IN  /\ pc \in Unlocked => ~locked
        /\ pc = "id" => Upto(i) /\ Blank(i)
        /\ pc = "value" => Upto(i) /\ flash.id[i] = i /\ flash.val[i] = Erased
        /\ pc = "size" => flash.magic = Erased /\ flash.size = Erased
        /\ pc = "magic" => flash.magic = Erased /\ flash.size = NumParams
        /\ pc = "lock" => flash.magic = PARAM_MAGIC /\ flash.size = NumParams
        /\ pc \in {"size", "magic", "lock"} => \A p \in Params : Written(p)

\* While the image is not tainted, one task at most is in param_save or
\* param_clear, at a position that tells what the image holds.
Sound ==
    ~tainted => /\ ~err
                /\ \A t \in Tasks : Busy(t) => Alone(t) /\ Phase(t)
                /\ flash.magic = PARAM_MAGIC => Complete

\* A save begins at the first entry.
FirstEntry == \A t \in Tasks : task[t].pc \in {"unlock", "erase"} => task[t].i = 1

\* Only the task that boots runs before the shells, and what it has loaded.
Boot ==
    LET pc == task[init_task].pc
        i  == task[init_task].i
    IN  /\ pc \in Loading \cup {"gone", "fault"}
        /\ pc \in Loading => \A s \in Shells : task[s].pc = "off"
        /\ pc \in {"load", "load_size"} => val = [p \in Params |-> Default]
        /\ pc \in {"load_size", "load_entry"} => flash.magic = PARAM_MAGIC
        /\ pc = "load_entry" /\ ~tainted =>
               \A p \in Params : val[p] = IF p < i THEN flash.val[p] ELSE Default

Inv == TypeOK /\ Sound /\ FirstEntry /\ Boot

LEMMA InvInit == Init => Inv
<1> SUFFICES ASSUME Init PROVE Inv
  OBVIOUS
<1>1. TypeOK
  BY TypeInit
<1>2. \A t \in Tasks : task[t].pc = (IF t = init_task THEN "load" ELSE "off") /\ task[t].i = 1
  BY DEF Init, Booting
<1>3. Sound
  BY <1>2, Words DEF Sound, Init, Busy, Saving, Clearing
<1>4. FirstEntry
  BY <1>2 DEF FirstEntry
<1>5. Boot
  BY <1>2, Constants DEF Boot, Init, Loading
<1> QED
  BY <1>1, <1>3, <1>4, <1>5 DEF Inv

-----------------------------------------------------------------------------
(* Moves of one task                                                       *)

\* All tasks but t stay where they are.
Others(t) == \A u \in Tasks \ {t} : task'[u] = task[u]

LEMMA Moved ==
  ASSUME TypeOK, NEW t \in Tasks
  PROVE  /\ \A pc : GoTo(t, pc) => Others(t) /\ task'[t].pc = pc /\ task'[t].i = task[t].i
         /\ \A pc : Begin(t, pc) => Others(t) /\ task'[t].pc = pc /\ task'[t].i = 1
  BY DEF TypeOK, GoTo, Begin, Others

\* A step that leaves the flash and the tasks that use it alone, and reports
\* it when it changes a parameter.
LEMMA QuietStep ==
  ASSUME Inv,
         UNCHANGED flashvars, tainted' = tainted,
         UNCHANGED <<val, stable>> \/ stable' = (stable /\ val' = val),
         \A u \in Tasks : \/ task'[u] = task[u]
                          \/ task'[u].pc \notin Saving \cup Clearing
  PROVE  Sound' /\ FirstEntry'
<1>1. /\ flash' = flash /\ locked' = locked /\ err' = err
      /\ stable' => stable /\ val' = val
  <2>1. flash' = flash /\ locked' = locked /\ err' = err
    BY DEF flashvars
  <2>2. stable' => stable /\ val' = val
    <3>1. CASE UNCHANGED <<val, stable>>
      BY <3>1
    <3>2. CASE stable' = (stable /\ val' = val)
      BY <3>2
    <3> QED
      BY <3>1, <3>2
  <2> QED
    BY <2>1, <2>2
<1>2. \A p : Written(p) => Written(p)'
  BY <1>1 DEF Written
<1>3. \A p : Blank(p) => Blank(p)'
  BY <1>1 DEF Blank
<1>4. \A k : Upto(k) => Upto(k)'
  BY <1>1, <1>2, <1>3 DEF Upto
<1>5. Complete => Complete'
  BY <1>1 DEF Complete
<1>6. ASSUME NEW t \in Tasks, Busy(t)' PROVE Busy(t) /\ task'[t] = task[t]
  BY <1>6 DEF Busy
<1>7. ASSUME NEW t \in Tasks, Busy(t)', Phase(t) PROVE Phase(t)'
  BY <1>1, <1>2, <1>3, <1>4, <1>6, <1>7 DEF Phase
<1>8. ASSUME NEW t \in Tasks, Alone(t) PROVE Alone(t)'
  BY <1>6, <1>8 DEF Alone
<1>9. Sound'
  BY <1>1, <1>5, <1>6, <1>7, <1>8 DEF Inv, Sound
<1>10. FirstEntry'
  BY DEF Inv, FirstEntry, Saving
<1> QED
  BY <1>9, <1>10

\* A step of the one shell that uses the flash.
LEMMA BusyStep ==
  ASSUME Inv, NEW s \in Tasks, Others(s),
         ~tainted' => /\ ~err' /\ Alone(s)
                      /\ Busy(s)' => Phase(s)'
                      /\ (flash.magic = PARAM_MAGIC)' => Complete',
         task'[s].pc \in {"unlock", "erase"} => task'[s].i = 1
  PROVE  Sound' /\ FirstEntry'
<1>1. ASSUME NEW t \in Tasks, Alone(s), Busy(t)' PROVE t = s
  BY <1>1 DEF Alone, Others, Busy
<1>2. ASSUME Alone(s) PROVE Alone(s)'
  BY <1>1, <1>2 DEF Alone
<1>3. Sound'
  BY <1>1, <1>2 DEF Sound
<1>4. FirstEntry'
  BY DEF Inv, FirstEntry, Others
<1> QED
  BY <1>3, <1>4

\* While a shell has a command, the task that boots has gone.
LEMMA ShellBoot ==
  ASSUME Inv, NEW s \in Shells, task[s].pc # "off",
         task'[init_task] = task[init_task]
  PROVE  Boot'
<1>1. task[init_task].pc \notin Loading
  BY DEF Inv, Boot
<1> QED
  BY <1>1 DEF Inv, Boot, Loading

-----------------------------------------------------------------------------
(* param_load and the commands                                             *)

LEMMA QuietPositions ==
  /\ "idle" \notin Saving \cup Clearing /\ "gone" \notin Saving \cup Clearing
  /\ "load" \notin Saving \cup Clearing /\ "load_size" \notin Saving \cup Clearing
  /\ "load_entry" \notin Saving \cup Clearing /\ "fault" \notin Saving \cup Clearing
  BY DEF Saving, Clearing

\* A task that loads stays out of the flash.
LEMMA LoadQuiet ==
  ASSUME Inv, NEW t \in Tasks, param_load(t)
  PROVE  /\ UNCHANGED flashvars /\ tainted' = tainted
         /\ UNCHANGED <<val, stable>> \/ stable' = (stable /\ val' = val)
         /\ \A u \in Tasks : \/ task'[u] = task[u]
                             \/ task'[u].pc \notin Saving \cup Clearing
<1> DEFINE Quiet == \A u \in Tasks : \/ task'[u] = task[u]
                                     \/ task'[u].pc \notin Saving \cup Clearing
<1>1. TypeOK
  BY DEF Inv
<1>2. ASSUME NEW pc, pc \notin Saving \cup Clearing, GoTo(t, pc) \/ Begin(t, pc) PROVE Quiet
  BY <1>1, <1>2, Moved DEF Others
<1>3. ASSUME Return(t) PROVE Quiet
  <2>1. CASE t = init_task
    BY <1>3, <2>1, QuietPositions DEF Return, Tasks
  <2>2. CASE t # init_task
    BY <1>2, <1>3, <2>2, QuietPositions DEF Return
  <2> QED
    BY <2>1, <2>2
<1>4. ASSUME NextEntry(t), task[t].pc = "load_entry" PROVE Quiet
  <2>1. CASE task' = [task EXCEPT ![t].i = @ + 1]
    <3>1. task'[t].pc = task[t].pc
      BY <1>1, <2>1 DEF TypeOK
    <3>2. \A u \in Tasks \ {t} : task'[u] = task[u]
      BY <1>1, <2>1 DEF TypeOK
    <3> QED
      BY <1>4, <3>1, <3>2, QuietPositions
  <2> QED
    BY <1>3, <1>4, <2>1 DEF NextEntry
<1>5. Quiet
  <2> HIDE DEF Quiet
  <2>1. CASE LoadMagic(t)
    BY <1>2, <1>3, <2>1, QuietPositions DEF LoadMagic
  <2>2. CASE LoadSize(t)
    BY <1>2, <1>3, <2>2, QuietPositions DEF LoadSize
  <2>3. CASE LoadEntry(t)
    BY <1>4, <2>3 DEF LoadEntry, At
  <2> QED
    BY <2>1, <2>2, <2>3 DEF param_load
<1>6. UNCHANGED flashvars /\ tainted' = tainted
  BY DEF param_load, LoadMagic, LoadSize, LoadEntry, ghosts
<1>7. UNCHANGED <<val, stable>> \/ stable' = (stable /\ val' = val)
  BY DEF param_load, LoadMagic, LoadSize, LoadEntry, ghosts, param_set
<1> QED
  BY <1>5, <1>6, <1>7

\* A shell that loads is not in the way of the task that boots.
LEMMA ShellLoad ==
  ASSUME Inv, NEW s \in Shells, param_load(s)
  PROVE  Inv'
<1>1. s \in Tasks /\ s # init_task /\ init_task \in Tasks
  BY Constants
<1>2. TypeOK'
  BY <1>1, LoadType DEF Inv
<1>3. Sound' /\ FirstEntry'
  BY <1>1, LoadQuiet, QuietStep
<1>4. task[s].pc # "off"
  BY DEF param_load, LoadMagic, LoadSize, LoadEntry, At
<1>5. task'[init_task] = task[init_task]
  <2>1. CASE LoadMagic(s) \/ LoadSize(s)
    BY <1>1, <2>1, Moved DEF Inv, LoadMagic, LoadSize, Return, Others
  <2>2. CASE LoadEntry(s)
    BY <1>1, <2>2, Moved DEF Inv, TypeOK, LoadEntry, NextEntry, Return, Others
  <2> QED
    BY <2>1, <2>2 DEF param_load
<1> QED
  BY <1>2, <1>3, <1>4, <1>5, ShellBoot DEF Inv

\* The premises of LoadRestores that the invariant gives to the task that boots.
LEMMA BootImage ==
  ASSUME Inv, param_load(init_task)
  PROVE  /\ \A s \in Shells : task[s].pc = "off"
         /\ ~tainted /\ flash.magic = PARAM_MAGIC => Complete
         /\ val \in [Params -> Values] /\ task[init_task].i \in Params
<1>1. task[init_task].pc \in Loading
  BY DEF param_load, LoadMagic, LoadSize, LoadEntry, At, Loading
<1> QED
  BY <1>1, Constants DEF Inv, Boot, Sound, TypeOK

\* What the table holds after an entry has been loaded from a sound image.
LEMMA BootEntry ==
  ASSUME Inv, LoadEntry(init_task), ~tainted
  PROVE  \A p \in Params : val'[p] = IF p < task[init_task].i + 1 THEN flash.val[p] ELSE Default
<1> DEFINE i == task[init_task].i
<1>1. i \in Params /\ val \in [Params -> Values] /\ Complete /\ i \in Int
  BY BootImage, Constants DEF param_load, LoadEntry, At, Boot, Inv, Params, Loading
<1>2. \A p \in Params : val[p] = IF p < i THEN flash.val[p] ELSE Default
  BY DEF Inv, Boot, LoadEntry, At
<1>3. flash.id[i] = i /\ flash.val[i] \in Values /\ i # Mixed
  BY <1>1 DEF Complete, Mixed, Params
<1>4. param_set(i, flash.val[i])
  BY <1>1, <1>3 DEF LoadEntry
<1> HIDE DEF i
<1>5. \A p \in Params : val'[p] = IF p = i THEN flash.val[p] ELSE val[p]
  BY <1>1, <1>4 DEF param_set
<1>6. \A p \in Params : p < i + 1 <=> p < i \/ p = i
  BY <1>1 DEF Params
<1>7. \A p \in Params : val'[p] = IF p < i + 1 THEN flash.val[p] ELSE Default
  BY <1>2, <1>5, <1>6
<1> QED
  BY <1>7 DEF i

LEMMA BootLoad ==
  ASSUME Inv, param_load(init_task)
  PROVE  Inv'
<1>1. init_task \in Tasks /\ TypeOK /\ Boot
  BY Constants DEF Inv
<1>2. TypeOK'
  BY <1>1, LoadType
<1>3. Sound' /\ FirstEntry'
  BY <1>1, LoadQuiet, QuietStep
<1>4. flash' = flash /\ tainted' = tainted
  BY <1>1, LoadQuiet DEF flashvars
<1>5. ASSUME Others(init_task) PROVE \A s \in Shells : task'[s].pc = "off"
  BY <1>5, BootImage, Constants DEF Others
<1>6. Boot'
  <2>1. CASE task'[init_task].pc \in {"gone", "fault"}
    BY <2>1 DEF Boot, Loading
  <2>2. CASE LoadMagic(init_task) /\ task'[init_task].pc \notin {"gone", "fault"}
    <3>1. GoTo(init_task, "load_size") /\ flash.magic = PARAM_MAGIC
      BY <1>1, <2>2 DEF LoadMagic, Return
    <3>2. val' = val /\ val = [p \in Params |-> Default]
      BY <1>1, <2>2 DEF LoadMagic, At, Boot
    <3>3. Others(init_task) /\ task'[init_task].pc = "load_size"
      BY <1>1, <3>1, Moved
    <3> QED
      BY <1>4, <1>5, <3>1, <3>2, <3>3 DEF Boot, Loading
  <2>3. CASE LoadSize(init_task) /\ task'[init_task].pc \notin {"gone", "fault"}
    <3>1. Begin(init_task, "load_entry") /\ flash.magic = PARAM_MAGIC
      <4>1. Return(init_task) => task'[init_task].pc = "gone"
        BY <1>1 DEF Return
      <4>2. GoTo(init_task, "fault") => task'[init_task].pc = "fault"
        BY <1>1, Moved
      <4> QED
        BY <1>1, <2>3, <4>1, <4>2 DEF LoadSize, At, Boot
    <3>2. val' = val /\ val = [p \in Params |-> Default]
      BY <1>1, <2>3 DEF LoadSize, At, Boot
    <3>3. Others(init_task) /\ task'[init_task].pc = "load_entry" /\ task'[init_task].i = 1
      BY <1>1, <3>1, Moved
    <3>4. \A p \in Params : val'[p] = Default /\ ~(p < 1)
      BY <3>2 DEF Params
    <3> QED
      BY <1>4, <1>5, <3>1, <3>3, <3>4 DEF Boot, Loading
  <2>4. CASE LoadEntry(init_task) /\ task'[init_task].pc \notin {"gone", "fault"}
    <3>1. task' = [task EXCEPT ![init_task].i = @ + 1]
      BY <1>1, <2>4 DEF LoadEntry, NextEntry, Return
    <3>2. /\ Others(init_task) /\ task'[init_task].pc = "load_entry"
          /\ task'[init_task].i = task[init_task].i + 1
      <4>1. Others(init_task)
        BY <1>1, <3>1 DEF Others, TypeOK
      <4>2. /\ task'[init_task].pc = task[init_task].pc
            /\ task'[init_task].i = task[init_task].i + 1
        BY <1>1, <3>1 DEF TypeOK
      <4> QED
        BY <2>4, <4>1, <4>2 DEF LoadEntry, At
    <3>3. flash.magic = PARAM_MAGIC
      BY <1>1, <2>4 DEF LoadEntry, At, Boot
    <3>4. ~tainted => \A p \in Params :
             val'[p] = IF p < task[init_task].i + 1 THEN flash.val[p] ELSE Default
      BY <2>4, BootEntry
    <3> QED
      BY <1>4, <1>5, <3>2, <3>3, <3>4 DEF Boot, Loading
  <2> QED
    BY <2>1, <2>2, <2>3, <2>4 DEF param_load
<1> QED
  BY <1>2, <1>3, <1>6 DEF Inv

LEMMA CommandInv ==
  ASSUME Inv, NEW s \in Shells,
         cmd_sp(s) \/ cmd_param_load(s) \/ cmd_param_save(s) \/ cmd_param_clear(s)
  PROVE  Inv'
<1>1. /\ s \in Tasks /\ s # init_task /\ init_task \in Tasks
      /\ TypeOK /\ task[s].pc # "off"
  BY Constants DEF Inv, cmd_sp, cmd_param_load, cmd_param_save, cmd_param_clear, At
<1>2. TypeOK'
  BY <1>1, CommandType
<1>3. CASE cmd_sp(s)
  <2>1. stable' = (stable /\ val' = val) /\ task' = task
    BY <1>3 DEF cmd_sp, param_set
  <2>2. UNCHANGED flashvars /\ tainted' = tainted
    BY <1>3 DEF cmd_sp
  <2> QED
    BY <1>1, <1>2, <2>1, <2>2, QuietStep, ShellBoot DEF Inv
<1>4. CASE cmd_param_load(s)
  <2>1. Others(s) /\ task'[s].pc = "load"
    BY <1>1, <1>4, Moved DEF cmd_param_load
  <2>2. UNCHANGED flashvars /\ tainted' = tainted /\ UNCHANGED <<val, stable>>
    BY <1>4 DEF cmd_param_load, ghosts
  <2>3. Sound' /\ FirstEntry'
    BY <2>1, <2>2, QuietPositions, QuietStep DEF Others
  <2> QED
    BY <1>1, <1>2, <2>1, <2>3, ShellBoot DEF Inv, Others
<1>5. CASE cmd_param_save(s) \/ cmd_param_clear(s)
  <2>1. Others(s) /\ task'[s].pc \in {"unlock", "clear_unlock"} /\ task'[s].i = 1
    BY <1>1, <1>5, Moved DEF cmd_param_save, cmd_param_clear
  <2>2. flash' = flash /\ err' = err /\ tainted' = (tainted \/ ~Alone(s))
    BY <1>5 DEF cmd_param_save, cmd_param_clear, flashvars
  <2>3. Phase(s)'
    BY <2>1 DEF Phase, Unlocked
  <2>4. ~tainted' => /\ ~err' /\ Alone(s)
                     /\ (flash.magic = PARAM_MAGIC)' => Complete'
    BY <2>2 DEF Inv, Sound, Complete
  <2>5. Sound' /\ FirstEntry'
    BY <1>1, <2>1, <2>3, <2>4, BusyStep
  <2> QED
    BY <1>1, <1>2, <2>1, <2>5, ShellBoot DEF Inv, Others
<1> QED
  BY <1>3, <1>4, <1>5

-----------------------------------------------------------------------------
(* param_save, param_clear                                                 *)

\* What a step of param_save or param_clear finds and does.
LEMMA BusyBefore ==
  ASSUME Inv, NEW s \in Shells, Busy(s)
  PROVE  /\ s \in Tasks /\ task[s].i \in Params /\ task[s].pc # "off"
         /\ ~tainted => /\ ~err /\ Alone(s) /\ Phase(s)
                        /\ flash.magic = PARAM_MAGIC => Complete
  BY Constants DEF Inv, Sound, TypeOK, Busy, Saving, Clearing

\* The words of the image, after one has been programmed.
LEMMA Written1 ==
  ASSUME TypeOK, NEW p \in Params, NEW w
  PROVE  /\ [flash EXCEPT !.id[p] = w].magic = flash.magic
         /\ [flash EXCEPT !.id[p] = w].size = flash.size
         /\ [flash EXCEPT !.id[p] = w].val = flash.val
         /\ \A q \in Params : [flash EXCEPT !.id[p] = w].id[q] = IF q = p THEN w ELSE flash.id[q]
         /\ [flash EXCEPT !.val[p] = w].magic = flash.magic
         /\ [flash EXCEPT !.val[p] = w].size = flash.size
         /\ [flash EXCEPT !.val[p] = w].id = flash.id
         /\ \A q \in Params : [flash EXCEPT !.val[p] = w].val[q] = IF q = p THEN w ELSE flash.val[q]
<1>1. flash \in Image /\ flash.id \in [Params -> Word] /\ flash.val \in [Params -> Word]
  BY DEF TypeOK, Image
<1> QED
  BY <1>1 DEF Image

LEMMA Written2 ==
  ASSUME TypeOK, NEW w
  PROVE  /\ [flash EXCEPT !.size = w].magic = flash.magic
         /\ [flash EXCEPT !.size = w].size = w
         /\ [flash EXCEPT !.size = w].id = flash.id
         /\ [flash EXCEPT !.size = w].val = flash.val
         /\ [flash EXCEPT !.magic = w].magic = w
         /\ [flash EXCEPT !.magic = w].size = flash.size
         /\ [flash EXCEPT !.magic = w].id = flash.id
         /\ [flash EXCEPT !.magic = w].val = flash.val
  BY DEF TypeOK, Image

\* An image without its magic word vouches for nothing.
Promise(s) == /\ ~err' /\ Alone(s)
              /\ Busy(s)' => Phase(s)'
              /\ (flash.magic = PARAM_MAGIC)' => Complete'

LEMMA EraseStep ==
  ASSUME Inv, NEW s \in Shells, SaveErase(s), ~tainted'
  PROVE  Promise(s)
<1>1. /\ s \in Tasks /\ task[s].i = 1
      /\ task'[s].pc = "id" /\ task'[s].i = 1
  BY Constants, Moved DEF Inv, FirstEntry, SaveErase, At
<1>2. ~err /\ ~locked /\ Alone(s)
  <2>1. CASE tainted
    BY <2>1 DEF SaveErase
  <2>2. CASE ~tainted
    BY <2>2, <1>1 DEF Inv, Sound, Busy, Saving, Phase, Unlocked, SaveErase, At
  <2> QED
    BY <2>1, <2>2
<1>3. flash' = EmptyImage /\ ~err' /\ ~locked'
  BY <1>2 DEF SaveErase, FLASH_EraseSector
<1>4. /\ flash'.magic = Erased /\ flash'.size = Erased
      /\ \A p \in Params : flash'.id[p] = Erased /\ flash'.val[p] = Erased
  BY <1>3 DEF EmptyImage
<1>5. Upto(1)' /\ Blank(1)'
  BY <1>4, Constants DEF Upto, Blank, Params
<1> QED
  BY <1>1, <1>2, <1>3, <1>4, <1>5, Words DEF Promise, Phase, Unlocked

\* What a step finds that programs a word.
LEMMA ProgramBefore ==
  ASSUME Inv, NEW s \in Shells, ~tainted, task[s].pc \in Programming
  PROVE  /\ ~err /\ ~locked /\ Alone(s) /\ Phase(s)
         /\ s \in Tasks /\ task[s].i \in Params /\ val[task[s].i] \in Values
<1>1. Busy(s)
  BY DEF Busy, Programming, Saving, Clearing
<1>2. task[s].i \in Params /\ Phase(s) /\ ~err /\ Alone(s) /\ s \in Tasks
  BY <1>1, BusyBefore
<1>3. ~locked
  BY <1>2 DEF Phase, Unlocked, Programming
<1> QED
  BY <1>2, <1>3 DEF Inv, TypeOK

LEMMA IdStep ==
  ASSUME Inv, NEW s \in Shells, SaveId(s), ~tainted'
  PROVE  Promise(s)
<1> DEFINE i == task[s].i
<1>1. /\ ~err /\ ~locked /\ Alone(s) /\ s \in Tasks /\ i \in Params /\ TypeOK
      /\ Upto(i) /\ Blank(i)
  BY ProgramBefore DEF SaveId, ghosts, At, Programming, Phase, Inv
<1>2. task'[s].pc = "value" /\ task'[s].i = i
  BY <1>1, Moved DEF SaveId
<1>3. flash' = [flash EXCEPT !.id[i] = i]
  BY <1>1 DEF SaveId, FLASH_ProgramWord, At, Target, Programmed, Blank
<1>4. ~err' /\ ~locked' /\ val' = val /\ stable' = stable
  BY <1>1 DEF SaveId, FLASH_ProgramWord, ghosts
<1> HIDE DEF i
<1>5. /\ flash'.magic = flash.magic /\ flash'.size = flash.size /\ flash'.val = flash.val
      /\ \A q \in Params : flash'.id[q] = IF q = i THEN i ELSE flash.id[q]
  BY <1>1, <1>3, Written1
<1>6. Upto(i)'
  BY <1>1, <1>2, <1>4, <1>5 DEF Upto, Written, Blank, Params, i
<1>7. flash'.id[i] = i /\ flash'.val[i] = Erased
  BY <1>1, <1>5 DEF Blank
<1>8. flash'.magic # PARAM_MAGIC
  BY <1>1, <1>5, Words DEF Upto
<1> QED
  BY <1>1, <1>2, <1>4, <1>6, <1>7, <1>8 DEF Promise, Phase, Unlocked, i

LEMMA ValueStep ==
  ASSUME Inv, NEW s \in Shells, SaveValue(s), ~tainted'
  PROVE  Promise(s)
<1>0. PICK i \in Params : i = task[s].i
  BY ProgramBefore DEF SaveValue, ghosts, At, Programming
<1>1. /\ ~err /\ ~locked /\ Alone(s) /\ s \in Tasks /\ i \in Params /\ TypeOK
      /\ val[i] \in Values /\ Upto(i) /\ flash.id[i] = i /\ flash.val[i] = Erased
  BY <1>0, ProgramBefore DEF SaveValue, ghosts, At, Programming, Phase, Inv
<1>2. flash' = [flash EXCEPT !.val[i] = val[i]]
  BY <1>0, <1>1 DEF SaveValue, FLASH_ProgramWord, At, Target, Programmed
<1>3. ~err' /\ ~locked' /\ val' = val /\ stable' = stable
  BY <1>1 DEF SaveValue, FLASH_ProgramWord, ghosts
<1>4. IF i < NumParams THEN task'[s].pc = "id" /\ task'[s].i = i + 1
                       ELSE task'[s].pc = "size"
  <2>1. CASE i < NumParams
    BY <1>0, <1>1, <2>1 DEF SaveValue, TypeOK
  <2>2. CASE ~(i < NumParams)
    BY <1>0, <1>1, <2>2, Moved DEF SaveValue, GoTo
  <2> QED
    BY <2>1, <2>2
<1>5. /\ flash'.magic = flash.magic /\ flash'.size = flash.size /\ flash'.id = flash.id
      /\ \A q \in Params : flash'.val[q] = IF q = i THEN val[i] ELSE flash.val[q]
  BY <1>1, <1>2, Written1
<1>6. /\ flash'.magic = Erased /\ flash'.size = Erased /\ flash'.magic # PARAM_MAGIC
  BY <1>1, <1>5, Words DEF Upto
<1>7. Written(i)'
  <2>1. flash'.id[i] = i /\ flash'.val[i] = val[i] /\ val[i] \in Values
    BY <1>1, <1>5
  <2> QED
    BY <1>3, <2>1 DEF Written
<1>8. \A p \in Params : p < i => Written(p)'
  BY <1>1, <1>3, <1>5 DEF Upto, Written, Params
<1>9. \A p \in Params : p > i => Blank(p)'
  BY <1>1, <1>5 DEF Upto, Blank, Params
<1>10. CASE i < NumParams
  <2>1. i \in Int /\ i + 1 \in Params /\ i + 1 > i
    BY <1>1, <1>10, Constants DEF Params
  <2>2. \A p \in Params : p < i + 1 <=> p < i \/ p = i
    BY <2>1 DEF Params
  <2>3. \A p \in Params : p > i + 1 => p > i
    BY <2>1 DEF Params
  <2>4. \A p \in Params : p < i + 1 => Written(p)'
    BY <1>7, <1>8, <2>2
  <2>5. \A p \in Params : p > i + 1 => Blank(p)'
    BY <1>9, <2>3
  <2>6. Blank(i + 1)'
    BY <1>9, <2>1
  <2> QED
    BY <1>1, <1>3, <1>4, <1>6, <1>10, <2>4, <2>5, <2>6 DEF Promise, Phase, Unlocked, Upto
<1>11. CASE ~(i < NumParams)
  <2>1. \A p \in Params : p < i \/ p = i
    BY <1>1, <1>11, Constants DEF Params
  <2>2. \A p \in Params : Written(p)'
    BY <1>7, <1>8, <2>1
  <2> QED
    BY <1>1, <1>3, <1>4, <1>6, <1>11, <2>2 DEF Promise, Phase, Unlocked
<1> QED
  BY <1>10, <1>11

LEMMA SizeStep ==
  ASSUME Inv, NEW s \in Shells, SaveSize(s), ~tainted'
  PROVE  Promise(s)
<1>1. /\ ~err /\ ~locked /\ Alone(s) /\ s \in Tasks /\ TypeOK
      /\ flash.magic = Erased /\ flash.size = Erased /\ \A p \in Params : Written(p)
  BY ProgramBefore DEF SaveSize, ghosts, At, Programming, Phase, Inv
<1>2. task'[s].pc = "magic"
  BY <1>1, Moved DEF SaveSize
<1>3. flash' = [flash EXCEPT !.size = NumParams]
  BY <1>1 DEF SaveSize, FLASH_ProgramWord, At, Target, Programmed
<1>4. ~err' /\ ~locked' /\ val' = val /\ stable' = stable
  BY <1>1 DEF SaveSize, FLASH_ProgramWord, ghosts
<1>5. /\ flash'.magic = Erased /\ flash'.size = NumParams
      /\ flash'.id = flash.id /\ flash'.val = flash.val
  BY <1>1, <1>3, Written2
<1>6. \A p \in Params : Written(p)'
  BY <1>1, <1>4, <1>5 DEF Written
<1> QED
  BY <1>1, <1>2, <1>4, <1>5, <1>6, Words DEF Promise, Phase, Unlocked

LEMMA MagicStep ==
  ASSUME Inv, NEW s \in Shells, SaveMagic(s), ~tainted'
  PROVE  Promise(s)
<1>1. /\ ~err /\ ~locked /\ Alone(s) /\ s \in Tasks /\ TypeOK
      /\ flash.magic = Erased /\ flash.size = NumParams /\ \A p \in Params : Written(p)
  BY ProgramBefore DEF SaveMagic, ghosts, At, Programming, Phase, Inv
<1>2. task'[s].pc = "lock"
  BY <1>1, Moved DEF SaveMagic
<1>3. flash' = [flash EXCEPT !.magic = PARAM_MAGIC]
  BY <1>1 DEF SaveMagic, FLASH_ProgramWord, At, Target, Programmed
<1>4. ~err' /\ ~locked' /\ val' = val /\ stable' = stable
  BY <1>1 DEF SaveMagic, FLASH_ProgramWord, ghosts
<1>5. /\ flash'.magic = PARAM_MAGIC /\ flash'.size = NumParams
      /\ flash'.id = flash.id /\ flash'.val = flash.val
  BY <1>1, <1>3, Written2
<1>6. \A p \in Params : Written(p)'
  BY <1>1, <1>4, <1>5 DEF Written
<1>7. Complete'
  BY <1>5, <1>6 DEF Complete, Written
<1> QED
  BY <1>1, <1>2, <1>4, <1>5, <1>6, <1>7 DEF Promise, Phase, Unlocked

\* Clearing the magic word takes the promise back.
LEMMA ClearStep ==
  ASSUME Inv, NEW s \in Shells, ClearMagic(s), ~tainted'
  PROVE  Promise(s)
<1>1. /\ ~err /\ ~locked /\ Alone(s) /\ s \in Tasks /\ TypeOK
      /\ flash.magic = PARAM_MAGIC => Complete
  BY ProgramBefore DEF ClearMagic, ghosts, At, Programming, Inv, Sound
<1>2. task'[s].pc = "clear_lock"
  BY <1>1, Moved DEF ClearMagic
<1>3. flash' = [flash EXCEPT !.magic = Programmed(flash.magic, Zero)]
  BY <1>1 DEF ClearMagic, FLASH_ProgramWord, At, Target
<1>4. flash'.magic # PARAM_MAGIC /\ ~err' /\ ~locked'
  <2>1. Programmed(flash.magic, Zero) # PARAM_MAGIC
    BY Words DEF Programmed
  <2> QED
    BY <1>1, <1>3, <2>1, Written2 DEF ClearMagic, FLASH_ProgramWord
<1> QED
  BY <1>1, <1>2, <1>4 DEF Promise, Phase, Unlocked

\* The controller is unlocked before the first operation and locked after the
\* last one.
LEMMA LockStep ==
  ASSUME Inv, NEW s \in Shells, ~tainted',
         SaveUnlock(s) \/ SaveLock(s) \/ ClearUnlock(s) \/ ClearLock(s)
  PROVE  Promise(s)
<1>1. Busy(s) /\ ~tainted /\ TypeOK
  BY DEF SaveUnlock, SaveLock, ClearUnlock, ClearLock, At, Busy, Saving, Clearing, ghosts, Inv
<1>2. s \in Tasks /\ ~err /\ Alone(s) /\ (flash.magic = PARAM_MAGIC => Complete)
  BY <1>1, BusyBefore
<1>3. flash' = flash /\ err' = err
  BY DEF SaveUnlock, SaveLock, ClearUnlock, ClearLock, FLASH_Unlock, FLASH_Lock
<1>4. Complete => Complete'
  BY <1>3 DEF Complete
<1>5. CASE SaveUnlock(s) \/ ClearUnlock(s)
  <2>1. task'[s].pc \in {"erase", "clear_magic"} /\ ~locked'
    BY <1>1, <1>2, <1>5, Moved DEF SaveUnlock, ClearUnlock, FLASH_Unlock
  <2> QED
    BY <1>2, <1>3, <1>4, <2>1 DEF Promise, Phase
<1>6. CASE SaveLock(s) \/ ClearLock(s)
  <2>1. task'[s].pc = "idle"
    BY <1>1, <1>2, <1>6, Moved DEF SaveLock, ClearLock
  <2> QED
    BY <1>2, <1>3, <1>4, <2>1 DEF Promise, Phase, Unlocked
<1> QED
  BY <1>5, <1>6

LEMMA BusyInv ==
  ASSUME Inv, NEW s \in Shells, param_save(s) \/ param_clear(s)
  PROVE  Inv'
<1>1. s \in Tasks /\ s # init_task /\ init_task \in Tasks /\ TypeOK
  BY Constants DEF Inv
<1>2. TypeOK'
  BY SaveType, ClearType DEF Inv
<1>3. task[s].pc # "off"
  BY DEF param_save, SaveUnlock, SaveErase, SaveId, SaveValue, SaveSize, SaveMagic, SaveLock,
         param_clear, ClearUnlock, ClearMagic, ClearLock, At
<1>4. ~tainted' => Promise(s)
  BY EraseStep, IdStep, ValueStep, SizeStep, MagicStep, ClearStep, LockStep
     DEF param_save, param_clear
<1>5. Others(s) /\ (task'[s].pc \in {"unlock", "erase"} => task'[s].i = 1)
  <2>1. CASE SaveValue(s)
    <3>1. CASE task[s].i < NumParams
      <4>1. task' = [task EXCEPT ![s] = [pc |-> "id", i |-> task[s].i + 1]]
        BY <2>1, <3>1 DEF SaveValue
      <4>2. Others(s) /\ task'[s].pc = "id"
        BY <1>1, <4>1 DEF TypeOK, Others
      <4> QED
        BY <4>2
    <3>2. CASE ~(task[s].i < NumParams)
      <4>1. GoTo(s, "size")
        BY <2>1, <3>2 DEF SaveValue, GoTo
      <4> QED
        BY <1>1, <4>1, Moved
    <3> QED
      BY <3>1, <3>2
  <2>2. CASE SaveUnlock(s)
    BY <1>1, <2>2, Moved DEF SaveUnlock, At, Inv, FirstEntry
  <2> QED
    BY <1>1, <2>1, <2>2, Moved
       DEF param_save, SaveErase, SaveId, SaveSize, SaveMagic, SaveLock,
           param_clear, ClearUnlock, ClearMagic, ClearLock
<1>6. Sound' /\ FirstEntry'
  BY <1>1, <1>4, <1>5, BusyStep DEF Promise
<1> QED
  BY <1>1, <1>2, <1>3, <1>5, <1>6, ShellBoot DEF Inv, Others

-----------------------------------------------------------------------------
(* Power cuts                                                              *)

\* What a cut leaves of the image, when it does not come during an erase.
LEMMA CutImage ==
  ASSUME Inv, NEW s \in Shells, PowerCutInProgram(s), ~tainted'
  PROVE  (flash.magic = PARAM_MAGIC)' => Complete'
<1>1. /\ ~err /\ ~locked /\ ~tainted /\ Phase(s) /\ TypeOK /\ s \in Tasks
      /\ flash.magic = PARAM_MAGIC => Complete
      /\ task[s].i \in Params /\ flash' \in CutProgram(s)
  BY ProgramBefore DEF PowerCutInProgram, Programming, Inv, Sound
<1>2. PICK i \in Params : i = task[s].i
  BY <1>1
<1>3. CASE task[s].pc = "id"
  <2>1. flash.magic # PARAM_MAGIC
    BY <1>1, <1>3, Words DEF Phase, Upto
  <2>2. PICK w : flash' = flash \/ flash' = [flash EXCEPT !.id[i] = w]
    BY <1>1, <1>2, <1>3 DEF CutProgram, Target
  <2>3. [flash EXCEPT !.id[i] = w].magic = flash.magic
    BY <1>1, Written1
  <2> QED
    BY <2>1, <2>2, <2>3
<1>4. CASE task[s].pc = "value"
  <2>1. flash.magic # PARAM_MAGIC
    BY <1>1, <1>4, Words DEF Phase, Upto
  <2>2. PICK w : flash' = flash \/ flash' = [flash EXCEPT !.val[i] = w]
    BY <1>1, <1>2, <1>4 DEF CutProgram, Target
  <2>3. [flash EXCEPT !.val[i] = w].magic = flash.magic
    BY <1>1, Written1
  <2> QED
    BY <2>1, <2>2, <2>3
<1>5. CASE task[s].pc = "size"
  <2>1. flash.magic # PARAM_MAGIC
    BY <1>1, <1>5, Words DEF Phase
  <2>2. PICK w : flash' = flash \/ flash' = [flash EXCEPT !.size = w]
    BY <1>1, <1>5 DEF CutProgram, Target
  <2>3. [flash EXCEPT !.size = w].magic = flash.magic
    BY <1>1, Written2
  <2> QED
    BY <2>1, <2>2, <2>3
<1>6. CASE task[s].pc = "magic"
  <2>1. PICK w : flash' = flash \/ flash' = [flash EXCEPT !.magic = w]
    BY <1>1, <1>6 DEF CutProgram, Target
  <2>2. flash'.size = flash.size /\ flash'.id = flash.id /\ flash'.val = flash.val
    <3>1. CASE flash' = flash
      BY <3>1
    <3>2. CASE flash' = [flash EXCEPT !.magic = w]
      <4>1. /\ [flash EXCEPT !.magic = w].size = flash.size
            /\ [flash EXCEPT !.magic = w].id = flash.id
            /\ [flash EXCEPT !.magic = w].val = flash.val
        BY <1>1, Written2
      <4> QED
        BY <3>2, <4>1
    <3> QED
      BY <2>1, <3>1, <3>2
  <2>3. flash.size = NumParams /\ \A p \in Params : Written(p)
    BY <1>1, <1>6 DEF Phase
  <2> QED
    BY <2>2, <2>3 DEF Complete, Written
<1>7. CASE task[s].pc = "clear_magic"
  <2>1. flash' \in {flash, [flash EXCEPT !.magic = Programmed(flash.magic, Zero)],
                    [flash EXCEPT !.magic = Mixed]}
    BY <1>1, <1>7 DEF CutProgram, Target
  <2>2. Programmed(flash.magic, Zero) # PARAM_MAGIC /\ Mixed # PARAM_MAGIC
    BY Words DEF Programmed
  <2>3. flash' = flash \/ flash'.magic # PARAM_MAGIC
    BY <1>1, <2>1, <2>2, Written2
  <2> QED
    BY <1>1, <2>3 DEF Complete
<1> QED
  BY <1>3, <1>4, <1>5, <1>6, <1>7 DEF PowerCutInProgram

LEMMA CutInv ==
  ASSUME Inv, PowerCut \/ WatchdogReset
              \/ \E s \in Shells : PowerCutInErase(s) \/ PowerCutInProgram(s)
  PROVE  Inv'
<1>1. TypeOK' /\ Reboot
  BY CutCases, RebootType DEF Inv
<1>2. \A t \in Tasks : task'[t].pc = (IF t = init_task THEN "load" ELSE "off")
  BY <1>1 DEF Reboot, Booting
<1>3. ~tainted' => ((flash.magic = PARAM_MAGIC)' => Complete')
  <2>1. CASE PowerCut \/ WatchdogReset
    BY <2>1 DEF PowerCut, WatchdogReset, Inv, Sound, Complete
  <2>2. CASE \E s \in Shells : PowerCutInErase(s)
    BY <2>2 DEF PowerCutInErase
  <2>3. CASE \E s \in Shells : PowerCutInProgram(s)
    BY <2>3, CutImage
  <2> QED
    BY <2>1, <2>2, <2>3
<1>4. \A t \in Tasks : ~Busy(t)'
  BY <1>2 DEF Busy, Saving, Clearing
<1>5. Sound'
  BY <1>1, <1>3, <1>4 DEF Sound, Reboot
<1>6. FirstEntry'
  BY <1>2 DEF FirstEntry
<1>7. Boot'
  BY <1>1, <1>2, Constants DEF Boot, Reboot, Loading
<1> QED
  BY <1>1, <1>5, <1>6, <1>7 DEF Inv

LEMMA InvNext == Inv /\ [Next]_vars => Inv'
<1> SUFFICES ASSUME Inv, [Next]_vars PROVE Inv'
  OBVIOUS
<1>1. CASE UNCHANGED vars
  <2>1. TypeOK'
    BY <1>1, TypeNext DEF Inv
  <2>2. UNCHANGED flashvars /\ tainted' = tainted /\ UNCHANGED <<val, stable>> /\ task' = task
    BY <1>1 DEF vars, ghosts
  <2>3. Sound' /\ FirstEntry'
    BY <2>2, QuietStep
  <2>4. Boot'
    BY <2>2 DEF Inv, Boot, flashvars
  <2> QED
    BY <2>1, <2>3, <2>4 DEF Inv
<1>2. ASSUME NEW t \in Tasks, param_load(t) PROVE Inv'
  BY <1>2, BootLoad, ShellLoad DEF Tasks
<1>3. CASE Next
  BY <1>2, <1>3, CommandInv, BusyInv, CutInv DEF Next
<1> QED
  BY <1>1, <1>3

LEMMA Invariance == Spec => []Inv
  BY InvInit, InvNext, PTL DEF Spec

-----------------------------------------------------------------------------
(* The properties                                                          *)

\* The magic word vouches for the image: with power cuts in the middle of a
\* save or a clear, and whatever the shells do meanwhile, an image that has
\* its magic word has every entry, unless an erase was cut short or two shells
\* were in param_save or param_clear at once.
THEOREM WholeImageTheorem == Spec => []WholeImage
<1>1. Inv => WholeImage
  BY DEF Inv, Sound, WholeImage
<1> QED
  BY <1>1, Invariance, PTL

\* A save that returns has saved: with that premise, and if no parameter was
\* changed while it ran, the image has its magic word and holds the table.
THEOREM SavedTheorem == Spec => SavedIsStored
<1>1. ASSUME Inv, NEW s \in Shells, SaveLock(s), ~tainted, stable
      PROVE  flash.magic = PARAM_MAGIC /\ flash.val = val
  <2>1. Phase(s)
    BY <1>1, BusyBefore DEF SaveLock, At, Busy, Saving
  <2>2. flash.magic = PARAM_MAGIC /\ \A p \in Params : Written(p)
    BY <1>1, <2>1 DEF Phase, SaveLock, At
  <2>3. flash.val \in [Params -> Word] /\ val \in [Params -> Values]
    BY <1>1 DEF Inv, TypeOK, Image
  <2> QED
    BY <1>1, <2>2, <2>3 DEF Written
<1>2. Inv /\ [Next]_vars =>
        [\A s \in Shells : SaveLock(s) /\ ~tainted /\ stable
            => flash.magic = PARAM_MAGIC /\ flash.val = val]_vars
  BY <1>1
<1> QED
  BY <1>2, Invariance, PTL DEF Spec, SavedIsStored

\* What start-up loads is the whole image if the magic word vouches for one and
\* the defaults if not: param_load that returns to the task that boots leaves
\* no mixture of the two in the table, unless the image was damaged.
THEOREM LoadTheorem == Spec => LoadRestores
<1>1. ASSUME Inv, param_load(init_task), task'[init_task].pc = "gone", ~tainted
      PROVE  val' = IF flash.magic = PARAM_MAGIC THEN flash.val
                    ELSE [p \in Params |-> Default]
  <2>1. TypeOK /\ Boot /\ init_task \in Tasks
    BY <1>1, Constants DEF Inv
  <2>2. CASE LoadMagic(init_task)
    <3>1. flash.magic # PARAM_MAGIC
      BY <1>1, <2>1, <2>2, Moved DEF LoadMagic
    <3> QED
      BY <2>1, <2>2, <3>1 DEF LoadMagic, At, Boot
  <2>3. CASE LoadSize(init_task)
    <3>1. flash.size = NumParams
      BY <1>1, <2>1, <2>3, BootImage DEF LoadSize, At, Boot, Complete
    <3>2. GoTo(init_task, "fault") \/ Begin(init_task, "load_entry")
      BY <2>3, <3>1, Words DEF LoadSize
    <3> QED
      BY <1>1, <2>1, <3>2, Moved
  <2>4. CASE LoadEntry(init_task)
    <3>1. ~(task[init_task].i < NumParams)
      BY <1>1, <2>1, <2>4 DEF LoadEntry, NextEntry, TypeOK, At
    <3>2. task[init_task].i \in Params
      BY <1>1, BootImage
    <3>3. \A p \in Params : p < task[init_task].i + 1
      BY <3>1, <3>2, Constants DEF Params
    <3>4. \A p \in Params : val'[p] = flash.val[p]
      BY <1>1, <2>4, <3>3, BootEntry
    <3>5. flash.val \in [Params -> Word] /\ val' \in [Params -> Values]
      BY <1>1, <2>1, LoadType DEF TypeOK, Image
    <3>6. flash.magic = PARAM_MAGIC
      BY <2>1, <2>4 DEF LoadEntry, At, Boot
    <3> QED
      BY <3>4, <3>5, <3>6
  <2> QED
    BY <1>1, <2>2, <2>3, <2>4 DEF param_load
<1>2. Inv /\ [Next]_vars =>
        [param_load(init_task) /\ task'[init_task].pc = "gone" /\ ~tainted
            => val' = IF flash.magic = PARAM_MAGIC THEN flash.val
                      ELSE [p \in Params |-> Default]]_vars
  BY <1>1
<1> QED
  BY <1>2, Invariance, PTL DEF Spec, LoadRestores
=============================================================================

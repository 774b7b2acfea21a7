------------------------------- MODULE Parameter -------------------------------
(***************************************************************************)
(* The parameters (parameter.c): a table in RAM that shells change, and    *)
(* its image in one flash sector, with power cuts at any time.  Of the     *)
(* table only the parameters that are saved are kept, numbered in the      *)
(* order of the table.  Two shells of equal priority share the processor   *)
(* by time slices and call the commands with no lock.                      *)
(***************************************************************************)
EXTENDS Integers, FiniteSets

CONSTANTS
    NumParams,      \* saved parameters
    Values,         \* values in the range of a parameter
    Default,        \* the default among them
    Shells,         \* usb_shell, uart_shell
    init_task,      \* the task that loads the parameters before it starts them
    MaxCuts         \* bound on power cuts

Params == 1 .. NumParams
Tasks  == Shells \cup {init_task}

ASSUME ParameterAssumption ==
    /\ NumParams \in Nat \ {0} /\ MaxCuts \in Nat
    /\ Values \subseteq Nat /\ Default \in Values
    /\ init_task \notin Shells

(* Words of the flash: what has been written, or                           *)
Erased == -1
Mixed  == -2    \* what an operation that was cut short leaves behind

\* The magic word: PARAM_MAGIC, or 0 after param_clear.
PARAM_MAGIC == 1
Zero == 0

Word == Values \cup Params \cup {Erased, Mixed, PARAM_MAGIC, Zero}

Image == [magic : Word, size : Word, id : [Params -> Word], val : [Params -> Word]]

VARIABLES
    val,        \* the table in RAM
    flash,      \* the image: magic word, size (in entries), entries
    locked,     \* FLASH->CR.LOCK
    err,        \* FLASH->SR.PGSERR, which nobody clears
    task,       \* per task: position, and entry of the image
    cuts,       \* power cuts so far
    tainted,    \* ghost: the image may be damaged, see below
    stable      \* ghost: no parameter changed since the current save began

flashvars == <<flash, locked, err>>
ghosts    == <<cuts, tainted, stable>>
vars      == <<val, flashvars, task, ghosts>>

\* Positions inside param_save and param_clear.
Saving   == {"unlock", "erase", "id", "value", "size", "magic", "lock"}
Clearing == {"clear_unlock", "clear_magic", "clear_lock"}
Loading  == {"load", "load_size", "load_entry"}

\* The defaults have been set, param_load begins.
Booting == [t \in Tasks |-> [pc |-> IF t = init_task THEN "load" ELSE "off", i |-> 1]]

Init ==
    /\ val = [p \in Params |-> Default]
    /\ flash = [magic |-> Erased, size |-> Erased,
                id |-> [p \in Params |-> Erased], val |-> [p \in Params |-> Erased]]
    /\ locked = TRUE /\ err = FALSE
    /\ task = Booting
    /\ cuts = 0 /\ tainted = FALSE /\ stable = FALSE

\* After a HardFault nothing runs.
Alive == \A t \in Tasks : task[t].pc # "fault"

At(t, pc) == Alive /\ task[t].pc = pc

GoTo(t, pc) == task' = [task EXCEPT ![t].pc = pc]

Begin(t, pc) == task' = [task EXCEPT ![t] = [pc |-> pc, i |-> 1]]

-----------------------------------------------------------------------------
(* The table                                                               *)

\* param_set of a parameter that is not read-only, with a value in its range.
param_set(p, v) ==
    /\ val' = [val EXCEPT ![p] = v]
    /\ stable' = (stable /\ val' = val)

\* The shell's "sp".  param_set_defaults is this for each parameter in turn.
cmd_sp(s) ==
    /\ At(s, "idle")
    /\ \E p \in Params, v \in Values : param_set(p, v)
    /\ UNCHANGED <<flashvars, task, cuts, tainted>>

-----------------------------------------------------------------------------
(* param_load                                                              *)

\* The task goes on: the shells are started, or the prompt is shown.
Return(t) ==
    IF t = init_task
    THEN task' = [u \in Tasks |-> [pc |-> IF u = t THEN "gone" ELSE "idle", i |-> 1]]
    ELSE Begin(t, "idle")

cmd_param_load(s) ==
    /\ At(s, "idle")
    /\ Begin(s, "load")
    /\ UNCHANGED <<val, flashvars, ghosts>>

LoadMagic(t) ==
    /\ At(t, "load")
    /\ IF flash.magic = PARAM_MAGIC THEN GoTo(t, "load_size") ELSE Return(t)
    /\ UNCHANGED <<val, flashvars, ghosts>>

\* A size that is no number of entries makes the loop run on, out of the
\* memory; a damaged one may be any number.
LoadSize(t) ==
    /\ At(t, "load_size")
    /\ \/ flash.size # NumParams /\ GoTo(t, "fault")
       \/ flash.size = Mixed /\ Return(t)
       \/ flash.size \in {NumParams, Mixed} /\ Begin(t, "load_entry")
    /\ UNCHANGED <<val, flashvars, ghosts>>

\* A mutant: the last entry is left out.
NextEntryButLast(t) ==
    IF task[t].i < NumParams - 1 THEN task' = [task EXCEPT ![t].i = @ + 1] ELSE Return(t)

NextEntry(t) ==
    IF task[t].i < NumParams THEN task' = [task EXCEPT ![t].i = @ + 1] ELSE Return(t)

\* An id that is unknown, and a value out of range, are reported and skipped.
\* A damaged one may be anything.
LoadEntry(t) ==
    /\ At(t, "load_entry")
    /\ LET id == flash.id[task[t].i]
           v  == flash.val[task[t].i]
       IN  \/ /\ id \in Params \cup {Mixed}
              /\ \E p \in IF id = Mixed THEN Params ELSE {id},
                    w \in IF v \in Values THEN {v} ELSE Values : param_set(p, w)
           \/ /\ id \notin Params \/ v \notin Values
              /\ UNCHANGED <<val, stable>>
    /\ NextEntry(t)
    /\ UNCHANGED <<flashvars, cuts, tainted>>

-----------------------------------------------------------------------------
(* The flash controller                                                    *)

\* Bits can only be cleared.
Programmed(old, new) ==
    IF old \in {Erased, new} THEN new
    ELSE IF Zero \in {old, new} THEN Zero ELSE Mixed

EmptyImage ==
    [magic |-> Erased, size |-> Erased,
     id |-> [p \in Params |-> Erased], val |-> [p \in Params |-> Erased]]

\* FLASH_ProgramWord of the word that task t has come to.
Target(t) ==
    LET i == task[t].i
    IN  CASE task[t].pc = "id"    -> [flash EXCEPT !.id[i] = Programmed(@, i)]
          [] task[t].pc = "value" -> [flash EXCEPT !.val[i] = Programmed(@, val[i])]
          [] task[t].pc = "size"  -> [flash EXCEPT !.size = Programmed(@, NumParams)]
          [] task[t].pc = "magic" -> [flash EXCEPT !.magic = Programmed(@, PARAM_MAGIC)]
          [] task[t].pc = "clear_magic" -> [flash EXCEPT !.magic = Programmed(@, Zero)]

\* An error of an earlier operation makes every later one return at once; a
\* write while the controller is locked is such an error.
FLASH_ProgramWord(t) ==
    /\ flash' = IF err \/ locked THEN flash ELSE Target(t)
    /\ err' = (err \/ locked)
    /\ UNCHANGED locked

\* While it is locked, the bits that start an erase cannot be set.
FLASH_EraseSector ==
    /\ flash' = IF err \/ locked THEN flash ELSE EmptyImage
    /\ UNCHANGED <<locked, err>>

FLASH_Unlock == locked' = FALSE /\ UNCHANGED <<flash, err>>
FLASH_Lock   == locked' = TRUE  /\ UNCHANGED <<flash, err>>

-----------------------------------------------------------------------------
(* param_save, param_clear                                                 *)

Busy(t) == task[t].pc \in Saving \cup Clearing

\* Nobody but t is in param_save or param_clear.
Alone(t) == \A u \in Tasks \ {t} : ~Busy(u)

cmd_param_save(s) ==
    /\ At(s, "idle")
    /\ Begin(s, "unlock")
    /\ stable' = TRUE
    /\ tainted' = (tainted \/ ~Alone(s))
    /\ UNCHANGED <<val, flashvars, cuts>>

\* A mutant: the controller stays locked.
SaveUnlockForgotten(s) ==
    /\ At(s, "unlock") /\ GoTo(s, "erase")
    /\ UNCHANGED <<val, flashvars, ghosts>>

SaveUnlock(s) ==
    /\ At(s, "unlock") /\ GoTo(s, "erase")
    /\ FLASH_Unlock
    /\ UNCHANGED <<val, ghosts>>

\* A complete erase by a task that is alone makes the image sound again.
SaveErase(s) ==
    /\ At(s, "erase") /\ GoTo(s, "id")
    /\ FLASH_EraseSector
    /\ tainted' = (tainted /\ (err \/ locked \/ ~Alone(s)))
    /\ UNCHANGED <<val, cuts, stable>>

SaveId(s) ==
    /\ At(s, "id") /\ GoTo(s, "value")
    /\ FLASH_ProgramWord(s)
    /\ UNCHANGED <<val, ghosts>>

\* A mutant: the loop ends one parameter early.
SaveValueButLast(s) ==
    /\ At(s, "value")
    /\ task' = IF task[s].i < NumParams - 1
               THEN [task EXCEPT ![s] = [pc |-> "id", i |-> @.i + 1]]
               ELSE [task EXCEPT ![s].pc = "size"]
    /\ FLASH_ProgramWord(s)
    /\ UNCHANGED <<val, ghosts>>

\* The value is read from the table when its turn comes.
SaveValue(s) ==
    /\ At(s, "value")
    /\ task' = IF task[s].i < NumParams
               THEN [task EXCEPT ![s] = [pc |-> "id", i |-> @.i + 1]]
               ELSE [task EXCEPT ![s].pc = "size"]
    /\ FLASH_ProgramWord(s)
    /\ UNCHANGED <<val, ghosts>>

SaveSize(s) ==
    /\ At(s, "size") /\ GoTo(s, "magic")
    /\ FLASH_ProgramWord(s)
    /\ UNCHANGED <<val, ghosts>>

SaveMagic(s) ==
    /\ At(s, "magic") /\ GoTo(s, "lock")
    /\ FLASH_ProgramWord(s)
    /\ UNCHANGED <<val, ghosts>>

SaveLock(s) ==
    /\ At(s, "lock") /\ Begin(s, "idle")
    /\ FLASH_Lock
    /\ UNCHANGED <<val, ghosts>>

cmd_param_clear(s) ==
    /\ At(s, "idle")
    /\ Begin(s, "clear_unlock")
    /\ tainted' = (tainted \/ ~Alone(s))
    /\ UNCHANGED <<val, flashvars, cuts, stable>>

ClearUnlock(s) ==
    /\ At(s, "clear_unlock") /\ GoTo(s, "clear_magic")
    /\ FLASH_Unlock
    /\ UNCHANGED <<val, ghosts>>

ClearMagic(s) ==
    /\ At(s, "clear_magic") /\ GoTo(s, "clear_lock")
    /\ FLASH_ProgramWord(s)
    /\ UNCHANGED <<val, ghosts>>

ClearLock(s) ==
    /\ At(s, "clear_lock") /\ Begin(s, "idle")
    /\ FLASH_Lock
    /\ UNCHANGED <<val, ghosts>>

param_load(t)  == LoadMagic(t) \/ LoadSize(t) \/ LoadEntry(t)
param_save(s)  == \/ SaveUnlock(s) \/ SaveErase(s) \/ SaveId(s) \/ SaveValue(s)
                  \/ SaveSize(s) \/ SaveMagic(s) \/ SaveLock(s)
param_clear(s) == ClearUnlock(s) \/ ClearMagic(s) \/ ClearLock(s)

-----------------------------------------------------------------------------
(* Power cuts and resets                                                   *)

\* What an operation under way leaves behind.
CutWord(old, new) == {old, new, Mixed}

CutWords(words) ==
    {w \in [Params -> {words[p] : p \in Params} \cup {Erased, Mixed}] :
        \A p \in Params : w[p] \in CutWord(words[p], Erased)}

CutErase == [magic : CutWord(flash.magic, Erased), size : CutWord(flash.size, Erased),
             id : CutWords(flash.id), val : CutWords(flash.val)]

CutProgram(t) ==
    LET i == task[t].i
    IN  {flash, Target(t),
         CASE task[t].pc = "id"    -> [flash EXCEPT !.id[i] = Mixed]
           [] task[t].pc = "value" -> [flash EXCEPT !.val[i] = Mixed]
           [] task[t].pc = "size"  -> [flash EXCEPT !.size = Mixed]
           [] task[t].pc \in {"magic", "clear_magic"} -> [flash EXCEPT !.magic = Mixed]}

\* Start of the program: defaults, then param_load.
Reboot ==
    /\ val' = [p \in Params |-> Default]
    /\ locked' = TRUE /\ err' = FALSE
    /\ task' = Booting
    /\ stable' = FALSE

\* A HardFault under the watchdog, which is not started before the shells are.
WatchdogReset ==
    /\ ~Alive /\ task[init_task].pc = "gone"
    /\ Reboot
    /\ UNCHANGED <<flash, cuts, tainted>>

Cut == cuts < MaxCuts /\ cuts' = cuts + 1 /\ Reboot

PowerCut ==
    /\ Cut
    /\ UNCHANGED <<flash, tainted>>

PowerCutInErase(s) ==
    /\ At(s, "erase") /\ ~err /\ ~locked
    /\ flash' \in CutErase
    /\ tainted' = TRUE
    /\ Cut

PowerCutInProgram(s) ==
    /\ Alive /\ task[s].pc \in {"id", "value", "size", "magic", "clear_magic"}
    /\ ~err /\ ~locked
    /\ flash' \in CutProgram(s)
    /\ Cut
    /\ UNCHANGED tainted

Next ==
    \/ \E t \in Tasks : param_load(t)
    \/ \E s \in Shells : \/ cmd_sp(s) \/ cmd_param_load(s)
                         \/ cmd_param_save(s) \/ param_save(s)
                         \/ cmd_param_clear(s) \/ param_clear(s)
                         \/ PowerCutInErase(s) \/ PowerCutInProgram(s)
    \/ PowerCut \/ WatchdogReset

Spec == Init /\ [][Next]_vars

-----------------------------------------------------------------------------
(* Properties                                                              *)

TypeOK ==
    /\ val \in [Params -> Values]
    /\ flash \in Image
    /\ locked \in BOOLEAN /\ err \in BOOLEAN
    /\ task \in [Tasks -> [pc : {"off", "gone", "idle", "fault"}
                                  \cup Loading \cup Saving \cup Clearing,
                           i : Params]]
    /\ cuts \in 0 .. MaxCuts /\ tainted \in BOOLEAN /\ stable \in BOOLEAN

\* Every entry is in the image.
Complete ==
    /\ flash.size = NumParams
    /\ \A p \in Params : flash.id[p] = p /\ flash.val[p] \in Values

\* The magic word vouches for the image: at every moment, power cuts in the
\* middle of a save or a clear included, an image with its magic word has every
\* entry.  Unless an erase was cut short, or both shells were in param_save or
\* param_clear at once, since the last erase by one of them alone.
WholeImage == ~tainted /\ flash.magic = PARAM_MAGIC => Complete

\* A save that returns has saved: with the same premise, and if nobody changed
\* a parameter meanwhile, the image holds the table.
SavedIsStored ==
    [][\A s \in Shells : SaveLock(s) /\ ~tainted /\ stable
           => flash.magic = PARAM_MAGIC /\ flash.val = val]_vars

\* What start-up loads is the whole image if there is one, and the defaults if
\* there is none, never a mixture.
LoadRestores ==
    [][param_load(init_task) /\ task'[init_task].pc = "gone" /\ ~tainted
           => val' = IF flash.magic = PARAM_MAGIC THEN flash.val
                     ELSE [p \in Params |-> Default]]_vars
=============================================================================

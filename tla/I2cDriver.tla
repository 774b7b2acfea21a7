------------------------------ MODULE I2cDriver ------------------------------
(***************************************************************************)
(* Source/i2c_driver.c: the tasks that share the I2C1 bus, its mutex, the  *)
(* binary semaphore the interrupt handlers give, and the peripheral.       *)
(* Tasks interleave at every call that another task or a handler could     *)
(* observe; scheduling is left open (every interleaving of the FreeRTOS    *)
(* priorities is one of these).                                            *)
(***************************************************************************)
EXTENDS Naturals, FiniteSets

CONSTANTS Tasks,      \* sensor task and shells
          None,       \* no task
          Scenarios   \* records [clients, faults]: who uses the bus, and
                      \* which faults it shows

ASSUME NoneAssumption == None \notin Tasks

Faults == {"nak", "arlo", "berr", "timeout"}

ASSUME ScenariosAssumption ==
    Scenarios \subseteq [clients : SUBSET Tasks, faults : SUBSET Faults]

VARIABLES
    scenario,
    i2c_mutex,     \* None when available, else the task that holds it
    i2c_irq_sem,   \* tokens in the binary semaphore
    bus,           \* the wires: "idle", "xfer" (after START), "stopping"
                   \* (after STOP); BUSY is set unless idle
    enabled,       \* CR1.PE
    irqs,          \* the event, error and DMA interrupts are enabled
    errors,        \* AF, ARLO and BERR of SR1
    job,           \* the task whose transfer s_addr and the DMA are set up for
    pc, op, res,   \* per task: position, operation (and "done" when it has
                   \* succeeded), outcome of the wait
    served         \* history: tasks whose latest transfer the bus completed

sems == <<i2c_mutex, i2c_irq_sem>>
hw   == <<bus, enabled, irqs, errors, job>>
vars == <<scenario, sems, hw, pc, op, res, served>>

(***************************************************************************)
(* After the i2c_init of init_task, before the first client is created.    *)
(***************************************************************************)
Init ==
    /\ scenario \in Scenarios
    /\ i2c_mutex = None /\ i2c_irq_sem = 0
    /\ bus = "idle" /\ enabled = TRUE /\ irqs = FALSE /\ errors = {} /\ job = None
    /\ pc  = [t \in Tasks |-> "idle"]
    /\ op  = [t \in Tasks |-> "none"]
    /\ res = [t \in Tasks |-> TRUE]
    /\ served = {}

Goto(t, label) == pc' = [pc EXCEPT ![t] = label]

\* i2c_stop: STOP condition, interrupts and DMA off, token to the semaphore
\* (giving a full one changes nothing).
i2c_stop ==
    /\ bus' = IF bus = "idle" THEN "idle" ELSE "stopping"
    /\ irqs' = FALSE
    /\ i2c_irq_sem' = 1

-----------------------------------------------------------------------------
(* The peripheral and its interrupt handlers                               *)

(* DMA1_Stream0_IRQHandler at the end of a read, I2C1_EV_IRQHandler at the *)
(* end of a write (BTF) or of an empty transfer (ADDR).                    *)
TransferComplete ==
    /\ bus = "xfer" /\ irqs
    /\ served' = served \cup {job}
    /\ i2c_stop
    /\ UNCHANGED <<scenario, i2c_mutex, enabled, errors, job, pc, op, res>>

(* I2C1_ER_IRQHandler: the slave does not acknowledge, arbitration is lost *)
(* or the bus misbehaves.                                                  *)
I2C1_ER_IRQHandler ==
    /\ bus = "xfer" /\ irqs
    /\ \E e \in scenario.faults \ {"timeout"} : errors' = errors \cup {e}
    /\ i2c_stop
    /\ UNCHANGED <<scenario, i2c_mutex, enabled, job, pc, op, res, served>>

\* The STOP condition has been sent and the bus is free.
BusFree ==
    /\ bus = "stopping"
    /\ bus' = "idle"
    /\ UNCHANGED <<scenario, sems, enabled, irqs, errors, job, pc, op, res, served>>

-----------------------------------------------------------------------------
(* i2c_read, i2c_write and one probe of cmd_i2c_scan                       *)

Call(t) ==
    /\ t \in scenario.clients
    /\ pc[t] = "idle"
    /\ \E o \in {"read_reg", "write"} : op' = [op EXCEPT ![t] = o]
    /\ Goto(t, "lock")
    /\ UNCHANGED <<scenario, sems, hw, res, served>>

\* A mutant: the take gives up at once, and nobody looks.
LockNoWait(t) ==
    /\ pc[t] = "lock"
    /\ i2c_mutex' = IF i2c_mutex = None THEN t ELSE i2c_mutex
    /\ Goto(t, "setup")
    /\ UNCHANGED <<scenario, i2c_irq_sem, hw, op, res, served>>

\* xSemaphoreTake( i2c_mutex, portMAX_DELAY )
Lock(t) ==
    /\ pc[t] = "lock"
    /\ i2c_mutex = None
    /\ i2c_mutex' = t
    /\ Goto(t, "setup")
    /\ UNCHANGED <<scenario, i2c_irq_sem, hw, op, res, served>>

\* xSemaphoreGive( i2c_mutex ) does not ask who holds it.
Unlock(t) ==
    /\ pc[t] = "unlock"
    /\ i2c_mutex' = None
    /\ Goto(t, "idle")
    /\ UNCHANGED <<scenario, i2c_irq_sem, hw, op, res, served>>

-----------------------------------------------------------------------------
(* i2c_transfer                                                            *)

\* DMA stream and slave address.
Setup(t) ==
    /\ pc[t] = "setup"
    /\ job' = t
    /\ served' = served \ {t}
    /\ Goto(t, "start")
    /\ UNCHANGED <<scenario, sems, bus, enabled, irqs, errors, op, res>>

\* Interrupts on and START; a disabled peripheral sends nothing.
Start(t) ==
    /\ pc[t] = "start"
    /\ irqs' = TRUE
    /\ bus' = IF enabled THEN "xfer" ELSE bus
    /\ Goto(t, "wait")
    /\ UNCHANGED <<scenario, sems, enabled, errors, job, op, res, served>>

\* xSemaphoreTake( i2c_irq_sem, timeout ) gets a token ..
Woken(t) ==
    /\ pc[t] = "wait"
    /\ i2c_irq_sem = 1
    /\ i2c_irq_sem' = 0
    /\ res' = [res EXCEPT ![t] = TRUE]
    /\ Goto(t, "busy")
    /\ UNCHANGED <<scenario, i2c_mutex, hw, op, served>>

\* .. or runs into the timeout, twice the time the transfer needs.
WaitTimeout(t) ==
    /\ pc[t] = "wait"
    /\ i2c_irq_sem = 0
    /\ "timeout" \in scenario.faults
    /\ res' = [res EXCEPT ![t] = FALSE]
    /\ Goto(t, "busy")
    /\ UNCHANGED <<scenario, sems, hw, op, served>>

\* The loop on BUSY ends with the STOP condition ..
BusyClear(t) ==
    /\ pc[t] = "busy"
    /\ bus = "idle"
    /\ Goto(t, "status")
    /\ UNCHANGED <<scenario, sems, hw, op, res, served>>

\* .. or runs into the timeout as well.
BusyTimeout(t) ==
    /\ pc[t] = "busy"
    /\ bus # "idle"
    /\ "timeout" \in scenario.faults
    /\ res' = [res EXCEPT ![t] = FALSE]
    /\ Goto(t, "status")
    /\ UNCHANGED <<scenario, sems, hw, op, served>>

\* A mutant: the result of the wait is not looked at.
BusErrorNoTimeout(t) == errors \cap {"arlo", "berr"} # {}

BusError(t) == ~res[t] \/ errors \cap {"arlo", "berr"} # {}

\* "Something went wrong on the bus.. try to reinitialize."
StatusBusError(t) ==
    /\ pc[t] = "status" /\ BusError(t)
    /\ i2c_stop
    /\ Goto(t, "reset")
    /\ UNCHANGED <<scenario, i2c_mutex, enabled, errors, job, op, res, served>>

\* A mutant: the error path returns without giving the mutex back.
StatusNakReturns(t) ==
    /\ pc[t] = "status" /\ ~BusError(t)
    /\ "nak" \in errors
    /\ errors' = {}
    /\ Goto(t, "idle")
    /\ UNCHANGED <<scenario, sems, bus, enabled, irqs, job, op, res, served>>

\* "Slave address not acknowledged"
StatusNak(t) ==
    /\ pc[t] = "status" /\ ~BusError(t)
    /\ "nak" \in errors
    /\ errors' = {}
    /\ Goto(t, "unlock")
    /\ UNCHANGED <<scenario, sems, bus, enabled, irqs, job, op, res, served>>

\* A mutant: every transfer takes the mutex for itself.
StatusOkReleases(t) ==
    /\ pc[t] = "status" /\ ~BusError(t)
    /\ "nak" \notin errors
    /\ op' = [op EXCEPT ![t] = IF @ = "read_reg" THEN "read_data" ELSE "done"]
    /\ Goto(t, IF op[t] = "read_reg" THEN "lock" ELSE "unlock")
    /\ i2c_mutex' = IF op[t] = "read_reg" THEN None ELSE i2c_mutex
    /\ UNCHANGED <<scenario, i2c_irq_sem, hw, res, served>>

\* Success; i2c_read goes on with the transfer of the data.
StatusOk(t) ==
    /\ pc[t] = "status" /\ ~BusError(t)
    /\ "nak" \notin errors
    /\ op' = [op EXCEPT ![t] = IF @ = "read_reg" THEN "read_data" ELSE "done"]
    /\ Goto(t, IF op[t] = "read_reg" THEN "setup" ELSE "unlock")
    /\ UNCHANGED <<scenario, sems, hw, res, served>>

-----------------------------------------------------------------------------
(* i2c_init, called by a transfer that holds the mutex                     *)

\* The resets, and nine clocks and a STOP to clear the bus.
InitReset(t) ==
    /\ pc[t] = "reset"
    /\ bus' = "idle" /\ enabled' = FALSE /\ irqs' = FALSE
    /\ errors' = {} /\ job' = None
    /\ Goto(t, "drain")
    /\ UNCHANGED <<scenario, sems, op, res, served>>

\* A mutant: the token that i2c_stop gave stays.
InitNoDrain(t) ==
    /\ pc[t] = "drain"
    /\ Goto(t, "give")
    /\ UNCHANGED <<scenario, sems, hw, op, res, served>>

\* xSemaphoreTake( i2c_irq_sem, 0 )
InitDrain(t) ==
    /\ pc[t] = "drain"
    /\ i2c_irq_sem' = 0
    /\ Goto(t, "give")
    /\ UNCHANGED <<scenario, i2c_mutex, hw, op, res, served>>

\* xSemaphoreGive( i2c_mutex )
InitGive(t) ==
    /\ pc[t] = "give"
    /\ i2c_mutex' = None
    /\ Goto(t, "enable")
    /\ UNCHANGED <<scenario, i2c_irq_sem, hw, op, res, served>>

\* I2C_Cmd( ENABLE ), and i2c_transfer returns -1 with EBUSY.
InitEnable(t) ==
    /\ pc[t] = "enable"
    /\ enabled' = TRUE
    /\ Goto(t, "unlock")
    /\ UNCHANGED <<scenario, sems, bus, irqs, errors, job, op, res, served>>

-----------------------------------------------------------------------------
\* Steps of a call in progress.
Step(t) ==
    \/ Lock(t) \/ Unlock(t)
    \/ Setup(t) \/ Start(t) \/ Woken(t) \/ WaitTimeout(t)
    \/ BusyClear(t) \/ BusyTimeout(t)
    \/ StatusBusError(t) \/ StatusNak(t) \/ StatusOk(t)
    \/ InitReset(t) \/ InitDrain(t) \/ InitGive(t) \/ InitEnable(t)

Next == \/ TransferComplete \/ I2C1_ER_IRQHandler \/ BusFree
        \/ \E t \in Tasks : Call(t) \/ Step(t)

\* A task with something to do is scheduled, FreeRTOS hands a mutex to a task
\* that waits for it (strong fairness), and a running transfer ends, with an
\* interrupt or by the timeout.
Fairness ==
    /\ \A t \in Tasks : WF_vars(Step(t)) /\ SF_vars(Lock(t))
    /\ WF_vars(TransferComplete \/ I2C1_ER_IRQHandler)
    /\ WF_vars(BusFree)

Spec == Init /\ [][Next]_vars /\ Fairness

-----------------------------------------------------------------------------
(* Properties                                                              *)

InTransfer == {"setup", "start", "wait", "busy", "status",
               "reset", "drain", "give", "enable"}

TypeOK ==
    /\ scenario \in Scenarios
    /\ i2c_mutex \in Tasks \cup {None} /\ i2c_irq_sem \in {0, 1}
    /\ bus \in {"idle", "xfer", "stopping"}
    /\ enabled \in BOOLEAN /\ irqs \in BOOLEAN
    /\ errors \subseteq Faults /\ job \in Tasks \cup {None}
    /\ pc  \in [Tasks -> InTransfer \cup {"idle", "lock", "unlock"}]
    /\ op  \in [Tasks -> {"none", "read_reg", "read_data", "write", "done"}]
    /\ res \in [Tasks -> BOOLEAN]
    /\ served \subseteq Tasks

\* The mutex "for the read/write API" does its work: one task at a time is
\* between the xSemaphoreTake and the xSemaphoreGive of an i2c_read, an
\* i2c_write or a probe.
MutualExclusion ==
    \A t, u \in Tasks : pc[t] \in InTransfer /\ pc[u] \in InTransfer => t = u

\* A transfer begins on a free bus and an enabled peripheral, with no error
\* flag and no token left over from the one before, however that one ended:
\* nothing of an old timeout, NAK or bus error can end the new one.
CleanStart ==
    \A t \in Tasks : pc[t] \in {"setup", "start"} =>
        /\ bus = "idle" /\ enabled /\ ~irqs
        /\ errors = {} /\ i2c_irq_sem = 0

\* i2c_transfer returns its length only for a transfer that the bus completed
\* for this very task: a token or a cleared flag never stands in for it.
OkMeansServed ==
    [][\A t \in Tasks : StatusOk(t) => t \in served]_vars

-----------------------------------------------------------------------------
(* Why they hold: the inductive invariant of I2cDriver_proofs              *)

\* The driver's premise: several tasks share the bus only when its slaves do
\* nothing worse than not to answer.
SafeUse ==
    \A s \in Scenarios : \/ s.faults \subseteq {"nak"}
                         \/ \A t, u \in s.clients : t = u

Alone == \A t, u \in scenario.clients : t = u

Active(t) == pc[t] \notin {"idle", "lock"}

\* What a call in progress is about.
Asked(t) ==
    /\ pc[t] = "lock" => op[t] \in {"read_reg", "write"}
    /\ pc[t] \in InTransfer => op[t] \in {"read_reg", "read_data", "write"}

Clean == bus = "idle" /\ enabled /\ ~irqs /\ errors = {} /\ i2c_irq_sem = 0

\* The transfer of t is over; without an error flag it was completed.
Ended(t) == enabled /\ bus # "xfer" /\ ~irqs /\ (errors = {} => t \in served)

Phase(t) ==
    /\ pc[t] \in {"setup", "start", "unlock"} => Clean
    /\ pc[t] \in {"start", "wait"} => job = t
    /\ pc[t] = "wait" =>
         \/ enabled /\ bus = "xfer" /\ irqs /\ errors = {} /\ i2c_irq_sem = 0
         \/ Ended(t) /\ i2c_irq_sem = 1
    /\ pc[t] = "busy"   /\ res[t] => Ended(t) /\ i2c_irq_sem = 0
    /\ pc[t] = "status" /\ res[t] => Ended(t) /\ i2c_irq_sem = 0 /\ bus = "idle"
    /\ pc[t] = "reset" => ~irqs
    /\ pc[t] \in {"drain", "give", "enable"} => bus = "idle" /\ ~irqs /\ errors = {}
    /\ pc[t] \in {"give", "enable"} => i2c_irq_sem = 0

Owner == \A t \in Tasks :
    /\ Active(t) => i2c_mutex = t \/ Alone
    /\ pc[t] # "idle" => t \in scenario.clients
    /\ pc[t] \in {"reset", "drain", "give", "enable"} => Alone

OnlyFaults ==
    /\ errors \subseteq scenario.faults \ {"timeout"}
    /\ \A t \in Tasks : ~res[t] => "timeout" \in scenario.faults

\* Who holds the mutex decides what the semaphore, the flags and the bus can
\* be at each point of i2c_transfer and i2c_init: one task is active, what it
\* waits for is its own transfer, and everything is clean when nobody is.
TransferPhases ==
    /\ Owner /\ OnlyFaults
    /\ \A t, u \in Tasks : Active(t) /\ Active(u) => t = u
    /\ \A t \in Tasks : Asked(t) /\ Phase(t)
    /\ (\A t \in Tasks : ~Active(t)) => Clean
    /\ irqs => job # None

-----------------------------------------------------------------------------
(* The service that the driver is                                          *)

BusOwner == IF \E t \in Tasks : Active(t) THEN CHOOSE t \in Tasks : Active(t)
                                          ELSE None

BusServed ==
    \E t \in served : Active(t) /\ pc[t] # "setup" /\ op[t] # "done"

Service == INSTANCE BusService WITH call <- op, owner <- BusOwner, served <- BusServed

\* i2c_read and i2c_write are what BusService says: the two transfers of a
\* register read belong together, nobody's transfer comes in between, and the
\* calls report success only when the bus has completed each of them in turn,
\* whatever the recoveries, left over tokens and waiting tasks around them.
ImplementsService == Service!Spec

-----------------------------------------------------------------------------
\* Every call returns, whatever the bus does.
CallsReturn == \A t \in Tasks : pc[t] # "idle" ~> pc[t] = "idle"
=============================================================================

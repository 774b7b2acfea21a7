--------------------------- MODULE I2cDriver_proofs ---------------------------
(***************************************************************************)
(* The mutex and the semaphore of i2c_driver.c, for any number of tasks:   *)
(* while several tasks use the bus only if its slaves do nothing worse     *)
(* than not to answer (SafeUse), one transfer runs at a time, it starts    *)
(* clean, and success means that the bus has completed it.  So the driver  *)
(* is the service of BusService.                                           *)
(***************************************************************************)
EXTENDS I2cDriver, TLAPS

IInv == TypeOK /\ TransferPhases

LEMMA InitIInv == Init => IInv
  BY NoneAssumption, ScenariosAssumption
     DEF Init, IInv, TypeOK, TransferPhases, Owner, OnlyFaults, Active, Asked,
         Phase, Clean, InTransfer

-----------------------------------------------------------------------------
(* One lemma per action, with a step for each part of the invariant.       *)

LEMMA TransferCompleteStep ==
  ASSUME IInv, TransferComplete
  PROVE  IInv'
<1>1. TypeOK'
  BY NoneAssumption, ScenariosAssumption
     DEF IInv, TypeOK, TransferPhases, InTransfer, Faults, TransferComplete, i2c_stop, hw, sems
<1>2. Owner'
  BY NoneAssumption, ScenariosAssumption
     DEF IInv, TypeOK, TransferPhases, Owner, OnlyFaults, Active, Alone, InTransfer,
         Faults, TransferComplete, i2c_stop, hw, sems
<1>3. OnlyFaults'
  BY DEF IInv, TypeOK, TransferPhases, OnlyFaults, Faults, TransferComplete, i2c_stop, hw, sems
<1>4. (\A u, v \in Tasks : Active(u) /\ Active(v) => u = v)'
  BY NoneAssumption
     DEF IInv, TypeOK, TransferPhases, Owner, Active, Alone, InTransfer, TransferComplete, i2c_stop, hw, sems
<1>5. (\A u \in Tasks : Phase(u))'
  BY NoneAssumption, ScenariosAssumption
     DEF IInv, TypeOK, TransferPhases, OnlyFaults, Phase, Active, Clean, Ended,
         Faults, InTransfer, TransferComplete, i2c_stop, hw, sems
<1>6. ((\A u \in Tasks : ~Active(u)) => Clean)' /\ (irqs => job # None)'
  BY NoneAssumption
     DEF IInv, TypeOK, TransferPhases, Phase, Active, Clean, Ended, InTransfer,
         TransferComplete, i2c_stop, hw, sems
<1>7. (\A u \in Tasks : Asked(u))'
  BY DEF IInv, TypeOK, TransferPhases, Asked, InTransfer, TransferComplete, i2c_stop, hw, sems
<1> QED
  BY <1>1, <1>2, <1>3, <1>4, <1>5, <1>6, <1>7 DEF IInv, TransferPhases

LEMMA I2C1_ER_IRQHandlerStep ==
  ASSUME IInv, I2C1_ER_IRQHandler
  PROVE  IInv'
<1>1. TypeOK'
  BY NoneAssumption, ScenariosAssumption
     DEF IInv, TypeOK, TransferPhases, InTransfer, Faults, I2C1_ER_IRQHandler, i2c_stop, hw, sems
<1>2. Owner'
  BY NoneAssumption, ScenariosAssumption
     DEF IInv, TypeOK, TransferPhases, Owner, OnlyFaults, Active, Alone, InTransfer,
         Faults, I2C1_ER_IRQHandler, i2c_stop, hw, sems
<1>3. OnlyFaults'
  BY DEF IInv, TypeOK, TransferPhases, OnlyFaults, Faults, I2C1_ER_IRQHandler, i2c_stop, hw, sems
<1>4. (\A u, v \in Tasks : Active(u) /\ Active(v) => u = v)'
  BY NoneAssumption
     DEF IInv, TypeOK, TransferPhases, Owner, Active, Alone, InTransfer, I2C1_ER_IRQHandler, i2c_stop, hw, sems
<1>5. (\A u \in Tasks : Phase(u))'
  BY NoneAssumption, ScenariosAssumption
     DEF IInv, TypeOK, TransferPhases, OnlyFaults, Phase, Active, Clean, Ended,
         Faults, InTransfer, I2C1_ER_IRQHandler, i2c_stop, hw, sems
<1>6. ((\A u \in Tasks : ~Active(u)) => Clean)' /\ (irqs => job # None)'
  BY NoneAssumption
     DEF IInv, TypeOK, TransferPhases, Phase, Active, Clean, Ended, InTransfer,
         I2C1_ER_IRQHandler, i2c_stop, hw, sems
<1>7. (\A u \in Tasks : Asked(u))'
  BY DEF IInv, TypeOK, TransferPhases, Asked, InTransfer, I2C1_ER_IRQHandler, i2c_stop, hw, sems
<1> QED
  BY <1>1, <1>2, <1>3, <1>4, <1>5, <1>6, <1>7 DEF IInv, TransferPhases

LEMMA BusFreeStep ==
  ASSUME IInv, BusFree
  PROVE  IInv'
<1>1. TypeOK'
  BY NoneAssumption, ScenariosAssumption
     DEF IInv, TypeOK, TransferPhases, InTransfer, Faults, BusFree, hw, sems
<1>2. Owner'
  BY NoneAssumption, ScenariosAssumption
     DEF IInv, TypeOK, TransferPhases, Owner, OnlyFaults, Active, Alone, InTransfer,
         Faults, BusFree, hw, sems
<1>3. OnlyFaults'
  BY DEF IInv, TypeOK, TransferPhases, OnlyFaults, Faults, BusFree, hw, sems
<1>4. (\A u, v \in Tasks : Active(u) /\ Active(v) => u = v)'
  BY NoneAssumption
     DEF IInv, TypeOK, TransferPhases, Owner, Active, Alone, InTransfer, BusFree, hw, sems
<1>5. (\A u \in Tasks : Phase(u))'
  BY NoneAssumption, ScenariosAssumption
     DEF IInv, TypeOK, TransferPhases, OnlyFaults, Phase, Active, Clean, Ended,
         Faults, InTransfer, BusFree, hw, sems
<1>6. ((\A u \in Tasks : ~Active(u)) => Clean)' /\ (irqs => job # None)'
  BY NoneAssumption
     DEF IInv, TypeOK, TransferPhases, Phase, Active, Clean, Ended, InTransfer,
         BusFree, hw, sems
<1>7. (\A u \in Tasks : Asked(u))'
  BY DEF IInv, TypeOK, TransferPhases, Asked, InTransfer, BusFree, hw, sems
<1> QED
  BY <1>1, <1>2, <1>3, <1>4, <1>5, <1>6, <1>7 DEF IInv, TransferPhases

LEMMA CallStep ==
  ASSUME NEW t \in Tasks, IInv, Call(t)
  PROVE  IInv'
<1>1. TypeOK'
  BY NoneAssumption, ScenariosAssumption
     DEF IInv, TypeOK, TransferPhases, InTransfer, Faults, Call, Goto, hw, sems
<1>2. Owner'
  BY NoneAssumption, ScenariosAssumption
     DEF IInv, TypeOK, TransferPhases, Owner, OnlyFaults, Active, Alone, InTransfer,
         Faults, Call, Goto, hw, sems
<1>3. OnlyFaults'
  BY DEF IInv, TypeOK, TransferPhases, OnlyFaults, Faults, Call, Goto, hw, sems
<1>4. (\A u, v \in Tasks : Active(u) /\ Active(v) => u = v)'
  BY NoneAssumption
     DEF IInv, TypeOK, TransferPhases, Owner, Active, Alone, InTransfer, Call, Goto, hw, sems
<1>5. (\A u \in Tasks : Phase(u))'
  BY NoneAssumption, ScenariosAssumption
     DEF IInv, TypeOK, TransferPhases, OnlyFaults, Phase, Active, Clean, Ended,
         Faults, InTransfer, Call, Goto, hw, sems
<1>6. ((\A u \in Tasks : ~Active(u)) => Clean)' /\ (irqs => job # None)'
  BY NoneAssumption
     DEF IInv, TypeOK, TransferPhases, Phase, Active, Clean, Ended, InTransfer,
         Call, Goto, hw, sems
<1>7. (\A u \in Tasks : Asked(u))'
  BY DEF IInv, TypeOK, TransferPhases, Asked, InTransfer, Call, Goto, hw, sems
<1> QED
  BY <1>1, <1>2, <1>3, <1>4, <1>5, <1>6, <1>7 DEF IInv, TransferPhases

LEMMA LockStep ==
  ASSUME NEW t \in Tasks, IInv, Lock(t)
  PROVE  IInv'
<1>1. TypeOK'
  BY NoneAssumption, ScenariosAssumption
     DEF IInv, TypeOK, TransferPhases, InTransfer, Faults, Lock, Goto, hw, sems
<1>2. Owner'
  BY NoneAssumption, ScenariosAssumption
     DEF IInv, TypeOK, TransferPhases, Owner, OnlyFaults, Active, Alone, InTransfer,
         Faults, Lock, Goto, hw, sems
<1>3. OnlyFaults'
  BY DEF IInv, TypeOK, TransferPhases, OnlyFaults, Faults, Lock, Goto, hw, sems
<1>4. (\A u, v \in Tasks : Active(u) /\ Active(v) => u = v)'
  BY NoneAssumption
     DEF IInv, TypeOK, TransferPhases, Owner, Active, Alone, InTransfer, Lock, Goto, hw, sems
<1>5. (\A u \in Tasks : Phase(u))'
  BY NoneAssumption, ScenariosAssumption
     DEF IInv, TypeOK, TransferPhases, OnlyFaults, Phase, Active, Clean, Ended,
         Owner, Alone, Faults, InTransfer, Lock, Goto, hw, sems
<1>6. ((\A u \in Tasks : ~Active(u)) => Clean)' /\ (irqs => job # None)'
  BY NoneAssumption
     DEF IInv, TypeOK, TransferPhases, Phase, Active, Clean, Ended, InTransfer,
         Lock, Goto, hw, sems
<1>7. (\A u \in Tasks : Asked(u))'
  BY DEF IInv, TypeOK, TransferPhases, Asked, InTransfer, Lock, Goto, hw, sems
<1> QED
  BY <1>1, <1>2, <1>3, <1>4, <1>5, <1>6, <1>7 DEF IInv, TransferPhases

LEMMA UnlockStep ==
  ASSUME NEW t \in Tasks, IInv, Unlock(t)
  PROVE  IInv'
<1>1. TypeOK'
  BY NoneAssumption, ScenariosAssumption
     DEF IInv, TypeOK, TransferPhases, InTransfer, Faults, Unlock, Goto, hw, sems
<1>2. Owner'
  BY NoneAssumption, ScenariosAssumption
     DEF IInv, TypeOK, TransferPhases, Owner, OnlyFaults, Active, Alone, InTransfer,
         Faults, Unlock, Goto, hw, sems
<1>3. OnlyFaults'
  BY DEF IInv, TypeOK, TransferPhases, OnlyFaults, Faults, Unlock, Goto, hw, sems
<1>4. (\A u, v \in Tasks : Active(u) /\ Active(v) => u = v)'
  BY NoneAssumption
     DEF IInv, TypeOK, TransferPhases, Owner, Active, Alone, InTransfer, Unlock, Goto, hw, sems
<1>5. (\A u \in Tasks : Phase(u))'
  BY NoneAssumption, ScenariosAssumption
     DEF IInv, TypeOK, TransferPhases, OnlyFaults, Phase, Active, Clean, Ended,
         Faults, InTransfer, Unlock, Goto, hw, sems
<1>6. ((\A u \in Tasks : ~Active(u)) => Clean)' /\ (irqs => job # None)'
  BY NoneAssumption
     DEF IInv, TypeOK, TransferPhases, Phase, Active, Clean, Ended, InTransfer,
         Unlock, Goto, hw, sems
<1>7. (\A u \in Tasks : Asked(u))'
  BY DEF IInv, TypeOK, TransferPhases, Asked, InTransfer, Unlock, Goto, hw, sems
<1> QED
  BY <1>1, <1>2, <1>3, <1>4, <1>5, <1>6, <1>7 DEF IInv, TransferPhases

LEMMA SetupStep ==
  ASSUME NEW t \in Tasks, IInv, Setup(t)
  PROVE  IInv'
<1>1. TypeOK'
  BY NoneAssumption, ScenariosAssumption
     DEF IInv, TypeOK, TransferPhases, InTransfer, Faults, Setup, Goto, hw, sems
<1>2. Owner'
  BY NoneAssumption, ScenariosAssumption
     DEF IInv, TypeOK, TransferPhases, Owner, OnlyFaults, Active, Alone, InTransfer,
         Faults, Setup, Goto, hw, sems
<1>3. OnlyFaults'
  BY DEF IInv, TypeOK, TransferPhases, OnlyFaults, Faults, Setup, Goto, hw, sems
<1>4. (\A u, v \in Tasks : Active(u) /\ Active(v) => u = v)'
  BY NoneAssumption
     DEF IInv, TypeOK, TransferPhases, Owner, Active, Alone, InTransfer, Setup, Goto, hw, sems
<1>5. (\A u \in Tasks : Phase(u))'
  BY NoneAssumption, ScenariosAssumption
     DEF IInv, TypeOK, TransferPhases, OnlyFaults, Phase, Active, Clean, Ended,
         Faults, InTransfer, Setup, Goto, hw, sems
<1>6. ((\A u \in Tasks : ~Active(u)) => Clean)' /\ (irqs => job # None)'
  BY NoneAssumption
     DEF IInv, TypeOK, TransferPhases, Phase, Active, Clean, Ended, InTransfer,
         Setup, Goto, hw, sems
<1>7. (\A u \in Tasks : Asked(u))'
  BY DEF IInv, TypeOK, TransferPhases, Asked, InTransfer, Setup, Goto, hw, sems
<1> QED
  BY <1>1, <1>2, <1>3, <1>4, <1>5, <1>6, <1>7 DEF IInv, TransferPhases

LEMMA StartStep ==
  ASSUME NEW t \in Tasks, IInv, Start(t)
  PROVE  IInv'
<1>1. TypeOK'
  BY NoneAssumption, ScenariosAssumption
     DEF IInv, TypeOK, TransferPhases, InTransfer, Faults, Start, Goto, hw, sems
<1>2. Owner'
  BY NoneAssumption, ScenariosAssumption
     DEF IInv, TypeOK, TransferPhases, Owner, OnlyFaults, Active, Alone, InTransfer,
         Faults, Start, Goto, hw, sems
<1>3. OnlyFaults'
  BY DEF IInv, TypeOK, TransferPhases, OnlyFaults, Faults, Start, Goto, hw, sems
<1>4. (\A u, v \in Tasks : Active(u) /\ Active(v) => u = v)'
  BY NoneAssumption
     DEF IInv, TypeOK, TransferPhases, Owner, Active, Alone, InTransfer, Start, Goto, hw, sems
<1>5. (\A u \in Tasks : Phase(u))'
  BY NoneAssumption, ScenariosAssumption
     DEF IInv, TypeOK, TransferPhases, OnlyFaults, Phase, Active, Clean, Ended,
         Faults, InTransfer, Start, Goto, hw, sems
<1>6. ((\A u \in Tasks : ~Active(u)) => Clean)' /\ (irqs => job # None)'
  BY NoneAssumption
     DEF IInv, TypeOK, TransferPhases, Phase, Active, Clean, Ended, InTransfer,
         Start, Goto, hw, sems
<1>7. (\A u \in Tasks : Asked(u))'
  BY DEF IInv, TypeOK, TransferPhases, Asked, InTransfer, Start, Goto, hw, sems
<1> QED
  BY <1>1, <1>2, <1>3, <1>4, <1>5, <1>6, <1>7 DEF IInv, TransferPhases

LEMMA WokenStep ==
  ASSUME NEW t \in Tasks, IInv, Woken(t)
  PROVE  IInv'
<1>1. TypeOK'
  BY NoneAssumption, ScenariosAssumption
     DEF IInv, TypeOK, TransferPhases, InTransfer, Faults, Woken, Goto, hw, sems
<1>2. Owner'
  BY NoneAssumption, ScenariosAssumption
     DEF IInv, TypeOK, TransferPhases, Owner, OnlyFaults, Active, Alone, InTransfer,
         Faults, Woken, Goto, hw, sems
<1>3. OnlyFaults'
  BY DEF IInv, TypeOK, TransferPhases, OnlyFaults, Faults, Woken, Goto, hw, sems
<1>4. (\A u, v \in Tasks : Active(u) /\ Active(v) => u = v)'
  BY NoneAssumption
     DEF IInv, TypeOK, TransferPhases, Owner, Active, Alone, InTransfer, Woken, Goto, hw, sems
<1>5. (\A u \in Tasks : Phase(u))'
  BY NoneAssumption, ScenariosAssumption
     DEF IInv, TypeOK, TransferPhases, OnlyFaults, Phase, Active, Clean, Ended,
         Faults, InTransfer, Woken, Goto, hw, sems
<1>6. ((\A u \in Tasks : ~Active(u)) => Clean)' /\ (irqs => job # None)'
  BY NoneAssumption
     DEF IInv, TypeOK, TransferPhases, Phase, Active, Clean, Ended, InTransfer,
         Woken, Goto, hw, sems
<1>7. (\A u \in Tasks : Asked(u))'
  BY DEF IInv, TypeOK, TransferPhases, Asked, InTransfer, Woken, Goto, hw, sems
<1> QED
  BY <1>1, <1>2, <1>3, <1>4, <1>5, <1>6, <1>7 DEF IInv, TransferPhases

LEMMA WaitTimeoutStep ==
  ASSUME NEW t \in Tasks, IInv, WaitTimeout(t)
  PROVE  IInv'
<1>1. TypeOK'
  BY NoneAssumption, ScenariosAssumption
     DEF IInv, TypeOK, TransferPhases, InTransfer, Faults, WaitTimeout, Goto, hw, sems
<1>2. Owner'
  BY NoneAssumption, ScenariosAssumption
     DEF IInv, TypeOK, TransferPhases, Owner, OnlyFaults, Active, Alone, InTransfer,
         Faults, WaitTimeout, Goto, hw, sems
<1>3. OnlyFaults'
  BY DEF IInv, TypeOK, TransferPhases, OnlyFaults, Faults, WaitTimeout, Goto, hw, sems
<1>4. (\A u, v \in Tasks : Active(u) /\ Active(v) => u = v)'
  BY NoneAssumption
     DEF IInv, TypeOK, TransferPhases, Owner, Active, Alone, InTransfer, WaitTimeout, Goto, hw, sems
<1>5. (\A u \in Tasks : Phase(u))'
  BY NoneAssumption, ScenariosAssumption
     DEF IInv, TypeOK, TransferPhases, OnlyFaults, Phase, Active, Clean, Ended,
         Faults, InTransfer, WaitTimeout, Goto, hw, sems
<1>6. ((\A u \in Tasks : ~Active(u)) => Clean)' /\ (irqs => job # None)'
  BY NoneAssumption
     DEF IInv, TypeOK, TransferPhases, Phase, Active, Clean, Ended, InTransfer,
         WaitTimeout, Goto, hw, sems
<1>7. (\A u \in Tasks : Asked(u))'
  BY DEF IInv, TypeOK, TransferPhases, Asked, InTransfer, WaitTimeout, Goto, hw, sems
<1> QED
  BY <1>1, <1>2, <1>3, <1>4, <1>5, <1>6, <1>7 DEF IInv, TransferPhases

LEMMA BusyClearStep ==
  ASSUME NEW t \in Tasks, IInv, BusyClear(t)
  PROVE  IInv'
<1>1. TypeOK'
  BY NoneAssumption, ScenariosAssumption
     DEF IInv, TypeOK, TransferPhases, InTransfer, Faults, BusyClear, Goto, hw, sems
<1>2. Owner'
  BY NoneAssumption, ScenariosAssumption
     DEF IInv, TypeOK, TransferPhases, Owner, OnlyFaults, Active, Alone, InTransfer,
         Faults, BusyClear, Goto, hw, sems
<1>3. OnlyFaults'
  BY DEF IInv, TypeOK, TransferPhases, OnlyFaults, Faults, BusyClear, Goto, hw, sems
<1>4. (\A u, v \in Tasks : Active(u) /\ Active(v) => u = v)'
  BY NoneAssumption
     DEF IInv, TypeOK, TransferPhases, Owner, Active, Alone, InTransfer, BusyClear, Goto, hw, sems
<1>5. (\A u \in Tasks : Phase(u))'
  BY NoneAssumption, ScenariosAssumption
     DEF IInv, TypeOK, TransferPhases, OnlyFaults, Phase, Active, Clean, Ended,
         Faults, InTransfer, BusyClear, Goto, hw, sems
<1>6. ((\A u \in Tasks : ~Active(u)) => Clean)' /\ (irqs => job # None)'
  BY NoneAssumption
     DEF IInv, TypeOK, TransferPhases, Phase, Active, Clean, Ended, InTransfer,
         BusyClear, Goto, hw, sems
<1>7. (\A u \in Tasks : Asked(u))'
  BY DEF IInv, TypeOK, TransferPhases, Asked, InTransfer, BusyClear, Goto, hw, sems
<1> QED
  BY <1>1, <1>2, <1>3, <1>4, <1>5, <1>6, <1>7 DEF IInv, TransferPhases

LEMMA BusyTimeoutStep ==
  ASSUME NEW t \in Tasks, IInv, BusyTimeout(t)
  PROVE  IInv'
<1>1. TypeOK'
  BY NoneAssumption, ScenariosAssumption
     DEF IInv, TypeOK, TransferPhases, InTransfer, Faults, BusyTimeout, Goto, hw, sems
<1>2. Owner'
  BY NoneAssumption, ScenariosAssumption
     DEF IInv, TypeOK, TransferPhases, Owner, OnlyFaults, Active, Alone, InTransfer,
         Faults, BusyTimeout, Goto, hw, sems
<1>3. OnlyFaults'
  BY DEF IInv, TypeOK, TransferPhases, OnlyFaults, Faults, BusyTimeout, Goto, hw, sems
<1>4. (\A u, v \in Tasks : Active(u) /\ Active(v) => u = v)'
  BY NoneAssumption
     DEF IInv, TypeOK, TransferPhases, Owner, Active, Alone, InTransfer, BusyTimeout, Goto, hw, sems
<1>5. (\A u \in Tasks : Phase(u))'
  BY NoneAssumption, ScenariosAssumption
     DEF IInv, TypeOK, TransferPhases, OnlyFaults, Phase, Active, Clean, Ended,
         Faults, InTransfer, BusyTimeout, Goto, hw, sems
<1>6. ((\A u \in Tasks : ~Active(u)) => Clean)' /\ (irqs => job # None)'
  BY NoneAssumption
     DEF IInv, TypeOK, TransferPhases, Phase, Active, Clean, Ended, InTransfer,
         BusyTimeout, Goto, hw, sems
<1>7. (\A u \in Tasks : Asked(u))'
  BY DEF IInv, TypeOK, TransferPhases, Asked, InTransfer, BusyTimeout, Goto, hw, sems
<1> QED
  BY <1>1, <1>2, <1>3, <1>4, <1>5, <1>6, <1>7 DEF IInv, TransferPhases

LEMMA StatusBusErrorStep ==
  ASSUME NEW t \in Tasks, SafeUse, IInv, StatusBusError(t)
  PROVE  IInv'
<1>1. TypeOK'
  BY NoneAssumption, ScenariosAssumption
     DEF IInv, TypeOK, TransferPhases, InTransfer, Faults, StatusBusError, i2c_stop, BusError, Goto, hw, sems
<1>2. Owner'
  BY NoneAssumption, ScenariosAssumption
     DEF IInv, TypeOK, TransferPhases, Owner, OnlyFaults, Active, Alone, SafeUse, InTransfer,
         Faults, StatusBusError, i2c_stop, BusError, Goto, hw, sems
<1>3. OnlyFaults'
  BY DEF IInv, TypeOK, TransferPhases, OnlyFaults, Faults, StatusBusError, i2c_stop, BusError, Goto, hw, sems
<1>4. (\A u, v \in Tasks : Active(u) /\ Active(v) => u = v)'
  BY NoneAssumption
     DEF IInv, TypeOK, TransferPhases, Owner, Active, Alone, InTransfer, StatusBusError, i2c_stop, BusError, Goto, hw, sems
<1>5. (\A u \in Tasks : Phase(u))'
  BY NoneAssumption, ScenariosAssumption
     DEF IInv, TypeOK, TransferPhases, OnlyFaults, Phase, Active, Clean, Ended,
         Faults, InTransfer, StatusBusError, i2c_stop, BusError, Goto, hw, sems
<1>6. ((\A u \in Tasks : ~Active(u)) => Clean)' /\ (irqs => job # None)'
  BY NoneAssumption
     DEF IInv, TypeOK, TransferPhases, Phase, Active, Clean, Ended, InTransfer,
         StatusBusError, i2c_stop, BusError, Goto, hw, sems
<1>7. (\A u \in Tasks : Asked(u))'
  BY DEF IInv, TypeOK, TransferPhases, Asked, InTransfer, StatusBusError, i2c_stop, BusError, Goto, hw, sems
<1> QED
  BY <1>1, <1>2, <1>3, <1>4, <1>5, <1>6, <1>7 DEF IInv, TransferPhases

LEMMA StatusNakStep ==
  ASSUME NEW t \in Tasks, IInv, StatusNak(t)
  PROVE  IInv'
<1>1. TypeOK'
  BY NoneAssumption, ScenariosAssumption
     DEF IInv, TypeOK, TransferPhases, InTransfer, Faults, StatusNak, BusError, Goto, hw, sems
<1>2. Owner'
  BY NoneAssumption, ScenariosAssumption
     DEF IInv, TypeOK, TransferPhases, Owner, OnlyFaults, Active, Alone, InTransfer,
         Faults, StatusNak, BusError, Goto, hw, sems
<1>3. OnlyFaults'
  BY DEF IInv, TypeOK, TransferPhases, OnlyFaults, Faults, StatusNak, BusError, Goto, hw, sems
<1>4. (\A u, v \in Tasks : Active(u) /\ Active(v) => u = v)'
  BY NoneAssumption
     DEF IInv, TypeOK, TransferPhases, Owner, Active, Alone, InTransfer, StatusNak, BusError, Goto, hw, sems
<1>5. (\A u \in Tasks : Phase(u))'
  BY NoneAssumption, ScenariosAssumption
     DEF IInv, TypeOK, TransferPhases, OnlyFaults, Phase, Active, Clean, Ended,
         Faults, InTransfer, StatusNak, BusError, Goto, hw, sems
<1>6. ((\A u \in Tasks : ~Active(u)) => Clean)' /\ (irqs => job # None)'
  BY NoneAssumption
     DEF IInv, TypeOK, TransferPhases, Phase, Active, Clean, Ended, InTransfer,
         StatusNak, BusError, Goto, hw, sems
<1>7. (\A u \in Tasks : Asked(u))'
  BY DEF IInv, TypeOK, TransferPhases, Asked, InTransfer, StatusNak, BusError, Goto, hw, sems
<1> QED
  BY <1>1, <1>2, <1>3, <1>4, <1>5, <1>6, <1>7 DEF IInv, TransferPhases

LEMMA StatusOkStep ==
  ASSUME NEW t \in Tasks, IInv, StatusOk(t)
  PROVE  IInv'
<1>1. TypeOK'
  BY NoneAssumption, ScenariosAssumption
     DEF IInv, TypeOK, TransferPhases, InTransfer, Faults, StatusOk, BusError, Goto, hw, sems
<1>2. Owner'
  BY NoneAssumption, ScenariosAssumption
     DEF IInv, TypeOK, TransferPhases, Owner, OnlyFaults, Active, Alone, InTransfer,
         Faults, StatusOk, BusError, Goto, hw, sems
<1>3. OnlyFaults'
  BY DEF IInv, TypeOK, TransferPhases, OnlyFaults, Faults, StatusOk, BusError, Goto, hw, sems
<1>4. (\A u, v \in Tasks : Active(u) /\ Active(v) => u = v)'
  BY NoneAssumption
     DEF IInv, TypeOK, TransferPhases, Owner, Active, Alone, InTransfer, StatusOk, BusError, Goto, hw, sems
<1>5. (\A u \in Tasks : Phase(u))'
  BY NoneAssumption, ScenariosAssumption
     DEF IInv, TypeOK, TransferPhases, OnlyFaults, Phase, Active, Clean, Ended,
         Faults, InTransfer, StatusOk, BusError, Goto, hw, sems
<1>6. ((\A u \in Tasks : ~Active(u)) => Clean)' /\ (irqs => job # None)'
  BY NoneAssumption
     DEF IInv, TypeOK, TransferPhases, Phase, Active, Clean, Ended, InTransfer,
         StatusOk, BusError, Goto, hw, sems
<1>7. (\A u \in Tasks : Asked(u))'
  BY DEF IInv, TypeOK, TransferPhases, Asked, InTransfer, StatusOk, BusError, Goto, hw, sems
<1> QED
  BY <1>1, <1>2, <1>3, <1>4, <1>5, <1>6, <1>7 DEF IInv, TransferPhases

LEMMA InitResetStep ==
  ASSUME NEW t \in Tasks, IInv, InitReset(t)
  PROVE  IInv'
<1>1. TypeOK'
  BY NoneAssumption, ScenariosAssumption
     DEF IInv, TypeOK, TransferPhases, InTransfer, Faults, InitReset, Goto, hw, sems
<1>2. Owner'
  BY NoneAssumption, ScenariosAssumption
     DEF IInv, TypeOK, TransferPhases, Owner, OnlyFaults, Active, Alone, InTransfer,
         Faults, InitReset, Goto, hw, sems
<1>3. OnlyFaults'
  BY DEF IInv, TypeOK, TransferPhases, OnlyFaults, Faults, InitReset, Goto, hw, sems
<1>4. (\A u, v \in Tasks : Active(u) /\ Active(v) => u = v)'
  BY NoneAssumption
     DEF IInv, TypeOK, TransferPhases, Owner, Active, Alone, InTransfer, InitReset, Goto, hw, sems
<1>5. (\A u \in Tasks : Phase(u))'
  BY NoneAssumption, ScenariosAssumption
     DEF IInv, TypeOK, TransferPhases, OnlyFaults, Phase, Active, Clean, Ended,
         Faults, InTransfer, InitReset, Goto, hw, sems
<1>6. ((\A u \in Tasks : ~Active(u)) => Clean)' /\ (irqs => job # None)'
  BY NoneAssumption
     DEF IInv, TypeOK, TransferPhases, Phase, Active, Clean, Ended, InTransfer,
         InitReset, Goto, hw, sems
<1>7. (\A u \in Tasks : Asked(u))'
  BY DEF IInv, TypeOK, TransferPhases, Asked, InTransfer, InitReset, Goto, hw, sems
<1> QED
  BY <1>1, <1>2, <1>3, <1>4, <1>5, <1>6, <1>7 DEF IInv, TransferPhases

LEMMA InitDrainStep ==
  ASSUME NEW t \in Tasks, IInv, InitDrain(t)
  PROVE  IInv'
<1>1. TypeOK'
  BY NoneAssumption, ScenariosAssumption
     DEF IInv, TypeOK, TransferPhases, InTransfer, Faults, InitDrain, Goto, hw, sems
<1>2. Owner'
  BY NoneAssumption, ScenariosAssumption
     DEF IInv, TypeOK, TransferPhases, Owner, OnlyFaults, Active, Alone, InTransfer,
         Faults, InitDrain, Goto, hw, sems
<1>3. OnlyFaults'
  BY DEF IInv, TypeOK, TransferPhases, OnlyFaults, Faults, InitDrain, Goto, hw, sems
<1>4. (\A u, v \in Tasks : Active(u) /\ Active(v) => u = v)'
  BY NoneAssumption
     DEF IInv, TypeOK, TransferPhases, Owner, Active, Alone, InTransfer, InitDrain, Goto, hw, sems
<1>5. (\A u \in Tasks : Phase(u))'
  BY NoneAssumption, ScenariosAssumption
     DEF IInv, TypeOK, TransferPhases, OnlyFaults, Phase, Active, Clean, Ended,
         Faults, InTransfer, InitDrain, Goto, hw, sems
<1>6. ((\A u \in Tasks : ~Active(u)) => Clean)' /\ (irqs => job # None)'
  BY NoneAssumption
     DEF IInv, TypeOK, TransferPhases, Phase, Active, Clean, Ended, InTransfer,
         InitDrain, Goto, hw, sems
<1>7. (\A u \in Tasks : Asked(u))'
  BY DEF IInv, TypeOK, TransferPhases, Asked, InTransfer, InitDrain, Goto, hw, sems
<1> QED
  BY <1>1, <1>2, <1>3, <1>4, <1>5, <1>6, <1>7 DEF IInv, TransferPhases

LEMMA InitGiveStep ==
  ASSUME NEW t \in Tasks, IInv, InitGive(t)
  PROVE  IInv'
<1>1. TypeOK'
  BY NoneAssumption, ScenariosAssumption
     DEF IInv, TypeOK, TransferPhases, InTransfer, Faults, InitGive, Goto, hw, sems
<1>2. Owner'
  BY NoneAssumption, ScenariosAssumption
     DEF IInv, TypeOK, TransferPhases, Owner, OnlyFaults, Active, Alone, InTransfer,
         Faults, InitGive, Goto, hw, sems
<1>3. OnlyFaults'
  BY DEF IInv, TypeOK, TransferPhases, OnlyFaults, Faults, InitGive, Goto, hw, sems
<1>4. (\A u, v \in Tasks : Active(u) /\ Active(v) => u = v)'
  BY NoneAssumption
     DEF IInv, TypeOK, TransferPhases, Owner, Active, Alone, InTransfer, InitGive, Goto, hw, sems
<1>5. (\A u \in Tasks : Phase(u))'
  BY NoneAssumption, ScenariosAssumption
     DEF IInv, TypeOK, TransferPhases, OnlyFaults, Phase, Active, Clean, Ended,
         Faults, InTransfer, InitGive, Goto, hw, sems
<1>6. ((\A u \in Tasks : ~Active(u)) => Clean)' /\ (irqs => job # None)'
  BY NoneAssumption
     DEF IInv, TypeOK, TransferPhases, Phase, Active, Clean, Ended, InTransfer,
         InitGive, Goto, hw, sems
<1>7. (\A u \in Tasks : Asked(u))'
  BY DEF IInv, TypeOK, TransferPhases, Asked, InTransfer, InitGive, Goto, hw, sems
<1> QED
  BY <1>1, <1>2, <1>3, <1>4, <1>5, <1>6, <1>7 DEF IInv, TransferPhases

LEMMA InitEnableStep ==
  ASSUME NEW t \in Tasks, IInv, InitEnable(t)
  PROVE  IInv'
<1>1. TypeOK'
  BY NoneAssumption, ScenariosAssumption
     DEF IInv, TypeOK, TransferPhases, InTransfer, Faults, InitEnable, Goto, hw, sems
<1>2. Owner'
  BY NoneAssumption, ScenariosAssumption
     DEF IInv, TypeOK, TransferPhases, Owner, OnlyFaults, Active, Alone, InTransfer,
         Faults, InitEnable, Goto, hw, sems
<1>3. OnlyFaults'
  BY DEF IInv, TypeOK, TransferPhases, OnlyFaults, Faults, InitEnable, Goto, hw, sems
<1>4. (\A u, v \in Tasks : Active(u) /\ Active(v) => u = v)'
  BY NoneAssumption
     DEF IInv, TypeOK, TransferPhases, Owner, Active, Alone, InTransfer, InitEnable, Goto, hw, sems
<1>5. (\A u \in Tasks : Phase(u))'
  BY NoneAssumption, ScenariosAssumption
     DEF IInv, TypeOK, TransferPhases, OnlyFaults, Phase, Active, Clean, Ended,
         Faults, InTransfer, InitEnable, Goto, hw, sems
<1>6. ((\A u \in Tasks : ~Active(u)) => Clean)' /\ (irqs => job # None)'
  BY NoneAssumption
     DEF IInv, TypeOK, TransferPhases, Phase, Active, Clean, Ended, InTransfer,
         InitEnable, Goto, hw, sems
<1>7. (\A u \in Tasks : Asked(u))'
  BY DEF IInv, TypeOK, TransferPhases, Asked, InTransfer, InitEnable, Goto, hw, sems
<1> QED
  BY <1>1, <1>2, <1>3, <1>4, <1>5, <1>6, <1>7 DEF IInv, TransferPhases

LEMMA StepIInv ==
  ASSUME SafeUse, IInv, [Next]_vars
  PROVE  IInv'
<1>1. CASE UNCHANGED vars
  BY <1>1 DEF IInv, TypeOK, TransferPhases, Owner, OnlyFaults, Alone, Active,
              Asked, Phase, Clean, Ended, vars, sems, hw
<1>2. CASE TransferComplete
  BY <1>2, TransferCompleteStep
<1>3. CASE I2C1_ER_IRQHandler
  BY <1>3, I2C1_ER_IRQHandlerStep
<1>4. CASE BusFree
  BY <1>4, BusFreeStep
<1>5. ASSUME NEW t \in Tasks, Call(t) \/ Step(t)
      PROVE  IInv'
  <2>1. CASE Call(t)
    BY <2>1, CallStep
  <2>2. CASE Lock(t)
    BY <2>2, LockStep
  <2>3. CASE Unlock(t)
    BY <2>3, UnlockStep
  <2>4. CASE Setup(t)
    BY <2>4, SetupStep
  <2>5. CASE Start(t)
    BY <2>5, StartStep
  <2>6. CASE Woken(t)
    BY <2>6, WokenStep
  <2>7. CASE WaitTimeout(t)
    BY <2>7, WaitTimeoutStep
  <2>8. CASE BusyClear(t)
    BY <2>8, BusyClearStep
  <2>9. CASE BusyTimeout(t)
    BY <2>9, BusyTimeoutStep
  <2>10. CASE StatusBusError(t)
    BY <2>10, StatusBusErrorStep
  <2>11. CASE StatusNak(t)
    BY <2>11, StatusNakStep
  <2>12. CASE StatusOk(t)
    BY <2>12, StatusOkStep
  <2>13. CASE InitReset(t)
    BY <2>13, InitResetStep
  <2>14. CASE InitDrain(t)
    BY <2>14, InitDrainStep
  <2>15. CASE InitGive(t)
    BY <2>15, InitGiveStep
  <2>16. CASE InitEnable(t)
    BY <2>16, InitEnableStep
  <2> QED
    BY <1>5, <2>1, <2>2, <2>3, <2>4, <2>5, <2>6, <2>7, <2>8, <2>9, <2>10, <2>11, <2>12, <2>13, <2>14, <2>15, <2>16 DEF Step
<1> QED
  BY <1>1, <1>2, <1>3, <1>4, <1>5 DEF Next

-----------------------------------------------------------------------------
(* The theorems                                                            *)

\* The phases of a transfer (i2c_transfer, i2c_init): TypeOK and TransferPhases
\* hold in every state, for every number of tasks and every fault.
THEOREM PhasesTheorem ==
  ASSUME SafeUse
  PROVE  Spec => [](TypeOK /\ TransferPhases)
<1>1. IInv /\ [Next]_vars => IInv'
  BY StepIInv
<1> QED
  BY <1>1, InitIInv, PTL DEF Spec, IInv

\* The driver's state keeps its bounds: i2c_irq_sem is binary, however often
\* i2c_stop gives it.
THEOREM TypeCorrect ==
  ASSUME SafeUse
  PROVE  Spec => []TypeOK
<1>1. TypeOK /\ TransferPhases => TypeOK
  OBVIOUS
<1> QED
  BY <1>1, PhasesTheorem, PTL

\* The mutex "for the read/write API" admits one task at a time.
THEOREM MutualExclusionTheorem ==
  ASSUME SafeUse
  PROVE  Spec => []MutualExclusion
<1>1. TypeOK /\ TransferPhases => MutualExclusion
  BY DEF TransferPhases, MutualExclusion, Active, InTransfer
<1> QED
  BY <1>1, PhasesTheorem, PTL

\* No transfer begins with anything left over from the one before.
THEOREM CleanStartTheorem ==
  ASSUME SafeUse
  PROVE  Spec => []CleanStart
<1>1. TypeOK /\ TransferPhases => CleanStart
  BY DEF TransferPhases, CleanStart, Phase, Clean
<1> QED
  BY <1>1, PhasesTheorem, PTL

\* i2c_transfer reports success only for a transfer the bus has completed.
THEOREM OkMeansServedTheorem ==
  ASSUME SafeUse
  PROVE  Spec => OkMeansServed
<1>1. TypeOK /\ TransferPhases /\ [Next]_vars
        => [\A t \in Tasks : StatusOk(t) => t \in served]_vars
  BY ScenariosAssumption
     DEF TypeOK, TransferPhases, OnlyFaults, Phase, Ended, StatusOk, BusError, Faults
<1> QED
  BY <1>1, PhasesTheorem, PTL DEF Spec, OkMeansServed

-----------------------------------------------------------------------------
(* The driver is the service of BusService                                 *)

\* The task that is active is the one that has the bus.
LEMMA OwnerIs ==
  ASSUME TransferPhases, NEW t \in Tasks, Active(t)
  PROVE  BusOwner = t
BY DEF TransferPhases, BusOwner

LEMMA NoOwner ==
  ASSUME \A t \in Tasks : ~Active(t)
  PROVE  BusOwner = None
BY DEF BusOwner

\* Which transfer the bus has completed is a matter of the active task's own.
LEMMA ServedIs ==
  ASSUME TypeOK, TransferPhases, NEW t \in Tasks, Active(t)
  PROVE  BusServed <=> t \in served /\ pc[t] # "setup" /\ op[t] # "done"
BY DEF TypeOK, TransferPhases, BusServed

\* While one task stays active, it stays the owner.
LEMMA SameOwner ==
  ASSUME IInv, IInv', NEW t \in Tasks, Active(t), Active(t)'
  PROVE  BusOwner = t /\ BusOwner' = t
<1>1. BusOwner = t
  BY OwnerIs DEF IInv
<1>2. BusOwner' = t
  BY DEF IInv, TransferPhases, BusOwner
<1> QED
  BY <1>1, <1>2

LEMMA ServedNext ==
  ASSUME IInv', NEW t \in Tasks, Active(t)'
  PROVE  BusServed' <=> (t \in served /\ pc[t] # "setup" /\ op[t] # "done")'
BY DEF IInv, TypeOK, TransferPhases, BusServed

\* The two handlers and the STOP condition: no task moves.
LEMMA HardwareService ==
  ASSUME IInv, IInv', TransferComplete \/ I2C1_ER_IRQHandler \/ BusFree
  PROVE  [Service!Next]_(Service!vars)
<1>1. pc' = pc /\ op' = op
  BY DEF TransferComplete, I2C1_ER_IRQHandler, BusFree
<1>2. BusOwner' = BusOwner
  BY <1>1 DEF BusOwner, Active
<1>3. CASE served' = served
  BY <1>1, <1>2, <1>3 DEF BusServed, Active, Service!vars
<1>4. CASE \E t \in Tasks : Active(t)
  <2>1. PICK t \in Tasks : Active(t)
    BY <1>4
  <2>2. BusOwner = t /\ t # None
    BY <2>1, OwnerIs, NoneAssumption DEF IInv
  <2>3. BusServed' \in BOOLEAN /\ (BusServed => BusServed')
    BY <1>1 DEF BusServed, Active, TransferComplete, I2C1_ER_IRQHandler, BusFree
  <2>4. CASE BusServed' = BusServed
    BY <1>1, <1>2, <2>4 DEF Service!vars
  <2>5. CASE BusServed' # BusServed
    <3>1. BusServed' = TRUE
      BY <2>3, <2>5 DEF BusServed
    <3> QED
      BY <1>1, <1>2, <2>2, <3>1 DEF Service!Next, Service!Serve
  <2> QED
    BY <2>4, <2>5
<1>5. CASE \A t \in Tasks : ~Active(t)
  <2>1. BusServed = FALSE /\ BusServed' = FALSE
    BY <1>1, <1>5 DEF BusServed, Active, IInv, TypeOK
  <2> QED
    BY <1>1, <1>2, <2>1 DEF Service!vars
<1> QED
  BY <1>4, <1>5

LEMMA CallService ==
  ASSUME IInv, IInv', NEW t \in Tasks, Call(t)
  PROVE  Service!Next
<1>1. ~Active(t) /\ pc[t] = "idle" /\ op' \in [Tasks -> {"none", "read_reg", "read_data", "write", "done"}]
  BY DEF Call, Active, IInv, TypeOK
<1>2. \A u \in Tasks : Active(u)' = Active(u)
  BY DEF Call, Goto, Active, IInv, TypeOK
<1>3. BusOwner' = BusOwner
  BY <1>2 DEF BusOwner
<1>4. BusOwner # t
  BY <1>1, NoneAssumption DEF BusOwner
<1>5. BusServed' = BusServed
  BY <1>1, <1>2 DEF Call, Goto, BusServed, Active, IInv, TypeOK
<1>6. \E o \in {"read_reg", "write"} : op' = [op EXCEPT ![t] = o]
  BY DEF Call
<1> QED
  BY <1>3, <1>4, <1>5, <1>6 DEF Service!Next, Service!Ask

LEMMA LockService ==
  ASSUME SafeUse, IInv, IInv', NEW t \in Tasks, Lock(t)
  PROVE  Service!Next
<1>1. \A u \in Tasks : ~Active(u)
  BY NoneAssumption DEF Lock, Active, Alone, IInv, TypeOK, TransferPhases, Owner
<1>2. BusOwner = None
  BY <1>1, NoOwner
<1>3. Active(t)' /\ pc'[t] = "setup" /\ op' = op
  BY DEF Lock, Goto, Active, IInv, TypeOK
<1>4. BusOwner' = t
  BY <1>3 DEF IInv, TransferPhases, BusOwner
<1>5. BusServed = FALSE
  BY <1>1 DEF BusServed, IInv, TypeOK
<1>6. BusServed' = FALSE
  BY <1>3, ServedNext DEF BusServed
<1>7. op[t] \in {"read_reg", "write"}
  BY DEF Lock, Asked, IInv, TransferPhases
<1> QED
  BY <1>2, <1>3, <1>4, <1>5, <1>6, <1>7 DEF Service!Next, Service!Begin

LEMMA UnlockService ==
  ASSUME IInv, IInv', NEW t \in Tasks, Unlock(t)
  PROVE  Service!Next
<1>1. Active(t) /\ op' = op
  BY DEF Unlock, Active
<1>2. BusOwner = t
  BY <1>1, OwnerIs DEF IInv
<1>3. (\A u \in Tasks : ~Active(u))'
  BY <1>1 DEF Unlock, Goto, Active, IInv, TypeOK, TransferPhases
<1>4. BusOwner' = None
  BY <1>3 DEF BusOwner
<1>5. BusServed' = FALSE
  BY <1>3 DEF BusServed, IInv, TypeOK
<1> QED
  BY <1>1, <1>2, <1>4, <1>5 DEF Service!Next, Service!Return

LEMMA StatusOkService ==
  ASSUME IInv, IInv', NEW t \in Tasks, StatusOk(t)
  PROVE  Service!Next
<1>1. Active(t) /\ pc[t] = "status" /\ Active(t)'
  BY DEF StatusOk, Goto, Active, IInv, TypeOK
<1>2. BusOwner = t /\ BusOwner' = t
  BY <1>1, SameOwner
<1>3. t \in served
  BY ScenariosAssumption
     DEF IInv, TypeOK, TransferPhases, OnlyFaults, Phase, Ended, StatusOk, BusError, Faults
<1>4. op[t] \in {"read_reg", "read_data", "write"}
  BY <1>1 DEF IInv, TransferPhases, Asked, InTransfer
<1>5. BusServed = TRUE
  BY <1>1, <1>3, <1>4, ServedIs DEF IInv, BusServed
<1>6. \/ op[t] = "read_reg" /\ op' = [op EXCEPT ![t] = "read_data"] /\ pc'[t] = "setup"
      \/ op[t] \in {"read_data", "write"} /\ op' = [op EXCEPT ![t] = "done"]
  BY <1>4 DEF StatusOk, Goto, IInv, TypeOK
<1>7. BusServed' = FALSE
  BY <1>1, <1>6, ServedNext DEF BusServed, IInv, TypeOK
<1> QED
  BY <1>2, <1>5, <1>6, <1>7 DEF Service!Next, Service!Go

\* The other steps of a transfer and of i2c_init are nobody's business outside.
LEMMA TransferService ==
  ASSUME IInv, IInv', NEW t \in Tasks,
         \/ Setup(t) \/ Start(t) \/ Woken(t) \/ WaitTimeout(t) \/ BusyClear(t)
         \/ BusyTimeout(t) \/ StatusBusError(t) \/ StatusNak(t)
         \/ InitReset(t) \/ InitDrain(t) \/ InitGive(t) \/ InitEnable(t)
  PROVE  UNCHANGED Service!vars
<1>1. Active(t) /\ Active(t)' /\ op' = op
  BY DEF Setup, Start, Woken, WaitTimeout, BusyClear, BusyTimeout, StatusBusError, StatusNak,
         InitReset, InitDrain, InitGive, InitEnable, Goto, Active, IInv, TypeOK
<1>2. BusOwner = t /\ BusOwner' = t
  BY <1>1, SameOwner
<1>3. (t \in served /\ pc[t] # "setup") <=> (t \in served /\ pc[t] # "setup")'
  BY DEF Setup, Start, Woken, WaitTimeout, BusyClear, BusyTimeout, StatusBusError, StatusNak,
         InitReset, InitDrain, InitGive, InitEnable, Goto, IInv, TypeOK
<1>4. BusServed' = BusServed
  BY <1>1, <1>3, ServedIs, ServedNext DEF BusServed, IInv
<1> QED
  BY <1>1, <1>2, <1>4 DEF Service!vars

LEMMA ServiceStep ==
  ASSUME SafeUse, IInv, IInv', [Next]_vars
  PROVE  [Service!Next]_(Service!vars)
<1>1. CASE UNCHANGED vars
  BY <1>1 DEF vars, BusOwner, BusServed, Active, Service!vars
<1>2. CASE TransferComplete \/ I2C1_ER_IRQHandler \/ BusFree
  BY <1>2, HardwareService
<1>3. ASSUME NEW t \in Tasks, Call(t) \/ Step(t)
      PROVE  [Service!Next]_(Service!vars)
  BY <1>3, CallService, LockService, UnlockService, StatusOkService, TransferService DEF Step
<1> QED
  BY <1>1, <1>2, <1>3 DEF Next

LEMMA ServiceInit == Init => Service!Init
  BY DEF Init, Service!Init, BusOwner, BusServed, Active

\* i2c_read and i2c_write implement BusService: a call has the bus for itself from
\* its first transfer to its last, and success means that the bus has completed
\* them all, in order.
THEOREM DriverImplementsService ==
  ASSUME SafeUse
  PROVE  Spec => ImplementsService
<1>1. IInv /\ IInv' /\ [Next]_vars => [Service!Next]_(Service!vars)
  BY ServiceStep
<1> QED
  BY <1>1, ServiceInit, PhasesTheorem, PTL DEF Spec, IInv, ImplementsService, Service!Spec
===============================================================================

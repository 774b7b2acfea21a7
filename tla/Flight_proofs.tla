----------------------------- MODULE Flight_proofs -----------------------------
(***************************************************************************)
(* The motors, for any number of them, any times of the start sequence and *)
(* any voltages: they start from rest, keep their direction, and stand     *)
(* still while the flight control task finds no valid and armed frame.     *)
(* And the receiver that the frames come from (RcPpm): the channels of a   *)
(* PPM frame fit where they are kept, and the counter that is to end the   *)
(* frame gets to its end: for any widths, any frame, and a handler that is *)
(* late by no more than the pause that ends a frame.                       *)
(***************************************************************************)
EXTENDS Flight, RcPpm, TLAPS

Motor == [state : States, t_state : 0 .. TRun, step : 0 .. 6,
          u_pwm : -VoltageBound .. VoltageBound]

\* No place in the start sequence without a commutation step.
AtRest(m) == m.step = 0 => m.t_state = 0

\* The voltage never has the sign of the other direction.
RightSign(m, reverse) == IF reverse THEN m.u_pwm <= 0 ELSE m.u_pwm >= 0

Sound(m, reverse) == m \in Motor /\ AtRest(m) /\ RightSign(m, reverse)

-----------------------------------------------------------------------------
(* One motor, one interrupt                                                *)

LEMMA Constants ==
  /\ NumMotors \in Nat \ {0} /\ TRun \in Nat /\ TAlign \in 1 .. TRun - 1
  /\ UStart \in Nat \ {0} /\ UMax \in Nat \ {0} /\ DuMax \in Nat \ {0}
  /\ VoltageBound \in Nat /\ UStart <= VoltageBound /\ UMax <= VoltageBound
  BY FlightAssumption DEF VoltageBound

\* step_motor turns to the next step in the direction of the voltage.
NextStep(k) == IF k + 1 > 6 THEN 1 ELSE k + 1
PrevStep(k) == IF k - 1 < 1 THEN 6 ELSE k - 1

LEMMA CommutateMotor ==
  ASSUME NEW m \in Motor
  PROVE  /\ Commutate(m) \in Motor
         /\ Commutate(m).step = IF m.u_pwm >= 0 THEN NextStep(m.step) ELSE PrevStep(m.step)
         /\ Commutate(m).step # 0
         /\ Commutate(m).state = m.state /\ Commutate(m).t_state = m.t_state
         /\ Commutate(m).u_pwm = m.u_pwm
  BY DEF Motor, Commutate, NextStep, PrevStep

\* The slew of a right voltage towards a right set point gives a voltage of
\* the motor's direction, and not 0.
LEMMA SlewMotor ==
  ASSUME NEW reverse \in BOOLEAN, NEW m, Sound(m, reverse), NEW u \in 1 .. UMax
  PROVE  LET n == Slew(m, IF reverse THEN -u ELSE u)
         IN  /\ Sound(n, reverse)
             /\ n.state = m.state /\ n.t_state = m.t_state /\ n.step = m.step
             /\ IF reverse THEN n.u_pwm < 0 ELSE n.u_pwm > 0
<1> DEFINE v == IF reverse THEN -u ELSE u
           w == Clamp(v, m.u_pwm - DuMax, m.u_pwm + DuMax)
           n == Slew(m, v)
<1>1. m \in Motor /\ m.u_pwm \in -VoltageBound .. VoltageBound
  BY DEF Sound, Motor
<1>2. /\ w \in -VoltageBound .. VoltageBound
      /\ IF reverse THEN w < 0 ELSE w > 0
  BY <1>1, Constants DEF Sound, RightSign, Clamp
<1> HIDE DEF w
<1>3. n = [m EXCEPT !.u_pwm = w]
  BY DEF Slew, w
<1>4. /\ n \in Motor /\ n.u_pwm = w
      /\ n.state = m.state /\ n.t_state = m.t_state /\ n.step = m.step
  BY <1>1, <1>2, <1>3 DEF Motor
<1> QED
  BY <1>2, <1>4, Constants DEF Sound, AtRest, RightSign

LEMMA UpdateStart ==
  ASSUME NEW reverse \in BOOLEAN, NEW m, Sound(m, reverse), m.state = "START"
  PROVE  Sound(update_start(m, reverse), reverse)
<1>1. m \in Motor
  BY DEF Sound
<1>2. CASE m.t_state = TRun
  <2>1. update_start(m, reverse) = [m EXCEPT !.state = "RUNNING", !.t_state = 0]
    BY <1>2 DEF update_start, Running
  <2> DEFINE n == [m EXCEPT !.state = "RUNNING", !.t_state = 0]
  <2>2. n \in Motor /\ n.t_state = 0 /\ n.u_pwm = m.u_pwm
    <3>1. 0 \in 0 .. TRun /\ "RUNNING" \in States
      BY Constants DEF States
    <3> QED
      BY <1>1, <3>1 DEF Motor
  <2> HIDE DEF n
  <2>3. Sound(n, reverse)
    BY <2>2 DEF Sound, AtRest, RightSign
  <2> QED
    BY <2>1, <2>3 DEF n
<1>3. CASE m.t_state # TRun
  <2> DEFINE brake == [m EXCEPT !.u_pwm = 0]
             align == [m EXCEPT !.u_pwm = IF reverse THEN -UStart ELSE UStart]
             moved == IF m.t_state = 0 THEN Commutate(brake)
                      ELSE IF m.t_state = TAlign THEN Commutate(align)
                      ELSE IF m.t_state \in TSteps THEN Commutate(m)
                      ELSE m
  <2>1. update_start(m, reverse) = [moved EXCEPT !.t_state = @ + 1]
    BY <1>3 DEF update_start
  <2>2. brake \in Motor /\ brake.u_pwm = 0 /\ brake.t_state = m.t_state
    BY <1>1, Constants DEF Motor
  <2>3. align \in Motor /\ RightSign(align, reverse) /\ align.t_state = m.t_state
    BY <1>1, Constants DEF Motor, RightSign
  <2> HIDE DEF brake, align
  <2>4. /\ moved \in Motor /\ RightSign(moved, reverse)
        /\ moved.t_state = m.t_state /\ moved.step # 0
    <3>1. CASE m.t_state = 0
      BY <2>2, <3>1, CommutateMotor DEF RightSign
    <3>2. CASE m.t_state # 0 /\ m.t_state = TAlign
      BY <2>3, <3>2, CommutateMotor DEF RightSign
    <3>3. CASE m.t_state # 0 /\ m.t_state # TAlign /\ m.t_state \in TSteps
      BY <1>1, <3>3, CommutateMotor DEF Sound, RightSign
    <3>4. CASE m.t_state # 0 /\ m.t_state # TAlign /\ m.t_state \notin TSteps
      BY <1>1, <3>4 DEF Sound, AtRest
    <3> QED
      BY <3>1, <3>2, <3>3, <3>4
  <2> HIDE DEF moved
  <2>5. moved.t_state + 1 \in 0 .. TRun
    BY <1>1, <1>3, <2>4, Constants DEF Motor
  <2> QED
    BY <2>1, <2>4, <2>5 DEF Sound, Motor, AtRest, RightSign
<1> QED
  BY <1>2, <1>3

\* One interrupt: the motor stays sound; a running one that goes on running
\* commutates in its direction only; a stopped one stays stopped, without a step.
LEMMA UpdateMotor ==
  ASSUME NEW reverse \in BOOLEAN, NEW m, Sound(m, reverse), NEW u \in 1 .. UMax,
         NEW n \in update_motor(m, u, reverse)
  PROVE  /\ Sound(n, reverse)
         /\ m.state = "RUNNING" /\ n.step # m.step =>
              n.step = IF reverse THEN PrevStep(m.step) ELSE NextStep(m.step)
         /\ m.state = "STOP" => n.state = "STOP" /\ n.step = 0
<1>1. m \in Motor /\ m.state \in States
  BY DEF Sound, Motor
<1>2. CASE m.state = "STOP"
  <2>1. n = [m EXCEPT !.u_pwm = 0, !.step = 0, !.t_state = 0]
    BY <1>2 DEF update_motor
  <2>2. 0 \in 0 .. TRun /\ 0 \in -VoltageBound .. VoltageBound /\ 0 \in 0 .. 6
    BY Constants
  <2>3. n \in Motor /\ n.u_pwm = 0 /\ n.step = 0 /\ n.t_state = 0 /\ n.state = "STOP"
    BY <1>1, <1>2, <2>1, <2>2 DEF Motor
  <2> QED
    BY <1>2, <2>3 DEF Sound, AtRest, RightSign
<1>3. CASE m.state = "START"
  <2>1. n = update_start(m, reverse)
    BY <1>3 DEF update_motor
  <2> QED
    BY <1>3, <2>1, UpdateStart
<1>4. CASE m.state = "RUNNING"
  <2> DEFINE running == Slew(m, IF reverse THEN -u ELSE u)
  <2>1. n \in {running, Commutate(running)}
    BY <1>4 DEF update_motor
  <2>2. /\ Sound(running, reverse) /\ running.step = m.step /\ running.state = "RUNNING"
        /\ IF reverse THEN running.u_pwm < 0 ELSE running.u_pwm > 0
    BY <1>4, SlewMotor
  <2> HIDE DEF running
  <2>3. running \in Motor /\ running.u_pwm \in Int
    BY <2>2 DEF Sound, Motor
  <2>4. CASE n = running
    BY <1>4, <2>2, <2>4
  <2>5. CASE n = Commutate(running)
    <3>1. /\ n \in Motor /\ n.step # 0 /\ n.u_pwm = running.u_pwm
          /\ n.step = IF running.u_pwm >= 0 THEN NextStep(m.step) ELSE PrevStep(m.step)
      BY <2>2, <2>3, <2>5, CommutateMotor
    <3> QED
      BY <1>4, <2>2, <2>3, <3>1 DEF Sound, AtRest, RightSign
  <2> QED
    BY <2>1, <2>4, <2>5
<1>5. CASE m.state = "ERROR"
  BY <1>5 DEF update_motor
<1> QED
  BY <1>1, <1>2, <1>3, <1>4, <1>5 DEF States

-----------------------------------------------------------------------------
(* All motors and the task                                                 *)

\* What FcStop has been to is stopped, and stays so while the task sleeps.
Stopped ==
    /\ fc.pc = "stop" => ~fc.ok /\ \A m \in 1 .. fc.i - 1 : motor[m].state = "STOP"
    /\ fc.pc \in {"setpoint", "start"} => fc.ok
    /\ fc.pc = "sleep" /\ ~fc.ok => \A m \in Motors : motor[m].state = "STOP"
    /\ fc.pc = "delay" /\ ~fc.old_ok => \A m \in Motors : motor[m].state = "STOP"

IInv == /\ TypeOK
        /\ \A m \in Motors : Sound(motor[m], m \in Reversed)
        /\ Stopped

LEMMA FirstMotor == 1 \in Motors
  BY Constants DEF Motors

LEMMA InitIInv == Init => IInv
<1> SUFFICES ASSUME Init PROVE IInv
  OBVIOUS
<1>1. 0 \in 0 .. TRun /\ 0 \in -VoltageBound .. VoltageBound /\ 1 \in 1 .. UMax
      /\ 0 \in 0 .. RcTimeout + 1 /\ 0 \in 0 .. 6
  BY Constants, FlightAssumption
<1>2. motor \in [Motors -> Motor]
  BY <1>1 DEF Init, Motor
<1>3. TypeOK
  BY <1>1, <1>2, FirstMotor DEF Init, TypeOK, Motor
<1>4. ASSUME NEW m \in Motors PROVE Sound(motor[m], m \in Reversed)
  <2>1. motor[m] \in Motor /\ motor[m].t_state = 0 /\ motor[m].u_pwm = 0
    BY <1>2 DEF Init
  <2> QED
    BY <2>1 DEF Sound, AtRest, RightSign
<1>5. Stopped
  BY DEF Init, Stopped
<1> QED
  BY <1>3, <1>4, <1>5 DEF IInv

\* Steps of the radio and of the shell.
LEMMA RadioStep ==
  ASSUME IInv, FrameEnd \/ LinkLost \/ Tick \/ SetRcMode \/ cmd_rc_show
  PROVE  IInv' /\ UNCHANGED <<fc, motor, out>>
<1>1. UNCHANGED <<fc, u_d, motor, errors, out>>
  BY DEF FrameEnd, LinkLost, Tick, SetRcMode, cmd_rc_show, drive
<1>2. /\ link' \in BOOLEAN /\ rc_mode' \in RcModes
      /\ ppm' \in [armed : BOOLEAN, age : 0 .. RcTimeout + 1]
  <2>1. ppm \in [armed : BOOLEAN, age : 0 .. RcTimeout + 1] /\ RcTimeout \in Nat
    BY FlightAssumption DEF IInv, TypeOK
  <2>2. CASE FrameEnd
    BY <2>1, <2>2 DEF FrameEnd, IInv, TypeOK
  <2>3. CASE LinkLost \/ SetRcMode
    BY <2>3 DEF LinkLost, SetRcMode, IInv, TypeOK
  <2>4. CASE Tick
    BY <2>1, <2>4 DEF Tick, IInv, TypeOK
  <2>5. CASE cmd_rc_show
    BY <2>1, <2>5 DEF cmd_rc_show, Expiry, Expired, IInv, TypeOK
  <2> QED
    BY <2>2, <2>3, <2>4, <2>5
<1>3. TypeOK'
  BY <1>1, <1>2 DEF IInv, TypeOK
<1>4. (\A m \in Motors : Sound(motor[m], m \in Reversed))' /\ Stopped'
  BY <1>1 DEF IInv, Stopped, Sound, AtRest, RightSign
<1> QED
  BY <1>1, <1>3, <1>4 DEF IInv

Positions == {"startup", "delay", "setpoint", "start", "stop", "sleep"}

LEMMA NextMotorFields ==
  ASSUME TypeOK, NEW label \in Positions, NEW next \in Positions, NextMotor(label, next)
  PROVE  /\ fc' \in [pc : Positions, i : Motors, ok : BOOLEAN, old_ok : BOOLEAN]
         /\ fc'.ok = fc.ok /\ fc'.old_ok = fc.old_ok
         /\ \/ fc'.pc = label /\ fc'.i = fc.i + 1
            \/ fc'.pc = next /\ fc.i = NumMotors
<1>1. fc \in [pc : Positions, i : Motors, ok : BOOLEAN, old_ok : BOOLEAN]
  BY DEF TypeOK, Positions
<1>2. fc.i \in 1 .. NumMotors /\ NumMotors \in Nat \ {0}
  BY <1>1, Constants DEF Motors
<1>3. CASE fc.i < NumMotors
  <2>1. fc' = [fc EXCEPT !.pc = label, !.i = @ + 1] /\ fc.i + 1 \in Motors
    BY <1>2, <1>3 DEF NextMotor, Motors
  <2> QED
    BY <1>1, <2>1
<1>4. CASE ~(fc.i < NumMotors)
  <2>1. fc' = [fc EXCEPT !.pc = next, !.i = 1] /\ fc.i = NumMotors
    BY <1>2, <1>4 DEF NextMotor
  <2> QED
    BY <1>1, <2>1, FirstMotor
<1> QED
  BY <1>3, <1>4

LEMMA ReadStep ==
  ASSUME IInv, FcRead
  PROVE  IInv' /\ UNCHANGED <<motor, out>>
<1>1. UNCHANGED <<link, rc_mode, u_d, motor, errors, out>>
  BY DEF FcRead, drive
<1> DEFINE ok == RcUpdate(fc.ok)
<1>2. /\ fc' = [fc EXCEPT !.ok = ok, !.i = 1, !.pc = IF ok THEN "setpoint" ELSE "stop"]
      /\ Expiry
  BY DEF FcRead
<1>3. /\ ppm \in [armed : BOOLEAN, age : 0 .. RcTimeout + 1]
      /\ fc \in [pc : Positions, i : Motors, ok : BOOLEAN, old_ok : BOOLEAN]
      /\ rc_mode \in {"PPM", "NONE", "DSM2"}
  BY FlightAssumption DEF IInv, TypeOK, Positions
<1>4. Expired \in [armed : BOOLEAN, age : 0 .. RcTimeout + 1]
  BY <1>3 DEF Expired
<1>5. ok \in BOOLEAN
  <2>1. Expired.armed \in BOOLEAN /\ fc.ok \in BOOLEAN
    BY <1>3, <1>4
  <2> QED
    BY <1>3, <2>1 DEF RcUpdate
<1>6. ppm' \in [armed : BOOLEAN, age : 0 .. RcTimeout + 1]
  BY <1>2, <1>3, <1>4 DEF Expiry
<1> HIDE DEF ok
<1>7. /\ fc' \in [pc : Positions, i : Motors, ok : BOOLEAN, old_ok : BOOLEAN]
      /\ fc'.i = 1 /\ fc'.ok = ok /\ fc'.pc = IF ok THEN "setpoint" ELSE "stop"
  <2>1. (IF ok THEN "setpoint" ELSE "stop") \in Positions
    BY DEF Positions
  <2> QED
    BY <1>2, <1>3, <1>5, <2>1, FirstMotor
<1>8. TypeOK'
  BY <1>1, <1>6, <1>7 DEF IInv, TypeOK, Positions
<1>9. Stopped'
  <2>1. \A m \in 1 .. fc'.i - 1 : motor'[m].state = "STOP"
    BY <1>7
  <2> QED
    BY <1>5, <1>7, <2>1 DEF Stopped
<1>10. (\A m \in Motors : Sound(motor[m], m \in Reversed))'
  BY <1>1 DEF IInv, Sound, AtRest, RightSign
<1> QED
  BY <1>1, <1>8, <1>9, <1>10 DEF IInv

LEMMA SetpointStep ==
  ASSUME IInv, FcSetpoint
  PROVE  IInv' /\ UNCHANGED <<motor, out>>
<1> DEFINE next == IF fc.old_ok THEN "sleep" ELSE "start"
<1>1. /\ UNCHANGED <<link, rc_mode, ppm, motor, errors, out>>
      /\ fc.pc = "setpoint" /\ NextMotor("setpoint", next)
  BY DEF FcSetpoint, radio, drive
<1>2. "setpoint" \in Positions /\ next \in {"sleep", "start"} /\ next \in Positions
  BY DEF Positions
<1> HIDE DEF next
<1>3. /\ fc' \in [pc : Positions, i : Motors, ok : BOOLEAN, old_ok : BOOLEAN]
      /\ fc'.ok = fc.ok /\ fc'.pc \in {"setpoint", "sleep", "start"}
  BY <1>1, <1>2, NextMotorFields DEF IInv
<1>4. u_d' \in [Motors -> 1 .. UMax]
  BY DEF FcSetpoint, IInv, TypeOK
<1>5. TypeOK'
  BY <1>1, <1>3, <1>4 DEF IInv, TypeOK, Positions
<1>6. Stopped'
  BY <1>1, <1>3 DEF IInv, Stopped
<1>7. (\A m \in Motors : Sound(motor[m], m \in Reversed))'
  BY <1>1 DEF IInv, Sound, AtRest, RightSign
<1> QED
  BY <1>1, <1>5, <1>6, <1>7 DEF IInv

\* The task changes nothing of a motor but its state.
LEMMA SetState ==
  ASSUME IInv, NEW i \in Motors, NEW s \in States, motor' = [motor EXCEPT ![i].state = s]
  PROVE  /\ motor' \in [Motors -> Motor]
         /\ \A m \in Motors : /\ Sound(motor'[m], m \in Reversed)
                              /\ motor'[m].step = motor[m].step
                              /\ motor'[m].state = IF m = i THEN s ELSE motor[m].state
<1>1. motor \in [Motors -> Motor]
  BY DEF IInv, TypeOK, Motor
<1>2. ASSUME NEW m \in Motors
      PROVE  /\ motor'[m] = IF m = i THEN [motor[m] EXCEPT !.state = s] ELSE motor[m]
             /\ motor[m] \in Motor
  BY <1>1
<1> DEFINE n(m) == [motor[m] EXCEPT !.state = s]
<1>3. ASSUME NEW m \in Motors
      PROVE  /\ n(m) \in Motor /\ n(m).state = s /\ n(m).step = motor[m].step
             /\ n(m).t_state = motor[m].t_state /\ n(m).u_pwm = motor[m].u_pwm
  BY <1>2 DEF Motor
<1> HIDE DEF n
<1>4. ASSUME NEW m \in Motors
      PROVE  /\ Sound(motor'[m], m \in Reversed)
             /\ motor'[m].step = motor[m].step
             /\ motor'[m].state = IF m = i THEN s ELSE motor[m].state
             /\ motor'[m] \in Motor
  <2>1. CASE m = i
    <3>1. motor'[m] = n(m)
      BY <1>2, <2>1 DEF n
    <3> QED
      BY <1>3, <2>1, <3>1 DEF IInv, Sound, AtRest, RightSign
  <2>2. CASE m # i
    BY <1>2, <2>2 DEF IInv, Sound
  <2> QED
    BY <2>1, <2>2
<1>5. motor' \in [Motors -> Motor]
  <2>1. motor' = [m \in Motors |-> motor'[m]]
    BY <1>1
  <2> QED
    BY <1>4, <2>1
<1> QED
  BY <1>4, <1>5

LEMMA StartStep ==
  ASSUME IInv, FcStart
  PROVE  IInv' /\ (\A m \in Motors : motor'[m].step = motor[m].step)
<1>1. /\ UNCHANGED <<link, rc_mode, ppm, u_d, errors, out>> /\ fc.pc = "start"
      /\ motor' = [motor EXCEPT ![fc.i].state = "START"] /\ NextMotor("start", "sleep")
  BY DEF FcStart, radio, drive
<1>2. "start" \in Positions /\ "sleep" \in Positions /\ "START" \in States /\ fc.i \in Motors
  BY DEF Positions, States, IInv, TypeOK
<1>3. /\ fc' \in [pc : Positions, i : Motors, ok : BOOLEAN, old_ok : BOOLEAN]
      /\ fc'.ok = fc.ok /\ fc'.pc \in {"start", "sleep"}
  BY <1>1, <1>2, NextMotorFields DEF IInv
<1>4. /\ motor' \in [Motors -> Motor]
      /\ \A m \in Motors : Sound(motor'[m], m \in Reversed) /\ motor'[m].step = motor[m].step
  BY <1>1, <1>2, SetState
<1>5. TypeOK'
  BY <1>1, <1>3, <1>4 DEF IInv, TypeOK, Positions, Motor
<1>6. Stopped'
  BY <1>1, <1>3 DEF IInv, Stopped
<1>7. (\A m \in Motors : Sound(motor[m], m \in Reversed))'
  BY <1>4 DEF Sound, AtRest, RightSign
<1> QED
  BY <1>4, <1>5, <1>6, <1>7 DEF IInv

LEMMA StopStep ==
  ASSUME IInv, FcStop
  PROVE  IInv' /\ (\A m \in Motors : motor'[m].step = motor[m].step)
<1>1. /\ UNCHANGED <<link, rc_mode, ppm, u_d, errors, out>> /\ fc.pc = "stop"
      /\ motor' = [motor EXCEPT ![fc.i].state = "STOP"] /\ NextMotor("stop", "sleep")
  BY DEF FcStop, radio, drive
<1>2. "stop" \in Positions /\ "sleep" \in Positions /\ "STOP" \in States /\ fc.i \in Motors
  BY DEF Positions, States, IInv, TypeOK
<1>3. /\ fc' \in [pc : Positions, i : Motors, ok : BOOLEAN, old_ok : BOOLEAN]
      /\ fc'.ok = fc.ok
      /\ \/ fc'.pc = "stop" /\ fc'.i = fc.i + 1
         \/ fc'.pc = "sleep" /\ fc.i = NumMotors
  BY <1>1, <1>2, NextMotorFields DEF IInv
<1>4. /\ motor' \in [Motors -> Motor]
      /\ \A m \in Motors : /\ Sound(motor'[m], m \in Reversed)
                           /\ motor'[m].step = motor[m].step
                           /\ motor'[m].state = IF m = fc.i THEN "STOP" ELSE motor[m].state
  BY <1>1, <1>2, SetState
<1>5. TypeOK'
  BY <1>1, <1>3, <1>4 DEF IInv, TypeOK, Positions, Motor
<1>6. Stopped'
  <2>1. ~fc.ok /\ \A m \in 1 .. fc.i - 1 : motor[m].state = "STOP"
    BY <1>1 DEF IInv, Stopped
  <2>2. fc.i \in Nat /\ 1 <= fc.i /\ fc.i <= NumMotors /\ NumMotors \in Nat
    BY <1>2, Constants DEF Motors
  <2>3. \A m \in 1 .. fc.i : motor'[m].state = "STOP"
    BY <1>4, <2>1, <2>2 DEF Motors
  <2>4. CASE fc'.pc = "stop" /\ fc'.i = fc.i + 1
    BY <1>3, <2>1, <2>2, <2>3, <2>4 DEF Stopped
  <2>5. CASE fc'.pc = "sleep" /\ fc.i = NumMotors
    BY <1>3, <2>1, <2>3, <2>5 DEF Stopped, Motors
  <2> QED
    BY <1>3, <2>4, <2>5
<1>7. (\A m \in Motors : Sound(motor[m], m \in Reversed))'
  BY <1>4 DEF Sound, AtRest, RightSign
<1> QED
  BY <1>4, <1>5, <1>6, <1>7 DEF IInv

LEMMA SleepStep ==
  ASSUME IInv, FcSleep
  PROVE  IInv' /\ UNCHANGED <<motor, out>>
<1>1. /\ UNCHANGED <<link, rc_mode, ppm, u_d, motor, errors, out>> /\ fc.pc = "sleep"
      /\ fc' = [fc EXCEPT !.pc = "delay", !.old_ok = fc.ok]
  BY DEF FcSleep, radio, drive
<1>2. fc \in [pc : Positions, i : Motors, ok : BOOLEAN, old_ok : BOOLEAN]
  BY DEF IInv, TypeOK, Positions
<1>3. /\ fc' \in [pc : Positions, i : Motors, ok : BOOLEAN, old_ok : BOOLEAN]
      /\ fc'.pc = "delay" /\ fc'.old_ok = fc.ok
  BY <1>1, <1>2 DEF Positions
<1>4. TypeOK'
  BY <1>1, <1>3 DEF IInv, TypeOK, Positions
<1>5. Stopped'
  BY <1>1, <1>3 DEF IInv, Stopped
<1>6. (\A m \in Motors : Sound(motor[m], m \in Reversed))'
  BY <1>1 DEF IInv, Sound, AtRest, RightSign
<1> QED
  BY <1>1, <1>4, <1>5, <1>6 DEF IInv

-----------------------------------------------------------------------------
(* The motor interrupt                                                     *)

LEMMA InterruptStep ==
  ASSUME IInv, DMA2_Stream0_IRQHandler
  PROVE  /\ IInv'
         /\ \A m \in Motors : motor'[m] \in update_motor(motor[m], u_d[m], m \in Reversed)
         /\ \A m \in Motors : motor[m].state = "STOP" => out'[m] = 0
<1>1. /\ UNCHANGED <<link, rc_mode, ppm, fc, u_d>>
      /\ \A m \in Motors : motor'[m] \in update_motor(motor[m], u_d[m], m \in Reversed)
      /\ out' = [m \in Motors |-> IF errors' = {} THEN motor'[m].step ELSE 0]
      /\ \E s \in Measurements : check_limits(s[1], s[2])
  BY DEF DMA2_Stream0_IRQHandler, radio
<1>2. ASSUME NEW m \in Motors
      PROVE  /\ Sound(motor'[m], m \in Reversed) /\ motor'[m] \in Motor
             /\ motor[m].state = "STOP" => motor'[m].state = "STOP" /\ motor'[m].step = 0
  <2>1. Sound(motor[m], m \in Reversed) /\ u_d[m] \in 1 .. UMax
    BY DEF IInv, TypeOK
  <2>2. motor'[m] \in update_motor(motor[m], u_d[m], m \in Reversed)
    BY <1>1
  <2> DEFINE reverse == m \in Reversed
             old == motor[m]
             new == motor'[m]
  <2>3. reverse \in BOOLEAN
    OBVIOUS
  <2>4. Sound(old, reverse) /\ new \in update_motor(old, u_d[m], reverse)
    BY <2>1, <2>2
  <2> HIDE DEF reverse, old, new
  <2>5. Sound(new, reverse) /\ (old.state = "STOP" => new.state = "STOP" /\ new.step = 0)
    BY <2>1, <2>3, <2>4, UpdateMotor
  <2> QED
    BY <2>5 DEF Sound, reverse, old, new
<1>3. motor' \in [Motors -> Motor]
  <2> DEFINE all == UNION {update_motor(motor[m], u_d[m], m \in Reversed) : m \in Motors}
  <2>1. motor' \in [Motors -> all]
    BY DEF DMA2_Stream0_IRQHandler
  <2> HIDE DEF all
  <2>2. motor' = [m \in Motors |-> motor'[m]]
    BY <2>1
  <2> QED
    BY <1>2, <2>2
<1>4. errors' \subseteq {"u_bat_min", "u_bat_max", "fet_temp"}
  BY <1>1 DEF check_limits, IInv, TypeOK
<1>5. out' \in [Motors -> 0 .. 6]
  <2>1. \A m \in Motors : (IF errors' = {} THEN motor'[m].step ELSE 0) \in 0 .. 6
    BY <1>2 DEF Motor
  <2> QED
    BY <1>1, <2>1
<1>6. TypeOK'
  BY <1>1, <1>3, <1>4, <1>5 DEF IInv, TypeOK, Motor
<1>7. Stopped'
  <2>1. CASE fc.pc = "stop"
    <3>1. fc.i \in Motors
      BY DEF IInv, TypeOK
    <3>2. \A m \in 1 .. fc.i - 1 : m \in Motors
      BY <3>1, Constants DEF Motors
    <3> QED
      BY <1>1, <1>2, <2>1, <3>2 DEF IInv, Stopped
  <2>2. CASE fc.pc # "stop"
    BY <1>1, <1>2, <2>2 DEF IInv, Stopped
  <2> QED
    BY <2>1, <2>2
<1>8. \A m \in Motors : motor[m].state = "STOP" => out'[m] = 0
  BY <1>1, <1>2
<1> QED
  BY <1>1, <1>2, <1>6, <1>7, <1>8 DEF IInv

-----------------------------------------------------------------------------
(* The specification                                                       *)

\* Only the motor interrupt commutates.
LEMMA OtherStep ==
  ASSUME IInv, [Next]_vars, ~DMA2_Stream0_IRQHandler
  PROVE  IInv' /\ (\A m \in Motors : motor'[m].step = motor[m].step)
<1>1. CASE FrameEnd \/ LinkLost \/ Tick \/ SetRcMode \/ cmd_rc_show
  BY <1>1, RadioStep
<1>2. CASE FcRead
  BY <1>2, ReadStep
<1>3. CASE FcSetpoint
  BY <1>3, SetpointStep
<1>4. CASE FcStart
  BY <1>4, StartStep
<1>5. CASE FcStop
  BY <1>5, StopStep
<1>6. CASE FcSleep
  BY <1>6, SleepStep
<1>7. CASE UNCHANGED vars
  BY <1>7 DEF vars, radio, drive, IInv, TypeOK, Stopped, Sound, AtRest, RightSign
<1> QED
  BY <1>1, <1>2, <1>3, <1>4, <1>5, <1>6, <1>7 DEF Next, flight_ctrl

LEMMA NextIInv == IInv /\ [Next]_vars => IInv'
  BY OtherStep, InterruptStep

LEMMA Invariance == Spec => []IInv
  BY InitIInv, NextIInv, PTL DEF Spec

\* Frames, positions of the task, states, steps and voltages of the motors
\* stay in their ranges: the step is always an index of the commutation table,
\* and the voltage never exceeds the clamp or the one of the alignment.
THEOREM TypeCorrect == Spec => []TypeOK
<1>1. IInv => TypeOK
  BY DEF IInv
<1> QED
  BY <1>1, Invariance, PTL

\* For any times of the start sequence and any interleaving of flight_ctrl with
\* the motor interrupt, a motor without a commutation step that is to start is
\* at the beginning of its start sequence.
THEOREM RestTheorem == Spec => []StartsFromRest
<1>1. IInv => StartsFromRest
  BY DEF IInv, StartsFromRest, Sound, AtRest
<1> QED
  BY <1>1, Invariance, PTL

\* For any number of motors and any setpoints and slew limit, a running motor
\* commutates only in the direction of its parameter "reverse".
THEOREM DirectionTheorem == Spec => KeepsDirection
<1> DEFINE Keeps ==
      \A m \in Motors :
         /\ motor[m].state = "RUNNING" /\ motor'[m].state = "RUNNING"
         /\ motor'[m].step # motor[m].step
         => motor'[m].step = IF m \in Reversed
                             THEN IF motor[m].step > 1 THEN motor[m].step - 1 ELSE 6
                             ELSE (motor[m].step % 6) + 1
<1>1. ASSUME NEW k \in 0 .. 6
      PROVE  /\ NextStep(k) = (k % 6) + 1
             /\ PrevStep(k) = IF k > 1 THEN k - 1 ELSE 6
  BY DEF NextStep, PrevStep
<1>2. IInv /\ [Next]_vars => [Keeps]_vars
  <2> SUFFICES ASSUME IInv, [Next]_vars PROVE Keeps
    OBVIOUS
  <2>1. CASE ~DMA2_Stream0_IRQHandler
    BY <2>1, OtherStep
  <2>2. CASE DMA2_Stream0_IRQHandler
    <3> SUFFICES ASSUME NEW m \in Motors, motor[m].state = "RUNNING",
                        motor'[m].step # motor[m].step
                 PROVE  motor'[m].step = IF m \in Reversed
                             THEN IF motor[m].step > 1 THEN motor[m].step - 1 ELSE 6
                             ELSE (motor[m].step % 6) + 1
      OBVIOUS
    <3>1. /\ Sound(motor[m], m \in Reversed) /\ u_d[m] \in 1 .. UMax
          /\ motor[m].step \in 0 .. 6 /\ (m \in Reversed) \in BOOLEAN
      BY DEF IInv, TypeOK
    <3>2. motor'[m] \in update_motor(motor[m], u_d[m], m \in Reversed)
      BY <2>2, InterruptStep
    <3>3. motor'[m].step = IF m \in Reversed THEN PrevStep(motor[m].step)
                                             ELSE NextStep(motor[m].step)
      <4> DEFINE reverse == m \in Reversed
                 old == motor[m]
                 new == motor'[m]
      <4>1. reverse \in BOOLEAN
        OBVIOUS
      <4>2. /\ Sound(old, reverse) /\ new \in update_motor(old, u_d[m], reverse)
            /\ old.state = "RUNNING" /\ new.step # old.step
        BY <3>1, <3>2
      <4> HIDE DEF reverse, old, new
      <4>3. new.step = IF reverse THEN PrevStep(old.step) ELSE NextStep(old.step)
        BY <3>1, <4>1, <4>2, UpdateMotor
      <4> QED
        BY <4>3 DEF reverse, old, new
    <3> QED
      BY <1>1, <3>1, <3>3
  <2> QED
    BY <2>1, <2>2
<1> QED
  BY <1>2, Invariance, PTL DEF Spec, KeepsDirection

\* For any number of motors in any saved state: between two iterations of
\* flight_ctrl that found no valid and armed frame, the motor interrupt
\* switches every output off.
THEOREM StoppedTheorem == Spec => StoppedWhenDisarmed
<1> DEFINE Off == DMA2_Stream0_IRQHandler /\ fc.pc = "delay" /\ ~fc.old_ok
                    => \A m \in Motors : out'[m] = 0
<1>1. IInv /\ [Next]_vars => [Off]_vars
  BY InterruptStep DEF IInv, Stopped
<1> QED
  BY <1>1, Invariance, PTL DEF Spec, StoppedWhenDisarmed

-----------------------------------------------------------------------------
(* The PPM decoder: one edge, and what the handler makes of it             *)

Registers ==
    [cnt : 0 .. Modulus - 1, cen : BOOLEAN, arr : 0 .. Modulus - 1,
     ccr2 : 0 .. Modulus - 1, cc2if : BOOLEAN, uif : BOOLEAN]

Frames == [valid : BOOLEAN, channels : Seq(min_width .. max_width - 1), t0 : 0 .. Modulus - 1]

Wire == [next : Nat, width : Widths \cup {0}, sent : Seq(Widths), time : 0 .. FrameLimit]

LEMMA PpmConstants ==
  /\ min_width \in Nat /\ max_width \in Nat /\ sync_width \in Nat
  /\ FrameLimit \in Nat /\ Modulus \in Nat /\ RC_MAX_CHANNELS \in Nat
  /\ 0 < min_width /\ min_width < max_width /\ max_width < sync_width
  /\ 0 < FrameLimit /\ FrameLimit + sync_width <= Modulus
  /\ Widths \subseteq Nat /\ expected_channels \in Nat
  /\ \A s \in Scenarios : s.latency \in 0 .. sync_width
  BY RcPpmAssumption

LEMMA LatencyIs ==
  ASSUME PpmTypeOK
  PROVE  Latency \in 0 .. sync_width /\ Pause \in Nat
<1>1. use.latency \in 0 .. sync_width
      BY PpmConstants DEF PpmTypeOK
<1> QED  BY <1>1, PpmConstants DEF Latency, Pause

\* The time of an edge on the counter comes out of its distance from the last one.
LEMMA Distance ==
  ASSUME NEW t0 \in 0 .. Modulus - 1, NEW ccr2 \in 0 .. Modulus - 1
  PROVE  LET t == (ccr2 - t0) % Modulus
         IN  t \in 0 .. Modulus - 1 /\ (t0 + t) % Modulus = ccr2
<1>1. Modulus \in Nat \ {0}
      BY PpmConstants
<1>2. CASE ccr2 >= t0
  <2>1. (ccr2 - t0) % Modulus = ccr2 - t0
        BY <1>1, <1>2
  <2> QED  BY <1>1, <1>2, <2>1
<1>3. CASE ccr2 < t0
  <2>1. (ccr2 - t0) % Modulus = ccr2 - t0 + Modulus
        BY <1>1, <1>3
  <2> QED  BY <1>1, <1>3, <2>1
<1> QED  BY <1>2, <1>3

-----------------------------------------------------------------------------
(* The decoder's registers and channels                                    *)

LEMMA TypeParts ==
  PpmTypeOK <=> /\ use \in Scenarios /\ quiet \in BOOLEAN
             /\ wire \in Wire /\ tim \in Registers /\ isr \in Flags
             /\ frame \in Frames /\ Len(frame.channels) <= RC_MAX_CHANNELS
             /\ rc_ppm_input \in [valid : BOOLEAN]
  BY DEF PpmTypeOK, Wire, Registers, Frames

LEMMA TypeInit == PpmInit => PpmTypeOK
<1> SUFFICES ASSUME PpmInit PROVE PpmTypeOK
  OBVIOUS
<1>1. use \in Scenarios /\ use.latency \in Nat
      BY PpmConstants DEF PpmInit
<1>2. wire \in Wire
  <2>1. <<>> \in Seq(Widths) /\ 0 \in 0 .. FrameLimit
        BY PpmConstants
  <2>2. CASE wire = [next |-> use.latency + 1, width |-> 0, sent |-> <<>>, time |-> 0]
    <3>1. use.latency + 1 \in Nat
          BY <1>1
    <3> QED  BY <2>1, <2>2, <3>1 DEF Wire
  <2>3. CASE \E w \in Widths : wire = [next |-> 1, width |-> w, sent |-> <<>>, time |-> 0]
        BY <2>1, <2>3 DEF Wire
  <2> QED  BY <2>2, <2>3 DEF PpmInit
<1>3. tim \in Registers
      BY PpmConstants DEF PpmInit, Registers
<1>4. isr \in Flags /\ quiet \in BOOLEAN /\ rc_ppm_input \in [valid : BOOLEAN]
      BY DEF PpmInit, Flags
<1>5. frame = [valid |-> FALSE, channels |-> <<>>, t0 |-> 0]
      BY DEF PpmInit
<1>6. frame \in Frames /\ Len(frame.channels) <= RC_MAX_CHANNELS
      BY <1>5, PpmConstants DEF Frames
<1> QED  BY <1>1, <1>2, <1>3, <1>4, <1>6, TypeParts

LEMMA CapturedType ==
  ASSUME PpmTypeOK
  PROVE  Captured \in Registers
  BY DEF PpmTypeOK, Captured, Registers

LEMMA SentType ==
  ASSUME PpmTypeOK, wire.width # 0
  PROVE  Sent \in Seq(Widths) /\ Time \in 0 .. FrameLimit
<1>1. wire.width \in Widths /\ wire.sent \in Seq(Widths) /\ wire.time \in 0 .. FrameLimit
      BY DEF PpmTypeOK
<1>2. wire.width \in Nat
      BY <1>1, PpmConstants
<1> QED  BY <1>1, <1>2, PpmConstants DEF Sent, Time

LEMMA CountedType ==
  ASSUME PpmTypeOK
  PROVE  Counted \in Registers
<1>1. /\ tim \in Registers /\ Modulus \in Nat \ {0}
      BY PpmConstants, TypeParts
<1>2. (tim.cnt + 1) % Modulus \in 0 .. Modulus - 1
      BY <1>1 DEF Registers
<1>3. CASE tim.cen /\ tim.cnt # tim.arr
      BY <1>1, <1>2, <1>3 DEF Counted, Registers
<1>4. CASE tim.cen /\ tim.cnt = tim.arr
  <2>1. Counted = [tim EXCEPT !.cnt = 0, !.cen = FALSE, !.uif = TRUE]
        BY <1>4 DEF Counted
  <2>2. 0 \in 0 .. Modulus - 1
        BY <1>1
  <2> QED  BY <1>1, <2>1, <2>2 DEF Registers
<1>5. CASE ~tim.cen
      BY <1>1, <1>5 DEF Counted
<1> QED  BY <1>3, <1>4, <1>5

\* Only a pulse is taken into the frame, and only where there is room for it.
LEMMA WithEdgeType ==
  ASSUME PpmTypeOK, NEW t \in Nat, min_width <= t
  PROVE  LET f == WithEdge(t)
         IN  /\ f \in Frames /\ Len(f.channels) <= RC_MAX_CHANNELS
             /\ f.t0 = (frame.t0 + t) % Modulus
<1> DEFINE t0 == (frame.t0 + t) % Modulus
<1>1. /\ frame \in Frames /\ Len(frame.channels) <= RC_MAX_CHANNELS
      /\ frame.channels \in Seq(min_width .. max_width - 1)
      BY TypeParts DEF Frames
<1>2. t0 \in 0 .. Modulus - 1
      BY <1>1, PpmConstants DEF Frames
<1> HIDE DEF t0
<1>3. CASE t < max_width /\ Room
  <2>1. t \in min_width .. max_width - 1
        BY <1>3, PpmConstants
  <2>2. WithEdge(t) = [frame EXCEPT !.channels = Append(@, t), !.t0 = t0]
        BY <1>3 DEF WithEdge, t0
  <2>3. /\ Append(frame.channels, t) \in Seq(min_width .. max_width - 1)
        /\ Len(Append(frame.channels, t)) <= RC_MAX_CHANNELS
        BY <1>1, <1>3, <2>1, PpmConstants DEF Room
  <2> QED  BY <1>1, <1>2, <2>2, <2>3 DEF Frames, t0
<1>4. CASE ~(t < max_width /\ Room)
  <2>1. WithEdge(t) = [frame EXCEPT !.valid = FALSE, !.t0 = t0]
        BY <1>4 DEF WithEdge, t0
  <2> QED  BY <1>1, <1>2, <2>1 DEF Frames, t0
<1> QED  BY <1>3, <1>4

LEMMA TypeEdge == PpmTypeOK /\ Edge => PpmTypeOK'
<1> SUFFICES ASSUME PpmTypeOK, Edge PROVE PpmTypeOK'
  OBVIOUS
<1>1. tim' \in Registers
      BY CapturedType DEF Edge, FirstEdge, NextEdge
<1>2. ASSUME NEW w \in Widths, NEW sent \in Seq(Widths), NEW time \in 0 .. FrameLimit
      PROVE  /\ [next |-> w, width |-> w, sent |-> sent, time |-> time] \in Wire
             /\ [next |-> Pause, width |-> 0, sent |-> sent, time |-> time] \in Wire
  <2>1. w \in Nat /\ Pause \in Nat
        BY LatencyIs, PpmConstants
  <2> QED  BY <2>1 DEF Wire
<1>3. wire' \in Wire
  <2>1. CASE FirstEdge
    <3>1. <<>> \in Seq(Widths) /\ 0 \in 0 .. FrameLimit
          BY PpmConstants
    <3> QED  BY <1>2, <2>1, <3>1 DEF FirstEdge
  <2>2. CASE NextEdge
    <3>1. Sent \in Seq(Widths) /\ Time \in 0 .. FrameLimit
          BY <2>2, SentType DEF NextEdge
    <3>2. CASE \E w \in Widths : wire' = [next |-> w, width |-> w, sent |-> Sent, time |-> Time]
          BY <1>2, <3>1, <3>2
    <3>3. CASE wire' = [next |-> Pause, width |-> 0, sent |-> Sent, time |-> Time]
      <4>1. PICK w : w \in Widths
            BY RcPpmAssumption
      <4> QED  BY <1>2, <3>1, <3>3, <4>1
    <3> QED  BY <2>2, <3>2, <3>3 DEF NextEdge
  <2> QED  BY <2>1, <2>2 DEF Edge
<1>4. UNCHANGED <<use, quiet, isr, frame, rc_ppm_input>>
      BY DEF Edge, FirstEdge, NextEdge
<1> QED  BY <1>1, <1>3, <1>4 DEF PpmTypeOK, Wire, Registers

LEMMA TypeGlitch == PpmTypeOK /\ Glitch => PpmTypeOK'
  BY CapturedType DEF Glitch, PpmTypeOK, Registers

LEMMA TypeQuiet == PpmTypeOK /\ Quiet => PpmTypeOK'
  BY DEF Quiet, PpmTypeOK

LEMMA TypeTick == PpmTypeOK /\ PpmTick => PpmTypeOK'
<1> SUFFICES ASSUME PpmTypeOK, PpmTick PROVE PpmTypeOK'
  OBVIOUS
<1>1. tim' \in Registers
      BY CountedType DEF PpmTick
<1>2. wire' \in Wire
  <2>1. wire \in Wire /\ wire.next \in Nat
        BY TypeParts DEF Wire
  <2>2. (IF wire.next = 0 THEN 0 ELSE wire.next - 1) \in Nat
        BY <2>1
  <2>3. wire' = [wire EXCEPT !.next = IF wire.next = 0 THEN 0 ELSE wire.next - 1]
        BY DEF PpmTick
  <2> QED  BY <2>1, <2>2, <2>3 DEF Wire
<1>3. isr' \in Flags
  <2>1. isr \in Flags /\ isr.late \in Nat
        BY TypeParts DEF Flags
  <2>2. isr' = [isr EXCEPT !.late = IF Due THEN isr.late + 1 ELSE 0]
        BY DEF PpmTick
  <2> QED  BY <2>1, <2>2 DEF Flags
<1> QED  BY <1>1, <1>2, <1>3 DEF PpmTick, PpmTypeOK, Wire, Registers

\* A capture takes the time of the edge into the frame and moves its end.
LEMMA CaptureIs ==
  ASSUME PpmTypeOK, CapturePart
  PROVE  /\ frame' \in Frames /\ Len(frame.channels)' <= RC_MAX_CHANNELS
         /\ tim' \in Registers
         /\ tim'.cnt = tim.cnt /\ tim'.ccr2 = tim.ccr2
         /\ tim'.cc2if = (tim.cc2if /\ ~isr.cc2if)
         /\ \/ tim'.arr = tim.arr
            \/ isr.cc2if /\ tim'.arr = tim.ccr2 + sync_width
<1>1. tim \in Registers /\ frame \in Frames /\ isr \in Flags /\ Len(frame.channels) <= RC_MAX_CHANNELS
      BY TypeParts
<1> DEFINE t == (tim.ccr2 - frame.t0) % Modulus
           read == [tim EXCEPT !.cc2if = FALSE]
<1>2. CASE ~isr.cc2if
  <2>1. UNCHANGED <<tim, frame>>
        BY <1>2 DEF CapturePart
  <2> QED  BY <1>1, <1>2, <2>1 DEF Registers
<1>3. read \in Registers /\ read.cnt = tim.cnt /\ read.ccr2 = tim.ccr2 /\ read.arr = tim.arr
      /\ read.cc2if = FALSE
      BY <1>1 DEF Registers
<1>4. CASE isr.cc2if /\ t < min_width
  <2>1. tim' = read /\ frame' = frame
        BY <1>4 DEF CapturePart
  <2> HIDE DEF read, t
  <2> QED  BY <1>1, <1>3, <1>4, <2>1 DEF Registers
<1>5. CASE isr.cc2if /\ ~(t < min_width)
  <2>1. tim' = [read EXCEPT !.arr = EndOfFrame(frame'.t0)] /\ frame' = WithEdge(t)
        BY <1>5 DEF CapturePart
  <2>2. t \in Nat /\ min_width <= t /\ (frame.t0 + t) % Modulus = tim.ccr2
    <3>1. frame.t0 \in 0 .. Modulus - 1 /\ tim.ccr2 \in 0 .. Modulus - 1
          BY <1>1 DEF Registers, Frames
    <3>2. t \in 0 .. Modulus - 1 /\ (frame.t0 + t) % Modulus = tim.ccr2
          BY <3>1, Distance
    <3> HIDE DEF t
    <3> QED  BY <1>5, <3>2, PpmConstants
  <2> HIDE DEF t, read
  <2>3. frame' \in Frames /\ Len(frame'.channels) <= RC_MAX_CHANNELS /\ frame'.t0 = tim.ccr2
        BY <2>1, <2>2, WithEdgeType
  <2>4. /\ EndOfFrame(frame'.t0) \in 0 .. Modulus - 1
        /\ EndOfFrame(frame'.t0) = tim.arr \/ EndOfFrame(frame'.t0) = tim.ccr2 + sync_width
    <3>1. tim.ccr2 \in 0 .. Modulus - 1 /\ tim.arr \in 0 .. Modulus - 1
          BY <1>1 DEF Registers
    <3>2. CASE tim.ccr2 < FrameLimit
      <4>1. tim.ccr2 + sync_width \in 0 .. Modulus - 1
            BY <3>1, <3>2, PpmConstants
      <4>2. (tim.ccr2 + sync_width) % Modulus = tim.ccr2 + sync_width
            BY <4>1, PpmConstants
      <4> QED  BY <2>3, <3>2, <4>1, <4>2 DEF EndOfFrame
    <3>3. CASE ~(tim.ccr2 < FrameLimit)
          BY <2>3, <3>1, <3>3 DEF EndOfFrame
    <3> QED  BY <3>2, <3>3
  <2> QED  BY <1>3, <1>5, <2>1, <2>3, <2>4 DEF Registers
<1> QED  BY <1>2, <1>4, <1>5

LEMMA TypeHandler == PpmTypeOK /\ Handler => PpmTypeOK'
<1> SUFFICES ASSUME PpmTypeOK, Handler PROVE PpmTypeOK'
  OBVIOUS
<1>1. /\ tim \in Registers /\ isr \in Flags /\ isr.late \in Nat
      /\ Idle \in Flags /\ frame \in Frames
      BY TypeParts DEF Flags, Idle
<1>2. CASE ReadStatus
      BY <1>1, <1>2 DEF ReadStatus, PpmTypeOK, Flags, Registers
<1>3. CASE CapturePart
  <2>1. frame' \in Frames /\ Len(frame'.channels) <= RC_MAX_CHANNELS /\ tim' \in Registers
        BY <1>3, CaptureIs
  <2>2. isr' \in Flags
        BY <1>1, <1>3 DEF CapturePart, Flags
  <2> QED  BY <1>3, <2>1, <2>2 DEF CapturePart, PpmTypeOK, Frames, Registers
<1>4. CASE Publish
  <2>1. NewFrame \in Frames /\ Len(NewFrame.channels) <= RC_MAX_CHANNELS
        BY PpmConstants DEF NewFrame, Frames
  <2>2. isr' \in Flags /\ tim' \in Registers
        BY <1>1, <1>4 DEF Publish, Flags, Registers
  <2>3. rc_ppm_input' \in [valid : BOOLEAN]
        BY <1>1, <1>4 DEF Publish, Complete, Frames
  <2> QED  BY <1>4, <2>1, <2>2, <2>3 DEF Publish, PpmTypeOK, Frames, Registers
<1>5. CASE ReadSR
      BY <1>1, <1>5 DEF ReadSR, PpmTypeOK, Flags, Registers
<1>6. CASE Restart
  <2>1. sync_width \in 0 .. Modulus - 1 /\ 0 \in 0 .. Modulus - 1
        BY PpmConstants
  <2>2. tim' \in Registers
        BY <1>1, <1>6, <2>1 DEF Restart, Registers, Flags
  <2> QED  BY <1>1, <1>6, <2>2 DEF Restart, PpmTypeOK, Registers
<1> QED  BY <1>2, <1>3, <1>4, <1>5, <1>6 DEF Handler

\* Frames, registers and what the wire carries stay what they are: no edge, glitch
\* or length of a frame puts a channel where there is no room for it, or
\* one that is not a pulse.
THEOREM PpmTypeCorrect == PpmSpec => []PpmTypeOK
<1>1. PpmTypeOK /\ [PpmNext]_ppmVars => PpmTypeOK'
  <2>1. PpmTypeOK /\ UNCHANGED ppmVars => PpmTypeOK'
        BY DEF ppmVars, PpmTypeOK
  <2> QED  BY <2>1, TypeEdge, TypeGlitch, TypeQuiet, TypeTick, TypeHandler DEF PpmNext
<1> QED  BY <1>1, TypeInit, PTL DEF PpmSpec

-----------------------------------------------------------------------------
(* The counter gets to its end                                             *)

\* An edge that the handler has not taken is no older than the handler is
\* late, so that the counter has not gone on from it for longer.
Timely ==
  /\ tim.cnt <= tim.arr
  /\ isr.late <= sync_width
  /\ tim.cc2if => tim.cnt <= tim.ccr2 + isr.late
  /\ isr.pc = "capture" => isr.cc2if \/ isr.uif
  /\ isr.pc = "capture" /\ isr.cc2if => tim.cnt <= tim.ccr2 + isr.late

LEMMA TimelyInit == PpmInit => Timely
  BY PpmConstants DEF PpmInit, Timely

LEMMA TimelyEdge == PpmTypeOK /\ Timely /\ (Edge \/ Glitch) => Timely'
<1> SUFFICES ASSUME PpmTypeOK, Timely, Edge \/ Glitch PROVE Timely'
  OBVIOUS
<1>1. tim' = Captured /\ isr' = isr
      BY DEF Edge, FirstEdge, NextEdge, Glitch
<1>2. tim \in Registers /\ isr \in Flags /\ tim.cnt \in Nat /\ isr.late \in Nat
      BY TypeParts DEF Registers, Flags
<1>3. tim'.cnt = tim.cnt /\ tim'.arr = tim.arr /\ tim'.ccr2 = tim.cnt
      BY <1>1, <1>2 DEF Captured, Registers
<1> QED  BY <1>1, <1>2, <1>3 DEF Timely

LEMMA TimelyTick == PpmTypeOK /\ Timely /\ PpmTick => Timely'
<1> SUFFICES ASSUME PpmTypeOK, Timely, PpmTick PROVE Timely'
  OBVIOUS
<1>1. /\ tim \in Registers /\ isr \in Flags /\ isr.late \in Nat
      /\ tim.cnt \in 0 .. Modulus - 1 /\ tim.arr \in 0 .. Modulus - 1 /\ tim.ccr2 \in Nat
      BY TypeParts DEF Registers, Flags
<1>2. /\ tim'.arr = tim.arr /\ tim'.ccr2 = tim.ccr2 /\ tim'.cc2if = tim.cc2if
      /\ tim'.cnt \in {0, tim.cnt, tim.cnt + 1} /\ tim'.cnt <= tim.arr
  <2>1. tim' = Counted
        BY DEF PpmTick
  <2>2. CASE tim.cen /\ tim.cnt # tim.arr
    <3>1. tim.cnt + 1 \in 0 .. Modulus - 1 /\ tim.cnt + 1 <= tim.arr
          BY <1>1, <2>2, PpmConstants DEF Timely
    <3>2. (tim.cnt + 1) % Modulus = tim.cnt + 1
          BY <3>1, PpmConstants
    <3>3. tim' = [tim EXCEPT !.cnt = tim.cnt + 1]
          BY <2>1, <2>2, <3>2 DEF Counted
    <3> QED  BY <1>1, <3>1, <3>3 DEF Registers
  <2>3. CASE tim.cen /\ tim.cnt = tim.arr
        BY <1>1, <2>1, <2>3 DEF Counted, Registers
  <2>4. CASE ~tim.cen
        BY <1>1, <2>1, <2>4 DEF Counted, Timely
  <2> QED  BY <2>2, <2>3, <2>4
<1>3. /\ isr'.pc = isr.pc /\ isr'.cc2if = isr.cc2if /\ isr'.uif = isr.uif
      /\ isr'.late = IF Due THEN isr.late + 1 ELSE 0
      BY <1>1 DEF PpmTick, Flags
<1>4. isr'.late <= sync_width
      BY <1>1, <1>3, LatencyIs, PpmConstants DEF PpmTick
<1>5. tim.cc2if \/ isr.pc = "capture" => isr'.late = isr.late + 1
      BY <1>3 DEF Due
<1>6. tim'.cnt <= tim.cnt + 1
      BY <1>1, <1>2
<1>7. /\ tim.cc2if => tim'.cnt <= tim'.ccr2 + isr'.late
      /\ isr.pc = "capture" /\ isr.cc2if => tim'.cnt <= tim'.ccr2 + isr'.late
  <2>1. ASSUME tim.cnt <= tim.ccr2 + isr.late, isr'.late = isr.late + 1
        PROVE  tim'.cnt <= tim'.ccr2 + isr'.late
        BY <1>1, <1>2, <2>1
  <2> QED  BY <1>5, <2>1 DEF Timely
<1> QED  BY <1>2, <1>3, <1>4, <1>7 DEF Timely

LEMMA TimelyCapture == PpmTypeOK /\ Timely /\ CapturePart => Timely'
<1> SUFFICES ASSUME PpmTypeOK, Timely, CapturePart PROVE Timely'
  OBVIOUS
<1>1. /\ isr \in Flags /\ isr.late \in Nat /\ tim.cnt \in Nat /\ tim.ccr2 \in Nat
      BY TypeParts DEF Registers, Flags
<1>2. /\ tim'.cnt = tim.cnt /\ tim'.ccr2 = tim.ccr2
      /\ tim'.cc2if = (tim.cc2if /\ ~isr.cc2if)
      /\ \/ tim'.arr = tim.arr
         \/ isr.cc2if /\ tim'.arr = tim.ccr2 + sync_width
      BY CaptureIs
<1>3. tim'.cnt <= tim'.arr
  <2>1. isr.cc2if => tim.cnt <= tim.ccr2 + sync_width
        BY <1>1, PpmConstants DEF Timely, CapturePart
  <2> QED  BY <1>2, <2>1 DEF Timely
<1>4. CASE isr.uif
  <2>1. isr'.pc = "publish" /\ isr'.late = isr.late
        BY <1>1, <1>4 DEF CapturePart, Flags
  <2> QED  BY <1>2, <1>3, <2>1 DEF Timely
<1>5. CASE ~isr.uif
  <2>1. isr' = Idle
        BY <1>5 DEF CapturePart
  <2>2. ~tim'.cc2if
        BY <1>2, <1>5 DEF Timely, CapturePart
  <2> QED  BY <1>3, <2>1, <2>2, PpmConstants DEF Timely, Idle
<1> QED  BY <1>4, <1>5

LEMMA TimelyHandler == PpmTypeOK /\ Timely /\ Handler => Timely'
<1> SUFFICES ASSUME PpmTypeOK, Timely, Handler PROVE Timely'
  OBVIOUS
<1>1. tim \in Registers /\ isr \in Flags /\ tim.ccr2 \in Nat /\ isr.late \in Nat
      BY TypeParts DEF Registers, Flags
<1>2. CASE ReadStatus
  <2>1. /\ tim' = tim /\ isr'.late = isr.late
        /\ isr'.cc2if = tim.cc2if /\ isr'.uif = tim.uif /\ (tim.cc2if \/ tim.uif)
        BY <1>1, <1>2 DEF ReadStatus, Flags
  <2> QED  BY <2>1 DEF Timely
<1>3. CASE CapturePart
      BY <1>3, TimelyCapture
<1>4. CASE Publish
  <2>1. /\ isr'.pc = "read_sr" /\ isr'.late = isr.late
        /\ tim'.cnt = tim.cnt /\ tim'.arr = tim.arr /\ tim'.ccr2 = tim.ccr2
        /\ tim'.cc2if = tim.cc2if
        BY <1>1, <1>4 DEF Publish, Flags, Registers
  <2> QED  BY <2>1 DEF Timely
<1>5. CASE ReadSR
  <2>1. isr'.pc = "restart" /\ isr'.late = isr.late /\ tim' = tim
        BY <1>1, <1>5 DEF ReadSR, Flags
  <2> QED  BY <2>1 DEF Timely
<1>6. CASE Restart
  <2>1. tim'.cnt = 0 /\ tim'.arr = sync_width /\ tim'.ccr2 = tim.ccr2
        BY <1>1, <1>6 DEF Restart, Registers
  <2>2. isr'.pc = "idle" /\ isr'.late = 0
        BY <1>6 DEF Restart, Idle
  <2> QED  BY <1>1, <2>1, <2>2, PpmConstants DEF Timely
<1> QED  BY <1>2, <1>3, <1>4, <1>5, <1>6 DEF Handler

\* The counter is never past the end that the handler sets for it, so that every
\* frame ends with an interrupt.
THEOREM CounterTheorem == PpmSpec => []CounterReachesArr
<1>1. PpmTypeOK /\ Timely /\ [PpmNext]_ppmVars => Timely'
  <2>1. Timely /\ (Quiet \/ UNCHANGED ppmVars) => Timely'
        BY DEF ppmVars, Quiet, Timely
  <2> QED  BY <2>1, TimelyEdge, TimelyTick, TimelyHandler DEF PpmNext
<1>2. Timely => CounterReachesArr
      BY DEF Timely, CounterReachesArr
<1> QED  BY <1>1, <1>2, TimelyInit, PpmTypeCorrect, PTL DEF PpmSpec
=============================================================================

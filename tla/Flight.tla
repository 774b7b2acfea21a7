-------------------------------- MODULE Flight --------------------------------
(***************************************************************************)
(* From the radio to the motors: the last PPM frame (rc_ppm.c), the flight *)
(* control task (flight_ctrl.c) and the 20 kHz motor interrupt             *)
(* (bldc_task.c, bldc_driver.c).  The interrupts preempt the task between  *)
(* any two stores to shared memory.  Of the channels only the arming       *)
(* switch is kept, of the voltages only small whole numbers; when a        *)
(* running motor commutates is left open.                                  *)
(***************************************************************************)
EXTENDS Integers, Sequences, FiniteSets

CONSTANTS
    NumMotors,      \* 4
    RcTimeout,      \* 100: age in ticks a frame may have
    TAlign, TSteps, TRun,   \* 2000, {5000, 5100, 5200}, 5300: the times
                    \* of the start sequence
    UStart,         \* 2: voltage of the alignment
    UMax,           \* 10: the clamp of flight_ctrl
    DuMax,          \* slew limit per interrupt
    Reversed,       \* motors whose parameter "reverse" is set
    RcModes,        \* values rc_config.mode is given at run time
    Measurements    \* pairs of battery voltage and thermal shutdown

(* Battery voltage: below u_bat_min, within 0.3 V above it, normal, within *)
(* 0.3 V below u_bat_max, above it.                                        *)
Voltages == {"low", "low_band", "normal", "high_band", "high"}

ASSUME FlightAssumption ==
    /\ NumMotors \in Nat \ {0} /\ RcTimeout \in Nat
    /\ TRun \in Nat /\ TAlign \in 1 .. TRun - 1 /\ TSteps \subseteq TAlign + 1 .. TRun - 1
    /\ UStart \in Nat \ {0} /\ UMax \in Nat \ {0} /\ DuMax \in Nat \ {0}
    /\ Reversed \subseteq 1 .. NumMotors
    /\ RcModes \subseteq {"PPM", "NONE", "DSM2"}
    /\ Measurements \subseteq Voltages \X BOOLEAN

Motors == 1 .. NumMotors

States == {"STOP", "START", "RUNNING", "ERROR"}

VARIABLES
    link,       \* the transmitter is on and in range
    rc_mode,    \* rc_config.mode
    ppm,        \* rc_ppm_input: armed (valid, and channel 5 < 1500), age in ticks
    fc,         \* flight_ctrl: position, motor index, old_ok, and ok, which
                \* stands for its copy of the frame as well
    u_d,        \* setpoint per motor
    motor,      \* per motor: state, t_state, step, u_pwm
    errors,     \* limit errors
    out         \* per motor: the commutation step on the pins (0: off)

radio == <<link, rc_mode, ppm>>
drive == <<errors, out>>
vars  == <<radio, fc, u_d, motor, drive>>

(***************************************************************************)
(* flight_ctrl is entered and has stored its first setpoints.  The motors' *)
(* states are parameters: START by default, or what was saved.             *)
(***************************************************************************)
Init ==
    /\ link = TRUE
    /\ rc_mode \in RcModes
    /\ ppm = [armed |-> FALSE, age |-> 0]
    /\ fc = [pc |-> "startup", i |-> 1, ok |-> FALSE, old_ok |-> FALSE]
    /\ u_d = [m \in Motors |-> 1]
    /\ motor \in [Motors -> [state : States, t_state : {0},
                             step : {0}, u_pwm : {0}]]
    /\ errors = {}
    /\ out = [m \in Motors |-> 0]

-----------------------------------------------------------------------------
(* The radio                                                               *)

(* End of a frame in TIM8_BRK_TIM12_IRQHandler: any frame, valid or not.   *)
FrameEnd ==
    /\ link
    /\ \E a \in BOOLEAN : ppm' = [armed |-> a, age |-> 0]
    /\ UNCHANGED <<link, rc_mode, fc, u_d, motor, drive>>

LinkLost ==
    /\ link /\ link' = FALSE
    /\ UNCHANGED <<rc_mode, ppm, fc, u_d, motor, drive>>

\* The kernel tick; the age saturates once it is past the timeout.
Tick ==
    /\ ppm.age <= RcTimeout
    /\ ppm' = [ppm EXCEPT !.age = @ + 1]
    /\ UNCHANGED <<link, rc_mode, fc, u_d, motor, drive>>

\* The shell's "param set" of rc_mode.
SetRcMode ==
    /\ \E mode \in RcModes \ {rc_mode} : rc_mode' = mode
    /\ UNCHANGED <<link, ppm, fc, u_d, motor, drive>>

-----------------------------------------------------------------------------
(* rc_update                                                               *)

\* A mutant: the age is not looked at.
ExpiredNever == ppm

\* rc_ppm_update, interrupts disabled: a frame older than the timeout is
\* marked invalid where it is stored.
Expired == IF ppm.age > RcTimeout THEN [ppm EXCEPT !.armed = FALSE] ELSE ppm

Expiry == ppm' = IF rc_mode = "PPM" THEN Expired ELSE ppm

\* Whether *rc is a valid and armed frame after rc_update, given that it was
\* (ok) before.  rc_dsm2_update and rc_sbus_update are empty, and no receiver
\* means that nothing is valid.
RcUpdate(ok) ==
    CASE rc_mode = "PPM"  -> Expired.armed
      [] rc_mode = "DSM2" -> ok
      [] rc_mode = "NONE" -> FALSE

\* The shell's rc_show calls rc_update as well.
cmd_rc_show ==
    /\ Expiry
    /\ UNCHANGED <<link, rc_mode, fc, u_d, motor, drive>>

-----------------------------------------------------------------------------
(* flight_ctrl: one iteration after another, with vTaskDelay between       *)

FcRead ==
    /\ fc.pc \in {"startup", "delay"}
    /\ Expiry
    /\ LET ok == RcUpdate(fc.ok)
       IN  fc' = [fc EXCEPT !.ok = ok, !.i = 1,
                            !.pc = IF ok THEN "setpoint" ELSE "stop"]
    /\ UNCHANGED <<link, rc_mode, u_d, motor, drive>>

\* A mutant: the last motor is left out.
NextMotorButLast(label, next) ==
    fc' = IF fc.i < NumMotors - 1 THEN [fc EXCEPT !.pc = label, !.i = @ + 1]
                                  ELSE [fc EXCEPT !.pc = next, !.i = 1]

NextMotor(label, next) ==
    fc' = IF fc.i < NumMotors THEN [fc EXCEPT !.pc = label, !.i = @ + 1]
                              ELSE [fc EXCEPT !.pc = next, !.i = 1]

\* A mutant: the clamp begins at 0.
FcSetpointZero ==
    /\ fc.pc = "setpoint"
    /\ \E u \in 0 .. UMax : u_d' = [u_d EXCEPT ![fc.i] = u]
    /\ NextMotor("setpoint", IF fc.old_ok THEN "sleep" ELSE "start")
    /\ UNCHANGED <<radio, motor, drive>>

\* u_d of motor i, clamped to 1 .. 10 whatever the controllers say.
FcSetpoint ==
    /\ fc.pc = "setpoint"
    /\ \E u \in 1 .. UMax : u_d' = [u_d EXCEPT ![fc.i] = u]
    /\ NextMotor("setpoint", IF fc.old_ok THEN "sleep" ELSE "start")
    /\ UNCHANGED <<radio, motor, drive>>

\* Only when ok has become true.
FcStart ==
    /\ fc.pc = "start"
    /\ motor' = [motor EXCEPT ![fc.i].state = "START"]
    /\ NextMotor("start", "sleep")
    /\ UNCHANGED <<radio, u_d, drive>>

\* A mutant: the motors are stopped on the falling edge of ok only, as they
\* are started on the rising one.
FcStopOnEdge ==
    /\ fc.pc = "stop"
    /\ motor' = IF fc.old_ok THEN [motor EXCEPT ![fc.i].state = "STOP"] ELSE motor
    /\ NextMotor("stop", "sleep")
    /\ UNCHANGED <<radio, u_d, drive>>

FcStop ==
    /\ fc.pc = "stop"
    /\ motor' = [motor EXCEPT ![fc.i].state = "STOP"]
    /\ NextMotor("stop", "sleep")
    /\ UNCHANGED <<radio, u_d, drive>>

FcSleep ==
    /\ fc.pc = "sleep"
    /\ fc' = [fc EXCEPT !.pc = "delay", !.old_ok = fc.ok]
    /\ UNCHANGED <<radio, u_d, motor, drive>>

flight_ctrl == FcRead \/ FcSetpoint \/ FcStart \/ FcStop \/ FcSleep

-----------------------------------------------------------------------------
(* The motor interrupt                                                     *)

check_limits(u_bat, thdn) ==
    errors' =
        {e \in errors \cup {"u_bat_min", "u_bat_max", "fet_temp"} :
            CASE e = "u_bat_min" -> \/ u_bat = "low"
                                    \/ u_bat = "low_band" /\ e \in errors
              [] e = "u_bat_max" -> \/ u_bat = "high"
                                    \/ u_bat = "high_band" /\ e \in errors
              [] e = "fet_temp"  -> thdn \/ e \in errors}

\* step_motor: the sign of the voltage is the direction.
Commutate(m) ==
    [m EXCEPT !.step = IF m.u_pwm >= 0
                       THEN IF @ + 1 > 6 THEN 1 ELSE @ + 1
                       ELSE IF @ - 1 < 1 THEN 6 ELSE @ - 1]

Running(m) == [m EXCEPT !.state = "RUNNING", !.t_state = 0]

update_start(m, reverse) ==
    LET brake == [m EXCEPT !.u_pwm = 0]
        align == [m EXCEPT !.u_pwm = IF reverse THEN -UStart ELSE UStart]
        moved == IF m.t_state = 0 THEN Commutate(brake)
                 ELSE IF m.t_state = TAlign THEN Commutate(align)
                 ELSE IF m.t_state \in TSteps THEN Commutate(m)
                 ELSE m
    IN  IF m.t_state = TRun THEN Running(m)
                            ELSE [moved EXCEPT !.t_state = @ + 1]

\* clamp( x, min, max )
Clamp(x, lo, hi) == IF x < lo THEN lo ELSE IF x > hi THEN hi ELSE x

Slew(m, u) == [m EXCEPT !.u_pwm = Clamp(u, @ - DuMax, @ + DuMax)]

\* A mutant: STOP keeps the place in the start sequence.
UpdateMotorKeepsTime(m, u, reverse) ==
    LET running == Slew(m, IF reverse THEN -u ELSE u)
    IN  CASE m.state = "STOP"    -> {[m EXCEPT !.u_pwm = 0, !.step = 0]}
          [] m.state = "START"   -> {update_start(m, reverse)}
          [] m.state = "RUNNING" -> {running, Commutate(running)}
          [] m.state = "ERROR"   -> {m}

\* update_motor: the states the motor may be in afterwards.  Whether
\* update_sensorless finds the time of a step reached is left open.
update_motor(m, u, reverse) ==
    LET running == Slew(m, IF reverse THEN -u ELSE u)
    IN  CASE m.state = "STOP"    -> {[m EXCEPT !.u_pwm = 0, !.step = 0, !.t_state = 0]}
          [] m.state = "START"   -> {update_start(m, reverse)}
          [] m.state = "RUNNING" -> {running, Commutate(running)}
          [] m.state = "ERROR"   -> {m}

\* bldc_irq_handler and bldc_set_outputs.
DMA2_Stream0_IRQHandler ==
    LET after(m) == update_motor(motor[m], u_d[m], m \in Reversed)
    IN  /\ \E s \in Measurements : check_limits(s[1], s[2])
        /\ motor' \in [Motors -> UNION {after(m) : m \in Motors}]
        /\ \A m \in Motors : motor'[m] \in after(m)
        /\ out' = [m \in Motors |-> IF errors' = {} THEN motor'[m].step ELSE 0]
        /\ UNCHANGED <<radio, fc, u_d>>

-----------------------------------------------------------------------------
Next == \/ FrameEnd \/ LinkLost \/ Tick \/ SetRcMode \/ cmd_rc_show
        \/ flight_ctrl \/ DMA2_Stream0_IRQHandler

\* Time passes, the motor timer interrupts, and the flight control task is
\* not starved by the tasks above it (sensors and bldc wait in every cycle).
Fairness == /\ WF_vars(Tick)
            /\ WF_vars(flight_ctrl)
            /\ WF_vars(DMA2_Stream0_IRQHandler)

Spec == Init /\ [][Next]_vars /\ Fairness

-----------------------------------------------------------------------------
(* Properties                                                              *)

VoltageBound == IF UStart > UMax THEN UStart ELSE UMax

TypeOK ==
    /\ link \in BOOLEAN /\ rc_mode \in RcModes
    /\ ppm \in [armed : BOOLEAN, age : 0 .. RcTimeout + 1]
    /\ fc \in [pc : {"startup", "delay", "setpoint", "start", "stop", "sleep"},
               i : Motors, ok : BOOLEAN, old_ok : BOOLEAN]
    /\ u_d \in [Motors -> 1 .. UMax]
    /\ motor \in [Motors -> [state : States, t_state : 0 .. TRun, step : 0 .. 6,
                             u_pwm : -VoltageBound .. VoltageBound]]
    /\ errors \subseteq {"u_bat_min", "u_bat_max", "fet_temp"}
    /\ out \in [Motors -> 0 .. 6]

\* Between two iterations of flight_ctrl that found no valid and armed frame,
\* the motor interrupt drives no motor: whatever state the motors were saved
\* in, and however the start sequence and the task interleaved before.
StoppedWhenDisarmed ==
    [][DMA2_Stream0_IRQHandler /\ fc.pc = "delay" /\ ~fc.old_ok
           => \A m \in Motors : out'[m] = 0]_vars

\* A motor at rest is started from the beginning: it has no commutation step
\* yet only while the start sequence is before its brake and alignment, also
\* after a start that was broken off.
StartsFromRest ==
    \A m \in Motors :
        motor[m].state = "START" /\ motor[m].step = 0 => motor[m].t_state = 0

\* A running motor only ever commutates in the direction its parameter asks
\* for: the sign of the voltage, which step_motor takes for the direction,
\* never passes zero however the setpoints change.
KeepsDirection ==
    [][\A m \in Motors :
         /\ motor[m].state = "RUNNING" /\ motor'[m].state = "RUNNING"
         /\ motor'[m].step # motor[m].step
         => motor'[m].step = IF m \in Reversed
                             THEN IF motor[m].step > 1 THEN motor[m].step - 1 ELSE 6
                             ELSE (motor[m].step % 6) + 1]_vars

\* Failsafe: when the transmitter is gone for good, the outputs are switched
\* off in the end and stay off, whatever the last frames were and whatever
\* receiver was selected in between.  As long as one is selected whose update
\* function is empty, an armed frame stays one and the motors run on.
FailSafe ==
    [](~link /\ rc_mode # "DSM2") ~> [](\A m \in Motors : out[m] = 0)

\* Once armed, every motor gets through its start sequence, unless flight_ctrl
\* disarms again first.
ArmedMotorsRun ==
    fc.old_ok ~> \/ ~fc.ok
                 \/ \A m \in Motors : motor[m].state = "RUNNING"
=============================================================================

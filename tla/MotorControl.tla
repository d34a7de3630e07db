---- MODULE MotorControl ----
(***************************************************************************)
(* A slave's motor: the commands of its main loop, the encoder's handler   *)
(* and the handler of the sampling timer, which runs the PID controller.   *)
(*                                                                         *)
(* The handlers exclude each other and each is one action.  A dc_rpm_t is  *)
(* two bytes and the main loop needs an instruction for each, so the timer *)
(* may come in between: the two halves are stored and loaded in either     *)
(* order, "left" naming those still to come.                               *)
(*                                                                         *)
(* The controller's floating point is modelled by exact fractions: a count *)
(* of p signals in 100 ms is a speed of 8p/15 rpm, errors are in fifteenths*)
(* of a rpm, and the gains 1.5 and 3.7 * 0.1 in hundredths.                *)
(***************************************************************************)
EXTENDS DcRpm

CONSTANTS
    Speeds,          \* the speeds the slave is told to take
    Counts,          \* net counts of the encoder between two samples
    Stalls,          \* samples the motor may have been held for at the start
    MAX_SAMPLES,     \* bound: samples after that
    SAFE_SAMPLES     \* samples for which the sum of the errors is known to be harmless

ASSUME SpeedAssumption == /\ Speeds \subseteq dc_rpm_t
                          /\ Counts \subseteq Int
ASSUME StallAssumption == /\ Stalls \subseteq Nat
                          /\ MAX_SAMPLES \in Nat /\ SAFE_SAMPLES \in Nat

VARIABLES
    motor_position,
    speed_next, speed_target, speed_actual,  \* the last two: [low, high]
    err_int,         \* the sum of the errors
    direction, duty, \* what the motor is driven with
    op, left, result,    \* the command under way and its bytes
    samples,         \* for the bound
    held,            \* history: the samples of the stall at the start
    corrected,       \* history: the corrected speed, before it is cut to 16 bits
    side,            \* history: "slow", "fast", "met" or "mixed"
    applied,         \* history: the targets that may be in force
    seen             \* history: the samples since get-speed began

main == <<speed_next, speed_target, op, left, result, applied>>
vars == <<motor_position, speed_next, speed_target, speed_actual, err_int,
          direction, duty, op, left, result, samples, held, corrected, side,
          applied, seen>>

Halves == {"low", "high"}
Split(rpm) == [low |-> Low(rpm), high |-> High(rpm)]
Join(halves) == Rpm(halves.low, halves.high)

\* A conversion to an integer cuts towards zero.
Cut(a, b) == IF a >= 0 THEN a \div b ELSE -((-a) \div b)

-----------------------------------------------------------------------------
(* The PID controller *)

SpeedOf(position) == Cut(8 * position, 15)

\* Mutant: the error is the other way round.
err_prop_swapped(position, target) == 15 * target - 8 * position

err_prop(position, target) == 8 * position - 15 * target

Corrected(err, sum) == Cut(150 * err + 37 * sum, 1500)

-----------------------------------------------------------------------------
(* The motor's driver *)

Direction(rpm) == CASE rpm > 0 -> "forward" [] rpm < 0 -> "backward" [] OTHER -> "off"

\* Mutant: the speed is not limited.
DutyCycles_unbounded(rpm) == {(51 * (IF rpm > 0 THEN rpm ELSE -rpm)) \div 25}

\* abs() of the lowest dc_rpm_t is negative, and no duty cycle.
DutyCycles(rpm) ==
    IF rpm = INT16_MIN THEN 0 .. 255
    ELSE LET abs == IF rpm > 0 THEN rpm ELSE -rpm
             bounded == IF abs < DC_MOTOR_MAX_RPM_SPEED THEN abs
                                                        ELSE DC_MOTOR_MAX_RPM_SPEED
         IN {(51 * bounded) \div 25}

dcmotor_phy_load_speed(rpm) == /\ direction' = Direction(rpm)
                               /\ duty' \in DutyCycles(rpm)

-----------------------------------------------------------------------------
\* dcmotor_init(), and the controller's sum after the motor was held still for
\* some samples at the highest target.
Init == /\ motor_position = 0
        /\ held \in Stalls
        /\ LET err == err_prop(0, DC_MOTOR_MAX_RPM_SPEED)
           IN /\ err_int = held * err
              /\ corrected = IF held = 0 THEN 0 ELSE Corrected(err, err_int)
        /\ direction = Direction(Wrap16(corrected))
        /\ duty \in DutyCycles(Wrap16(corrected))
        /\ speed_next = IF held = 0 THEN 0 ELSE DC_MOTOR_MAX_RPM_SPEED
        /\ side = IF held = 0 THEN "met" ELSE "slow"
        /\ speed_target = Split(speed_next) /\ speed_actual = Split(0)
        /\ op = "idle" /\ left = {} /\ result = Split(0)
        /\ samples = 0
        /\ applied = {speed_next} /\ seen = {}

\* The signals since the last sample, forwards and backwards.
EncoderIsr == /\ motor_position = 0
              /\ motor_position' \in Counts
              /\ UNCHANGED <<main, speed_actual, err_int, direction, duty,
                             samples, held, corrected, side, seen>>

\* Where the motor has been, compared with its target, at all samples.
Side == LET is == CASE 8 * motor_position < 15 * Join(speed_target) -> "slow"
                    [] 8 * motor_position > 15 * Join(speed_target) -> "fast"
                    [] OTHER -> "met"
        IN CASE is \in {side, "met"} -> side
             [] side = "met" -> is
             [] OTHER -> "mixed"

PidIsr ==
    /\ samples < MAX_SAMPLES
    /\ LET err == err_prop(motor_position, Join(speed_target))
           sum == err_int + err
       IN /\ err_int' = sum
          /\ corrected' = Corrected(err, sum)
          /\ dcmotor_phy_load_speed(Wrap16(corrected'))
          /\ side' = Side
    /\ speed_actual' = Split(Wrap16(SpeedOf(motor_position)))
    /\ motor_position' = 0
    /\ samples' = samples + 1
    /\ seen' = IF op = "get" THEN seen \cup {Wrap16(SpeedOf(motor_position))} ELSE seen
    /\ UNCHANGED <<main, held>>

-----------------------------------------------------------------------------
(* Commands *)

Quiet == UNCHANGED <<motor_position, speed_actual, err_int, direction, duty,
                     samples, held, corrected, side>>

dcmotor_set(rpm) ==
    /\ op = "idle"
    /\ speed_next' = compute_limited_speed(rpm)
    /\ UNCHANGED <<speed_target, op, left, result, applied, seen>> /\ Quiet

dcmotor_apply ==
    /\ op = "idle"
    /\ op' = "apply" /\ left' = Halves
    /\ applied' = applied \cup {speed_next}
    /\ UNCHANGED <<speed_next, speed_target, result, seen>> /\ Quiet

Store(half) ==
    /\ op = "apply" /\ half \in left
    /\ speed_target' = [speed_target EXCEPT ![half] = Split(speed_next)[half]]
    /\ left' = left \ {half}
    /\ op' = IF left' = {} THEN "idle" ELSE "apply"
    /\ applied' = IF left' = {} THEN {speed_next} ELSE applied
    /\ UNCHANGED <<speed_next, result, seen>> /\ Quiet

dcmotor_get ==
    /\ op = "idle"
    /\ op' = "get" /\ left' = Halves
    /\ seen' = {Join(speed_actual)}
    /\ UNCHANGED <<speed_next, speed_target, result, applied>> /\ Quiet

\* Mutant: get-speed answers with the target.
Load_target(half) ==
    /\ op = "get" /\ half \in left
    /\ result' = [result EXCEPT ![half] = speed_target[half]]
    /\ left' = left \ {half}
    /\ op' = IF left' = {} THEN "got" ELSE "get"
    /\ UNCHANGED <<speed_next, speed_target, applied, seen>> /\ Quiet

Load(half) ==
    /\ op = "get" /\ half \in left
    /\ result' = [result EXCEPT ![half] = speed_actual[half]]
    /\ left' = left \ {half}
    /\ op' = IF left' = {} THEN "got" ELSE "get"
    /\ UNCHANGED <<speed_next, speed_target, applied, seen>> /\ Quiet

Return == /\ op = "got"
          /\ op' = "idle" /\ seen' = {}
          /\ UNCHANGED <<speed_next, speed_target, left, result, applied>> /\ Quiet

Next == \/ EncoderIsr \/ PidIsr
        \/ \E rpm \in Speeds : dcmotor_set(rpm)
        \/ dcmotor_apply \/ dcmotor_get \/ Return
        \/ \E half \in Halves : Store(half) \/ Load(half)

Spec == Init /\ [][Next]_vars

-----------------------------------------------------------------------------
(* Properties *)

\* The variables have their types; the duty cycle fits its register.
TypeOK == /\ motor_position \in Counts \cup {0}
          /\ speed_next \in 0 .. DC_MOTOR_MAX_RPM_SPEED
          /\ speed_target \in [Halves -> 0 .. 255]
          /\ speed_actual \in [Halves -> 0 .. 255]
          /\ err_int \in Int /\ corrected \in Int /\ held \in Stalls
          /\ direction \in {"forward", "backward", "off"} /\ duty \in 0 .. 255
          /\ op \in {"idle", "apply", "get", "got"} /\ left \subseteq Halves
          /\ result \in [Halves -> 0 .. 255]
          /\ samples \in 0 .. MAX_SAMPLES
          /\ side \in {"slow", "fast", "met", "mixed"}

\* Whenever the timer comes, the target the controller reads is the one in force
\* or the one being applied, never a half of each.
TargetIsApplied == Join(speed_target) \in applied

\* A motor that was slower than its target at every sample so far is not driven
\* the way that slows it, one that was faster not the way that speeds it up, and
\* one that was where it should be not at all.  (err_prop is positive for a motor
\* that is too fast, so "forward" must be what slows the count.)  Nothing bounds
\* the sum of the errors, and a speed that no longer fits 16 bits changes its sign:
\* that is the only thing that turns the motor round, and it takes more than
\* SAFE_SAMPLES samples.
DriveOpposesError ==
    held + samples <= SAFE_SAMPLES \/ corrected \in dc_rpm_t =>
        /\ side = "slow" => direction # "forward"
        /\ side = "fast" => direction # "backward"
        /\ side = "met"  => direction = "off"

\* However the timer cuts into the two loads, get-speed puts its answer together
\* from samples taken since it was called and the one before: the low half of one
\* and the high half of one.  The answer is a sample if those two have the same high
\* half; if not (the motor changed direction in between) it is less than 256 rpm
\* from one.
GetIsSample ==
    op = "got" => \E rpm, other \in seen :
                      /\ Join(result) = Rpm(Low(rpm), High(other))
                      /\ High(other) = High(rpm) => Join(result) = rpm
====

---- MODULE DcRpm ----
(***************************************************************************)
(* dc_rpm_t: a signed 16-bit speed, two bytes in memory and on the wire,   *)
(* low byte first; and the limit a slave puts on a speed it is given.      *)
(***************************************************************************)
EXTENDS Integers

DC_MOTOR_MAX_RPM_SPEED == 125

INT16_MIN == -32768
INT16_MAX == 32767
dc_rpm_t == INT16_MIN .. INT16_MAX

\* A conversion to dc_rpm_t keeps the low 16 bits.
Wrap16(x) == ((x + 32768) % 65536) - 32768

Low(rpm)  == rpm % 256
High(rpm) == (rpm \div 256) % 256
Rpm(low, high) == Wrap16(low + 256 * high)

\* Mutant: what was meant, a limit on either side.
compute_limited_speed_symmetric(speed) ==
    CASE speed > DC_MOTOR_MAX_RPM_SPEED  -> DC_MOTOR_MAX_RPM_SPEED
      [] speed < -DC_MOTOR_MAX_RPM_SPEED -> -DC_MOTOR_MAX_RPM_SPEED
      [] OTHER -> speed

\* The code takes the larger of a negative speed and the positive limit.
compute_limited_speed(speed) ==
    IF speed \in 0 .. DC_MOTOR_MAX_RPM_SPEED THEN speed ELSE DC_MOTOR_MAX_RPM_SPEED
====

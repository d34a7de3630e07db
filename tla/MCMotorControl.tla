---- MODULE MCMotorControl ----
(***************************************************************************)
(* A motor that is held, turns at a speed it was told, runs ahead of its   *)
(* target and is pushed backwards.                                         *)
(***************************************************************************)
EXTENDS MotorControl

MCSpeeds == {120, 300, -2}
MCCounts == {225, 400, -20}
====

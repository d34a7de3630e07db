---- MODULE MotorBank ----
(***************************************************************************)
(* What the TWI bus promises the master: a bank of motors to which it      *)
(* gives one command at a time.  A command is owed by every running slave  *)
(* it is addressed to; all of them have carried it out before the next one *)
(* is issued.  A slave loses a command only if it restarts, or, once, when *)
(* it was left with an answer nobody fetched: it has credit for one.       *)
(***************************************************************************)
EXTENDS DcRpm

CONSTANTS
    Slave,
    Command,         \* the commands: [op, to, arg]
    Nothing,         \* not a command
    FirstAddr        \* the addresses the slaves start with

VARIABLES
    addr,            \* addr[s]: the address slave s keeps over a restart
    next, target,    \* the speed that was set, and the one that was applied
    owed,            \* the command slave s has still to carry out
    up,              \* slave s takes part in transfers
    credit           \* slave s may lose one command

vars == <<addr, next, target, owed, up, credit>>

TypeOK == /\ addr \in [Slave -> 1 .. 126]
          /\ next \in [Slave -> 0 .. DC_MOTOR_MAX_RPM_SPEED]
          /\ target \in [Slave -> 0 .. DC_MOTOR_MAX_RPM_SPEED]
          /\ owed \in [Slave -> Command \cup {Nothing}]
          /\ up \in [Slave -> BOOLEAN] /\ credit \in [Slave -> BOOLEAN]

Init == /\ addr = FirstAddr
        /\ next = [s \in Slave |-> 0] /\ target = [s \in Slave |-> 0]
        /\ owed = [s \in Slave |-> Nothing]
        /\ up = [s \in Slave |-> FALSE] /\ credit = [s \in Slave |-> FALSE]

Broadcast(c) == c.to = 0
Reached(c) == {s \in Slave : up[s] /\ (Broadcast(c) \/ c.to = addr[s])}

\* A question asked of everyone is answered by everyone and fetched from nobody.
Issue(c) ==
    /\ \A s \in Slave : owed[s] = Nothing
    /\ owed' = [s \in Slave |-> IF s \in Reached(c) THEN c ELSE Nothing]
    /\ credit' = [s \in Slave |-> credit[s] \/ (/\ s \in Reached(c)
                                                /\ Broadcast(c) /\ c.op = "get")]
    /\ UNCHANGED <<addr, next, target, up>>

Perform(s) ==
    /\ owed[s] # Nothing
    /\ owed' = [owed EXCEPT ![s] = Nothing]
    /\ LET c == owed[s]
       IN /\ addr' = [addr EXCEPT ![s] = IF c.op = "addr" THEN c.arg ELSE @]
          /\ next' = [next EXCEPT ![s] =
                         IF c.op = "set" THEN compute_limited_speed(c.arg) ELSE @]
          /\ target' = [target EXCEPT ![s] = IF c.op = "apply" THEN next[s] ELSE @]
    /\ UNCHANGED <<up, credit>>

Lose(s) ==
    /\ owed[s] # Nothing /\ credit[s]
    /\ owed' = [owed EXCEPT ![s] = Nothing]
    /\ credit' = [credit EXCEPT ![s] = FALSE]
    /\ UNCHANGED <<addr, next, target, up>>

Join(s) ==
    /\ up' = [up EXCEPT ![s] = TRUE]
    /\ UNCHANGED <<addr, next, target, owed, credit>>

\* The speeds are lost, the address is not.
Restart(s) ==
    /\ up' = [up EXCEPT ![s] = FALSE]
    /\ owed' = [owed EXCEPT ![s] = Nothing]
    /\ next' = [next EXCEPT ![s] = 0] /\ target' = [target EXCEPT ![s] = 0]
    /\ UNCHANGED <<addr, credit>>

MasterRestart ==
    /\ credit' = [s \in Slave |-> TRUE]
    /\ UNCHANGED <<addr, next, target, owed, up>>

Next == \/ \E c \in Command : Issue(c)
        \/ \E s \in Slave : Perform(s) \/ Lose(s) \/ Join(s) \/ Restart(s)
        \/ MasterRestart

Spec == Init /\ [][Next]_vars
====

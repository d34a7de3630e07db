---- MODULE CommandService ----
(***************************************************************************)
(* What the packet protocol promises the caller of a command: the board    *)
(* carries a command out at most once, before the next one is asked for,   *)
(* and one that was reported successful without fail; an answer comes only *)
(* after that.  The command of a caller that died is carried out like any  *)
(* other.  A board restarts only when it has nothing left to do.           *)
(***************************************************************************)
EXTENDS Sequences

CONSTANTS
    Command,     \* what the board can be asked to do
    Greeting,    \* the handshake, which asks for nothing
    Answered     \* the commands that return something

VARIABLES
    call,        \* what the caller waits for: one command or none
    due,         \* what the board has still to carry out: one command or none
    done,        \* what the board has carried out
    log          \* how the calls ended, and the restarts

vars == <<call, due, done, log>>

Init == call = {} /\ due = {} /\ done = <<>> /\ log = <<>>

Ask == /\ call = {} /\ due = {}
       /\ \E c \in Command \cup {Greeting} : call' = {c} /\ due' = {c} \ {Greeting}
       /\ UNCHANGED <<done, log>>

CarryOut == \E c \in due : /\ due' = {}
                           /\ done' = Append(done, c)
                           /\ UNCHANGED <<call, log>>

End(end) == \E c \in call : /\ call' = {}
                            /\ log' = Append(log, [cmd |-> c, end |-> end])
                            /\ UNCHANGED <<due, done>>

Succeed == (call \cap Answered # {} => due = {}) /\ End("ok")
Die     == End("killed")

Restart == /\ call = {} /\ due = {}
           /\ \E c \in Command \cup {Greeting} :
                  log' = Append(log, [cmd |-> c, end |-> "reset"])
           /\ UNCHANGED <<call, due, done>>

Next == Ask \/ CarryOut \/ Succeed \/ Die \/ Restart

Spec == Init /\ [][Next]_vars
====

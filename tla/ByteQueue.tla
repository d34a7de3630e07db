---- MODULE ByteQueue ----
(***************************************************************************)
(* What a serial direction promises to its reader: the bytes that arrived  *)
(* on the line come out once each, in the order they arrived.  A byte is   *)
(* its position on the line, so 1, 2, 3, ... arrive in that order.         *)
(***************************************************************************)
EXTENDS Naturals, Sequences

CONSTANTS
    CAPACITY,   \* bytes that may be on their way at once
    BATCH       \* bytes that may be put at once

VARIABLES
    arrived,    \* how many bytes the line has carried
    waiting,    \* the bytes not handed to the reader yet, oldest first
    out         \* the bytes handed to the reader

vars == <<arrived, waiting, out>>

Init == /\ arrived = 0
        /\ waiting = <<>>
        /\ out = <<>>

Put == \E k \in 1 .. BATCH :
           /\ Len(waiting) + k <= CAPACITY
           /\ arrived' = arrived + k
           /\ waiting' = waiting \o [i \in 1 .. k |-> arrived + i]
           /\ UNCHANGED out

Get == /\ waiting # <<>>
       /\ out' = Append(out, Head(waiting))
       /\ waiting' = Tail(waiting)
       /\ UNCHANGED arrived

Next == Put \/ Get

Spec == Init /\ [][Next]_vars
====

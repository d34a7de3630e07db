---- MODULE MCTwiBus ----
(***************************************************************************)
(* Two slaves, at 1 and 2, and requests that meet in every way: for one,   *)
(* for the other, for everyone and for nobody, an address that is free and *)
(* one that is taken, and the id 128, which the client lets pass and the   *)
(* bus folds onto the general call.                                        *)
(***************************************************************************)
EXTENDS TwiBus, TLC

CONSTANTS s1, s2

MCSlave == {s1, s2}
MCFirstAddr == s1 :> 1 @@ s2 :> 2

Req(op, to, arg) == [op |-> op, to |-> to, arg |-> arg]

MCRequest == {Req("get", 1, 0), Req("get", 128, 0), Req("ping", 2, 0),
              Req("set", 1, -2), Req("apply", 0, 0), Req("addr", 1, 2)}

MCSample == {7, -7}
====

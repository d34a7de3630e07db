---- MODULE LinePositions ----
(***************************************************************************)
(* Lemmas about runs of consecutive positions: a byte of a serial line is  *)
(* its position in the stream, so a queue of bytes is such a run.          *)
(***************************************************************************)
EXTENDS Integers, Sequences, SequenceTheorems, TLAPS

\* The positions a+1, ..., b.
Positions(a, b) == [i \in 1 .. b - a |-> a + i]

LEMMA PositionsProperties ==
    ASSUME NEW a \in Nat, NEW b \in Nat, a <= b
    PROVE  /\ Positions(a, b) \in Seq(Nat)
           /\ Len(Positions(a, b)) = b - a
           /\ \A i \in 1 .. b - a : Positions(a, b)[i] = a + i
<1>1. b - a \in Nat
  OBVIOUS
<1> QED
  BY <1>1 DEF Positions

LEMMA PositionsPut ==
    ASSUME NEW a \in Nat, NEW b \in Nat, a <= b
    PROVE  Positions(a, b + 1) = Positions(a, b) \o [i \in 1 .. 1 |-> b + i]
<1> DEFINE one == [i \in 1 .. 1 |-> b + i]
<1>1. one \in Seq(Nat) /\ Len(one) = 1 /\ one[1] = b + 1
  OBVIOUS
<1>2. /\ Positions(a, b) \in Seq(Nat) /\ Len(Positions(a, b)) = b - a
      /\ \A i \in 1 .. b - a : Positions(a, b)[i] = a + i
  BY PositionsProperties
<1>3. /\ Positions(a, b + 1) \in Seq(Nat) /\ Len(Positions(a, b + 1)) = b + 1 - a
      /\ \A i \in 1 .. b + 1 - a : Positions(a, b + 1)[i] = a + i
  BY PositionsProperties
<1> HIDE DEF one
<1>4. /\ Positions(a, b) \o one \in Seq(Nat)
      /\ Len(Positions(a, b) \o one) = b + 1 - a
      /\ \A i \in 1 .. b + 1 - a : (Positions(a, b) \o one)[i] =
             IF i <= b - a THEN Positions(a, b)[i] ELSE one[i - (b - a)]
  <2>1. /\ Positions(a, b) \o one \in Seq(Nat)
        /\ Len(Positions(a, b) \o one) = Len(Positions(a, b)) + Len(one)
        /\ \A i \in 1 .. Len(Positions(a, b)) + Len(one) : (Positions(a, b) \o one)[i] =
               IF i <= Len(Positions(a, b)) THEN Positions(a, b)[i]
               ELSE one[i - Len(Positions(a, b))]
    BY <1>1, <1>2, ConcatProperties
  <2>2. Len(Positions(a, b)) + Len(one) = b + 1 - a
    BY <1>1, <1>2
  <2> QED
    BY <1>2, <2>1, <2>2
<1> DEFINE longer == Positions(a, b) \o one
<1> HIDE DEF longer
<1>5. ASSUME NEW i \in 1 .. b + 1 - a
      PROVE  Positions(a, b + 1)[i] = longer[i]
  <2>1. CASE i <= b - a
    <3>1. longer[i] = Positions(a, b)[i]
      BY <1>4, <2>1 DEF longer
    <3> QED
      BY <1>2, <1>3, <2>1, <3>1
  <2>2. CASE i > b - a
    <3>1. i = b + 1 - a /\ i - (b - a) = 1
      BY <2>2
    <3>2. longer[i] = one[i - (b - a)]
      BY <1>4, <2>2 DEF longer
    <3>3. Positions(a, b + 1)[i] = b + 1
      BY <1>3, <3>1
    <3> QED
      BY <1>1, <3>1, <3>2, <3>3
  <2> QED
    BY <2>1, <2>2
<1> QED
  BY <1>3, <1>4, <1>5, SeqEqual DEF one, longer

LEMMA PositionsGet ==
    ASSUME NEW a \in Nat, NEW b \in Nat, a + 1 <= b
    PROVE  /\ Positions(a, b) # <<>>
           /\ Head(Positions(a, b)) = a + 1
           /\ Tail(Positions(a, b)) = Positions(a + 1, b)
<1>1. /\ Positions(a, b) \in Seq(Nat) /\ Len(Positions(a, b)) = b - a
      /\ \A i \in 1 .. b - a : Positions(a, b)[i] = a + i
  BY PositionsProperties
<1>2. /\ Positions(a + 1, b) \in Seq(Nat) /\ Len(Positions(a + 1, b)) = b - a - 1
      /\ \A i \in 1 .. b - a - 1 : Positions(a + 1, b)[i] = a + 1 + i
  BY PositionsProperties
<1>3. Positions(a, b) # <<>>
  BY <1>1, EmptySeq
<1>4. /\ Tail(Positions(a, b)) \in Seq(Nat) /\ Len(Tail(Positions(a, b))) = b - a - 1
      /\ \A i \in 1 .. b - a - 1 : Tail(Positions(a, b))[i] = Positions(a, b)[i + 1]
  BY <1>1, <1>3, HeadTailProperties
<1>5. \A i \in 1 .. b - a - 1 : Tail(Positions(a, b))[i] = Positions(a + 1, b)[i]
  BY <1>1, <1>2, <1>4
<1>6. Tail(Positions(a, b)) = Positions(a + 1, b)
  BY <1>2, <1>4, <1>5, SeqEqual
<1>7. Head(Positions(a, b)) = a + 1
  BY <1>1
<1> QED
  BY <1>3, <1>6, <1>7

LEMMA PositionsEmpty == ASSUME NEW a \in Nat PROVE Positions(a, a) = <<>>
<1>1. Positions(a, a) \in Seq(Nat) /\ Len(Positions(a, a)) = 0
  BY PositionsProperties
<1> QED
  BY <1>1, EmptySeq

\* Several bytes put into an empty queue.
LEMMA PositionsPutAll ==
    ASSUME NEW a \in Nat, NEW k \in Nat
    PROVE  Positions(a, a + k) = Positions(a, a) \o [i \in 1 .. k |-> a + i]
<1>1. Positions(a, a + k) = [i \in 1 .. k |-> a + i]
  <2>1. a + k - a = k
    OBVIOUS
  <2> QED
    BY <2>1 DEF Positions
<1>2. Positions(a, a + k) \in Seq(Nat)
  BY PositionsProperties
<1>3. <<>> \o Positions(a, a + k) = Positions(a, a + k)
  BY <1>2, ConcatEmptySeq
<1> QED
  BY <1>1, <1>3, PositionsEmpty
====

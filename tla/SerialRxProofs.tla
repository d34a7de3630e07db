---- MODULE SerialRxProofs ----
(***************************************************************************)
(* Proofs about the receiving half of the master's serial port, for every  *)
(* size of the ring, depth of the USART and number of bytes.               *)
(***************************************************************************)
EXTENDS SerialRx, LinePositions, TLAPS

\* How far a slot lies behind the oldest one: virt_idx without the modulus.
Pos(s) == IF s >= first THEN s - first ELSE s + RX_BUFFER_SIZE - first

\* The slot holds a byte that the indices still reach.
Live(s) == isfull \/ Pos(s) < Pos(last)

-----------------------------------------------------------------------------
(* The inductive invariant behind InOrder.  Line order runs from what was   *)
(* delivered through the live slots, oldest first, to the USART's FIFO.     *)

RingOrdered ==
    /\ \A s \in Slots : Live(s) => base[s] \in 1 .. sent
    /\ \A s, t \in Slots :
           Live(s) /\ Live(t) /\ Pos(s) < Pos(t) => base[s] < base[t]

UdrOrdered ==
    /\ \A j \in 1 .. Len(udr) : udr[j] \in 1 .. sent
    /\ \A i, j \in 1 .. Len(udr) : i < j => udr[i] < udr[j]

RingBeforeUdr ==
    \A s \in Slots, j \in 1 .. Len(udr) : Live(s) => base[s] < udr[j]

\* The slot under "first" has been handed over already when pc = "shift".
DeliveredBeforeRing ==
    \A i \in 1 .. Len(delivered), s \in Slots :
        Live(s) /\ ~(pc = "shift" /\ s = first) => delivered[i] < base[s]

DeliveredBeforeUdr ==
    \A i \in 1 .. Len(delivered), j \in 1 .. Len(udr) : delivered[i] < udr[j]

\* The flag lags behind the indices only between the two writes of a pop.
FlagLags == full => first = last \/ pc = "clear"

\* A pop that passed its tests for emptiness still finds its byte.
PopFindsByte == pc \in {"pop", "popLast", "load", "shift"} => Live(first)

OrderInv == /\ TypeOK
            /\ InOrder
            /\ RingOrdered /\ UdrOrdered
            /\ RingBeforeUdr /\ DeliveredBeforeRing /\ DeliveredBeforeUdr
            /\ FlagLags /\ PopFindsByte

-----------------------------------------------------------------------------
(* The two index helpers without their modulus *)

LEMMA ShiftedIdx ==
    ASSUME NEW i \in Slots
    PROVE  /\ shifted_idx(i) \in Slots
           /\ shifted_idx(i) = IF i + 1 = RX_BUFFER_SIZE THEN 0 ELSE i + 1
BY SizeAssumption DEF Slots, shifted_idx

LEMMA VirtIdx ==
    ASSUME NEW s \in Slots, first \in Slots
    PROVE  virt_idx(s) = Pos(s)
BY SizeAssumption DEF Slots, virt_idx, Pos

-----------------------------------------------------------------------------
(* Type correctness *)

\* A push stores into one slot and moves "last" by one: the ring stays well formed.
LEMMA PushTypes ==
    ASSUME TypeOK, NEW val \in Nat, push(val)
    PROVE  /\ base' \in [Slots -> Nat]
           /\ first' \in Slots /\ last' \in Slots /\ full' \in BOOLEAN
<1>1. CASE full
  BY <1>1 DEF TypeOK, push, ring
<1>2. CASE ~full
  <2>1. shifted_idx(last) \in Slots
    BY ShiftedIdx DEF TypeOK
  <2> QED
    BY <1>2, <2>1 DEF TypeOK, push
<1> QED
  BY <1>1, <1>2

\* Starting a serial_rx() sets its variables in range.
LEMMA StartReadTypes ==
    ASSUME StartRead
    PROVE  size' \in 0 .. MAX_READ /\ n' \in 0 .. MAX_READ /\ performed' \in BOOLEAN
BY ReadAssumption DEF StartRead

\* Counting a byte keeps serial_rx()'s own variables in range.
LEMMA CountByteTypes ==
    ASSUME TypeOK, CountByte
    PROVE  /\ pc' \in Pcs /\ performed' \in BOOLEAN
           /\ size' \in 0 .. MAX_READ /\ n' \in 0 .. MAX_READ
<1>1. pc' \in Pcs
  BY DEF CountByte, Pcs, PollPcs
<1>2. CASE n + 1 < size
  BY <1>1, <1>2, ReadAssumption DEF TypeOK, CountByte
<1>3. CASE ~(n + 1 < size)
  BY <1>1, <1>3, ReadAssumption, StartReadTypes DEF TypeOK, CountByte
<1> QED
  BY <1>2, <1>3

LEMMA TypeInductive ==
    ASSUME TypeOK, [Next]_vars
    PROVE  TypeOK'
<1>1. CASE Arrive
  <2>1. sent' \in Nat /\ udr' \in Seq(Nat) /\ Len(udr') <= UDR_DEPTH
    BY <1>1, DepthAssumption DEF Arrive, TypeOK
  <2> QED
    BY <1>1, <2>1 DEF Arrive, TypeOK, ring
<1>2. CASE RxIsr
  <2>1. /\ Head(udr) \in Nat
        /\ udr' \in Seq(Nat) /\ Len(udr') <= UDR_DEPTH
    <3>1. udr \in Seq(Nat) /\ udr # <<>> /\ Len(udr) <= UDR_DEPTH
      BY <1>2 DEF RxIsr, TypeOK
    <3>2. Head(udr) \in Nat /\ Tail(udr) \in Seq(Nat) /\ Len(Tail(udr)) <= UDR_DEPTH
      BY <3>1, DepthAssumption
    <3> QED
      BY <1>2, <3>1, <3>2 DEF RxIsr
  <2>2. /\ base' \in [Slots -> Nat]
        /\ first' \in Slots /\ last' \in Slots /\ full' \in BOOLEAN
    BY <1>2, <2>1, PushTypes DEF RxIsr, TypeOK, ring
  <2> QED
    BY <1>2, <2>1, <2>2 DEF RxIsr, TypeOK, Pcs
<1>3. CASE AvailFull
  <2>1. pc' \in Pcs
    BY <1>3 DEF AvailFull, Pcs, PollPcs
  <2> QED
    BY <1>3, <2>1, StartReadTypes DEF AvailFull, TypeOK, ring
<1>4. CASE AvailLast
  <2>1. pc' \in Pcs
    BY <1>4 DEF AvailLast, Pcs, PollPcs
  <2> QED
    BY <1>4, <2>1, StartReadTypes DEF AvailLast, TypeOK, ring
<1>5. CASE Sleep \/ RxFull \/ RxLast \/ Delay \/ PopFull
  BY <1>5 DEF Sleep, RxFull, RxLast, Delay, PopFull, Goto, TypeOK, ring, Pcs,
              PollPcs, PopPcs
<1>6. CASE PopLast
  <2>1. CASE first = last
    BY <1>6, <2>1, CountByteTypes DEF PopLast, TypeOK, ring
  <2>2. CASE first # last
    BY <1>6, <2>2 DEF PopLast, TypeOK, ring, Pcs, PopPcs
  <2> QED
    BY <2>1, <2>2
<1>7. CASE PopLoad
  BY <1>7 DEF PopLoad, Goto, TypeOK, ring, Pcs, PopPcs
<1>8. CASE PopShift
  BY <1>8, ShiftedIdx DEF PopShift, Goto, TypeOK, Pcs, PopPcs
<1>9. CASE PopClear
  BY <1>9, CountByteTypes DEF PopClear, TypeOK
<1>10. CASE UNCHANGED vars
  BY <1>10 DEF TypeOK, vars, ring
<1> QED
  BY <1>1, <1>2, <1>3, <1>4, <1>5, <1>6, <1>7, <1>8, <1>9, <1>10
     DEF Next, Main

LEMMA InitTypes == Init => TypeOK
<1> SUFFICES ASSUME Init PROVE TypeOK
  OBVIOUS
<1>1. udr \in Seq(Nat) /\ Len(udr) <= UDR_DEPTH /\ delivered \in Seq(Nat)
  BY DepthAssumption DEF Init
<1>2. base \in [Slots -> Nat] /\ 0 \in Slots
  BY SizeAssumption DEF Init, Slots
<1>3. size \in 0 .. MAX_READ /\ n \in 0 .. MAX_READ /\ pc \in Pcs
  BY ReadAssumption DEF Init, Pcs
<1> QED
  BY <1>1, <1>2, <1>3 DEF Init, TypeOK

\* The variables stay in their types whatever the interleaving, for every size
\* of the ring, of the USART and of the host's window.
THEOREM TypeCorrect == Spec => []TypeOK
<1>1. Init => TypeOK
  BY InitTypes
<1>2. TypeOK /\ [Next]_vars => TypeOK'
  BY TypeInductive
<1> QED
  BY <1>1, <1>2, PTL DEF Spec

-----------------------------------------------------------------------------
(* Delivery in line order *)

\* Everything OrderInv says of the ring, the USART and the history.
LineOrdered == /\ InOrder
               /\ RingOrdered /\ UdrOrdered
               /\ RingBeforeUdr /\ DeliveredBeforeRing /\ DeliveredBeforeUdr

\* A step of the main loop that leaves the bytes alone and does not leave the
\* middle of a pop keeps the line order.
LEMMA QuietStep ==
    ASSUME OrderInv, TypeOK',
           UNCHANGED <<sent, udr, base, first, last, full, delivered>>,
           pc # "shift"
    PROVE  LineOrdered'
BY DEF OrderInv, LineOrdered, InOrder, RingOrdered, UdrOrdered, RingBeforeUdr,
       DeliveredBeforeRing, DeliveredBeforeUdr, Live, Pos, isfull

\* A byte of the line is younger than every byte in the USART, the ring or the
\* history, and the receive FIFO appends it.
LEMMA ArriveOrdered ==
    ASSUME OrderInv, TypeOK', Arrive
    PROVE  OrderInv'
<1>1. sent' = sent + 1 /\ sent \in Nat
  BY DEF Arrive, OrderInv, TypeOK
<1>2. InOrder' /\ RingOrdered'
  BY <1>1, SMTT(30)
     DEF Arrive, OrderInv, TypeOK, InOrder, RingOrdered, Live, Pos, isfull, ring
<1>3. UNCHANGED <<base, first, last, full, pc, delivered>>
  BY DEF Arrive, ring
<1>4. FlagLags' /\ PopFindsByte'
  BY <1>3 DEF OrderInv, FlagLags, PopFindsByte, Live, Pos, isfull
<1>5. DeliveredBeforeRing'
  BY <1>3 DEF OrderInv, DeliveredBeforeRing, Live, Pos, isfull
<1>6. CASE udr' = udr
  BY <1>1, <1>2, <1>3, <1>4, <1>5, <1>6, SMTT(30)
     DEF OrderInv, TypeOK, UdrOrdered, RingBeforeUdr, DeliveredBeforeUdr, Live, Pos, isfull
<1>7. CASE udr' = Append(udr, sent + 1)
  <2>1. /\ Len(udr) \in Nat /\ Len(udr') = Len(udr) + 1
        /\ \A j \in 1 .. Len(udr) : udr'[j] = udr[j]
        /\ udr'[Len(udr) + 1] = sent + 1
    BY <1>7, <1>1, SMTT(30) DEF OrderInv, TypeOK
  <2>2. \A j \in 1 .. Len(udr') : j \in 1 .. Len(udr) \/ j = Len(udr) + 1
    BY <2>1
  <2>3. UdrOrdered'
    <3>1. \A j \in 1 .. Len(udr) : udr[j] \in 1 .. sent
      BY DEF OrderInv, UdrOrdered
    <3>2. \A j \in 1 .. Len(udr') : udr'[j] \in 1 .. sent'
      BY <1>1, <2>1, <2>2, <3>1
    <3>3. ASSUME NEW i \in 1 .. Len(udr'), NEW j \in 1 .. Len(udr'), i < j
          PROVE  udr'[i] < udr'[j]
      <4>1. i \in 1 .. Len(udr)
        BY <2>1, <3>3
      <4>2. CASE j \in 1 .. Len(udr)
        BY <2>1, <3>3, <4>1, <4>2 DEF OrderInv, UdrOrdered
      <4>3. CASE j = Len(udr) + 1
        BY <1>1, <2>1, <3>1, <4>1, <4>3
      <4> QED
        BY <2>2, <4>2, <4>3
    <3> QED
      BY <3>2, <3>3 DEF UdrOrdered
  <2>4. RingBeforeUdr'
    <3> SUFFICES ASSUME NEW s \in Slots, NEW j \in 1 .. Len(udr'), Live(s)
                 PROVE  base[s] < udr'[j]
      BY <1>3 DEF RingBeforeUdr, Live, Pos, isfull
    <3>1. base[s] \in 1 .. sent
      BY DEF OrderInv, RingOrdered
    <3>2. CASE j \in 1 .. Len(udr)
      BY <2>1, <3>2 DEF OrderInv, RingBeforeUdr
    <3>3. CASE j = Len(udr) + 1
      BY <1>1, <2>1, <3>1, <3>3
    <3> QED
      BY <2>2, <3>2, <3>3
  <2>5. DeliveredBeforeUdr'
    <3> SUFFICES ASSUME NEW i \in 1 .. Len(delivered), NEW j \in 1 .. Len(udr')
                 PROVE  delivered[i] < udr'[j]
      BY <1>3 DEF DeliveredBeforeUdr
    <3>1. delivered[i] \in 1 .. sent
      BY DEF OrderInv, InOrder
    <3>2. CASE j \in 1 .. Len(udr)
      BY <2>1, <3>2 DEF OrderInv, DeliveredBeforeUdr
    <3>3. CASE j = Len(udr) + 1
      BY <1>1, <2>1, <3>1, <3>3
    <3> QED
      BY <2>2, <3>2, <3>3
  <2> QED
    BY <1>2, <1>4, <1>5, <2>3, <2>4, <2>5 DEF OrderInv
<1> QED
  BY <1>1, <1>6, <1>7 DEF Arrive

\* The oldest byte of the USART leaves it.
LEMMA TailOfUdr ==
    ASSUME TypeOK, udr # <<>>, udr' = Tail(udr)
    PROVE  /\ Len(udr) \in Nat \ {0} /\ Len(udr') = Len(udr) - 1
           /\ Head(udr) = udr[1] /\ Head(udr) \in Nat
           /\ \A j \in 1 .. Len(udr') : j + 1 \in 1 .. Len(udr) /\ udr'[j] = udr[j + 1]
<1>1. udr \in Seq(Nat)
  BY DEF TypeOK
<1> QED
  BY <1>1

\* What a successful push does to the slots the indices reach.
LEMMA PushSlots ==
    ASSUME TypeOK, NEW val \in Nat, push(val), ~full
    PROVE  /\ first' = first
           /\ \A s \in Slots : /\ Pos(s)' = Pos(s)
                               /\ Live(s)' => Live(s) \/ s = last
                               /\ Live(s) => s # last /\ Pos(s) < Pos(last)
                               /\ base'[s] = IF s = last THEN val ELSE base[s]
           /\ Live(first)'
           /\ full' => first' = last'
<1>1. /\ first \in Slots /\ last \in Slots /\ RX_BUFFER_SIZE \in Nat
      /\ RX_BUFFER_SIZE >= 2
      /\ first' = first /\ full' = (first = last')
      /\ base' = [base EXCEPT ![last] = val] /\ base \in [Slots -> Nat]
      /\ last' = IF last + 1 = RX_BUFFER_SIZE THEN 0 ELSE last + 1
  BY SizeAssumption, ShiftedIdx DEF TypeOK, push
<1>2. ASSUME NEW s \in Slots PROVE Pos(s)' = Pos(s)
  BY <1>1 DEF Pos
<1>3. ASSUME NEW s \in Slots PROVE base'[s] = IF s = last THEN val ELSE base[s]
  BY <1>1
<1>4. ASSUME NEW s \in Slots, Live(s) PROVE s # last /\ Pos(s) < Pos(last)
  BY <1>1, <1>4 DEF Live, isfull, Pos, Slots
<1>5. ASSUME NEW s \in Slots, Live(s)' PROVE Live(s) \/ s = last
  BY <1>1, <1>5 DEF Live, isfull, Pos, Slots
<1>6. Live(first)'
  <2>1. CASE first = last'
    BY <1>1, <2>1 DEF Live, isfull
  <2>2. CASE first # last'
    <3>1. last' \in Slots
      BY <1>1 DEF Slots
    <3>2. Pos(first)' = 0 /\ Pos(last)' > 0
      BY <1>1, <2>2, <3>1 DEF Pos, Slots
    <3> QED
      BY <3>2 DEF Live
  <2> QED
    BY <2>1, <2>2
<1> QED
  BY <1>1, <1>2, <1>3, <1>4, <1>5, <1>6

\* The handler takes the USART's oldest byte.  It is younger than everything in
\* the ring, so storing it behind the others or dropping it both keep the order.
LEMMA RxIsrOrdered ==
    ASSUME OrderInv, TypeOK', RxIsr
    PROVE  OrderInv'
<1> USE DEF OrderInv
<1>1. UNCHANGED <<sent, delivered>> /\ pc' = IF pc = "asleep" THEN "avail" ELSE pc
  BY DEF RxIsr
<1>2. InOrder'
  BY <1>1 DEF InOrder
<1>3. CASE UNCHANGED <<udr, ring>>
  BY <1>1, <1>2, <1>3
     DEF ring, RingOrdered, UdrOrdered, RingBeforeUdr, DeliveredBeforeRing,
         DeliveredBeforeUdr, FlagLags, PopFindsByte, Live, Pos, isfull
<1>4. CASE push(Head(udr)) /\ udr' = Tail(udr)
  <2>1. /\ Len(udr) \in Nat \ {0} /\ Len(udr') = Len(udr) - 1
        /\ Head(udr) = udr[1] /\ Head(udr) \in Nat
        /\ \A j \in 1 .. Len(udr') : j + 1 \in 1 .. Len(udr) /\ udr'[j] = udr[j + 1]
    BY <1>4, TailOfUdr DEF RxIsr
  <2>2. UdrOrdered'
    <3>1. \A j \in 1 .. Len(udr') : udr'[j] \in 1 .. sent'
      BY <1>1, <2>1 DEF UdrOrdered
    <3>2. ASSUME NEW i \in 1 .. Len(udr'), NEW j \in 1 .. Len(udr'), i < j
          PROVE  udr'[i] < udr'[j]
      <4>1. /\ i + 1 \in 1 .. Len(udr) /\ j + 1 \in 1 .. Len(udr) /\ i + 1 < j + 1
            /\ udr'[i] = udr[i + 1] /\ udr'[j] = udr[j + 1]
        BY <2>1, <3>2
      <4> QED
        BY <4>1 DEF UdrOrdered
    <3> QED
      BY <3>1, <3>2 DEF UdrOrdered
  <2>3. DeliveredBeforeUdr'
    BY <1>1, <2>1 DEF DeliveredBeforeUdr
  <2>4. CASE full
    <3>1. UNCHANGED ring
      BY <1>4, <2>4 DEF push
    <3>2. RingBeforeUdr'
      BY <2>1, <3>1 DEF ring, RingBeforeUdr, Live, Pos, isfull
    <3> QED
      BY <1>1, <1>2, <2>2, <2>3, <3>1, <3>2
         DEF ring, RingOrdered, DeliveredBeforeRing, FlagLags, PopFindsByte,
             Live, Pos, isfull
  <2>5. CASE ~full
    <3>1. /\ first' = first
          /\ \A s \in Slots : /\ Pos(s)' = Pos(s)
                              /\ Live(s)' => Live(s) \/ s = last
                              /\ Live(s) => s # last /\ Pos(s) < Pos(last)
                              /\ base'[s] = IF s = last THEN Head(udr) ELSE base[s]
          /\ Live(first)'
          /\ full' => first' = last'
      BY <1>4, <2>1, <2>5, PushSlots
    <3>2. /\ udr[1] \in 1 .. sent
          /\ \A s \in Slots : Live(s) => base[s] < udr[1]
          /\ \A i \in 1 .. Len(delivered) : delivered[i] < udr[1]
          /\ \A j \in 1 .. Len(udr') : udr[1] < udr'[j]
      BY <2>1 DEF UdrOrdered, RingBeforeUdr, DeliveredBeforeUdr
    <3>3. RingOrdered'
      <4>1. ASSUME NEW s \in Slots, Live(s)' PROVE base'[s] \in 1 .. sent'
        BY <1>1, <2>1, <3>1, <3>2, <4>1 DEF RingOrdered
      <4>2. ASSUME NEW s \in Slots, NEW t \in Slots, Live(s)', Live(t)',
                   Pos(s)' < Pos(t)'
            PROVE  base'[s] < base'[t]
        <5>1. s # last
          <6>1. t = last \/ Pos(t) < Pos(last)
            BY <3>1, <4>2
          <6>2. Pos(s) < Pos(t)
            BY <3>1, <4>2
          <6>3. \A u \in Slots : Pos(u) \in Nat
            BY SizeAssumption DEF TypeOK, Slots, Pos
          <6>4. last \in Slots
            BY DEF TypeOK
          <6> QED
            BY <6>1, <6>2, <6>3, <6>4
        <5>2. Live(s) /\ base'[s] = base[s]
          BY <3>1, <4>2, <5>1
        <5>3. CASE t = last
          BY <2>1, <3>1, <3>2, <5>2, <5>3
        <5>4. CASE t # last
          BY <3>1, <4>2, <5>2, <5>4 DEF RingOrdered
        <5> QED
          BY <5>3, <5>4
      <4> QED
        BY <4>1, <4>2 DEF RingOrdered
    <3>4. RingBeforeUdr'
      <4> SUFFICES ASSUME NEW s \in Slots, NEW j \in 1 .. Len(udr'), Live(s)'
                   PROVE  base'[s] < udr'[j]
        BY DEF RingBeforeUdr
      <4>1. CASE s = last
        BY <2>1, <3>1, <3>2, <4>1
      <4>2. CASE s # last
        BY <2>1, <3>1, <4>2 DEF RingBeforeUdr
      <4> QED
        BY <4>1, <4>2
    <3>5. DeliveredBeforeRing'
      <4> SUFFICES ASSUME NEW i \in 1 .. Len(delivered), NEW s \in Slots, Live(s)',
                          ~(pc' = "shift" /\ s = first')
                   PROVE  delivered[i] < base'[s]
        BY <1>1 DEF DeliveredBeforeRing
      <4>1. CASE s = last
        BY <2>1, <3>1, <3>2, <4>1
      <4>2. CASE s # last
        BY <1>1, <3>1, <4>2 DEF DeliveredBeforeRing
      <4> QED
        BY <4>1, <4>2
    <3>6. FlagLags' /\ PopFindsByte'
      BY <3>1 DEF FlagLags, PopFindsByte
    <3> QED
      BY <1>2, <2>2, <2>3, <3>3, <3>4, <3>5, <3>6
  <2> QED
    BY <2>4, <2>5
<1> QED
  BY <1>3, <1>4 DEF RxIsr

\* The main loop's tests for a byte: a pop starts only on a ring with a live slot.
LEMMA PollOrdered ==
    ASSUME OrderInv, TypeOK',
           AvailFull \/ AvailLast \/ Sleep \/ RxFull \/ RxLast \/ Delay
               \/ PopFull \/ PopLast
    PROVE  OrderInv'
<1>1. UNCHANGED <<sent, udr, base, first, last, full, delivered>>
  BY DEF AvailFull, AvailLast, Sleep, RxFull, RxLast, Delay, PopFull, PopLast, ring
<1>2. pc \notin {"shift", "clear"}
  BY DEF AvailFull, AvailLast, Sleep, RxFull, RxLast, Delay, PopFull, PopLast, Goto
<1>3. LineOrdered'
  BY <1>1, <1>2, QuietStep
<1>4. FlagLags'
  BY <1>1, <1>2 DEF OrderInv, FlagLags
<1>5. Live(first)' = Live(first)
  BY <1>1 DEF Live, Pos, isfull
<1>6. PopFindsByte'
  <2>1. CASE RxFull /\ full
    BY <1>2, <1>5, <2>1 DEF OrderInv, FlagLags, PopFindsByte, Live, isfull
  <2>2. CASE RxLast /\ first # last
    <3>1. first \in Slots /\ last \in Slots
      BY DEF OrderInv, TypeOK
    <3>2. Pos(first) = 0 /\ Pos(last) > 0
      BY <2>2, <3>1, SizeAssumption DEF Slots, Pos
    <3>3. Live(first)
      BY <3>2 DEF Live
    <3> QED
      BY <1>5, <3>3 DEF PopFindsByte
  <2>3. CASE PopFull \/ (PopLast /\ pc' = "load")
    BY <1>5, <2>3 DEF PopFull, PopLast, OrderInv, PopFindsByte
  <2>4. CASE pc' \notin {"pop", "popLast", "load", "shift"}
    BY <2>4 DEF PopFindsByte
  <2> QED
    BY <2>1, <2>2, <2>3, <2>4
       DEF AvailFull, AvailLast, Sleep, RxFull, RxLast, Delay, PopFull, PopLast,
           Goto, CountByte
<1> QED
  BY <1>3, <1>4, <1>6 DEF OrderInv, LineOrdered

\* The byte handed over is the oldest live one: younger than all of the history,
\* older than the rest of the ring and than the USART.
LEMMA PopLoadOrdered ==
    ASSUME OrderInv, TypeOK', PopLoad
    PROVE  OrderInv'
<1>1. /\ UNCHANGED <<sent, udr, base, first, last, full>>
      /\ pc = "load" /\ pc' = "shift"
      /\ delivered' = Append(delivered, base[first])
  BY DEF PopLoad, Goto, ring
<1>2. /\ Len(delivered) \in Nat /\ Len(delivered') = Len(delivered) + 1
      /\ \A i \in 1 .. Len(delivered) : delivered'[i] = delivered[i]
      /\ delivered'[Len(delivered) + 1] = base[first]
      /\ \A i \in 1 .. Len(delivered') :
             i \in 1 .. Len(delivered) \/ i = Len(delivered) + 1
  <2>1. delivered \in Seq(Nat) /\ base[first] \in Nat
    BY DEF OrderInv, TypeOK
  <2> QED
    BY <1>1, <2>1
<1>3. first \in Slots /\ Live(first)
  BY <1>1 DEF OrderInv, TypeOK, PopFindsByte
<1>4. /\ base[first] \in 1 .. sent
      /\ \A i \in 1 .. Len(delivered) : delivered[i] < base[first]
      /\ \A j \in 1 .. Len(udr) : base[first] < udr[j]
      /\ \A s \in Slots : Live(s) /\ s # first => base[first] < base[s]
  <2>1. \A s \in Slots : s # first => Pos(first) < Pos(s)
    BY <1>3, SizeAssumption DEF Pos, Slots
  <2> QED
    BY <1>1, <1>3, <2>1
       DEF OrderInv, RingOrdered, DeliveredBeforeRing, RingBeforeUdr
<1>5. InOrder'
  <2>1. \A i \in 1 .. Len(delivered') : delivered'[i] \in 1 .. sent'
    BY <1>1, <1>2, <1>4 DEF OrderInv, InOrder
  <2>2. ASSUME NEW i \in 1 .. Len(delivered'), NEW j \in 1 .. Len(delivered'), i < j
        PROVE  delivered'[i] < delivered'[j]
    <3>1. i \in 1 .. Len(delivered)
      BY <1>2, <2>2
    <3>2. CASE j \in 1 .. Len(delivered)
      BY <1>2, <2>2, <3>1, <3>2 DEF OrderInv, InOrder
    <3>3. CASE j = Len(delivered) + 1
      BY <1>2, <1>4, <3>1, <3>3
    <3> QED
      BY <1>2, <3>2, <3>3
  <2> QED
    BY <2>1, <2>2 DEF InOrder
<1>6. DeliveredBeforeRing'
  <2> SUFFICES ASSUME NEW i \in 1 .. Len(delivered'), NEW s \in Slots, Live(s), s # first
               PROVE  delivered'[i] < base[s]
    BY <1>1 DEF DeliveredBeforeRing, Live, Pos, isfull
  <2>1. CASE i \in 1 .. Len(delivered)
    BY <1>2, <2>1 DEF OrderInv, DeliveredBeforeRing
  <2>2. CASE i = Len(delivered) + 1
    BY <1>2, <1>4, <2>2
  <2> QED
    BY <1>2, <2>1, <2>2
<1>7. DeliveredBeforeUdr'
  <2> SUFFICES ASSUME NEW i \in 1 .. Len(delivered'), NEW j \in 1 .. Len(udr)
               PROVE  delivered'[i] < udr[j]
    BY <1>1 DEF DeliveredBeforeUdr
  <2>1. CASE i \in 1 .. Len(delivered)
    BY <1>2, <2>1 DEF OrderInv, DeliveredBeforeUdr
  <2>2. CASE i = Len(delivered) + 1
    BY <1>2, <1>4, <2>2
  <2> QED
    BY <1>2, <2>1, <2>2
<1>8. RingOrdered' /\ UdrOrdered' /\ RingBeforeUdr' /\ FlagLags' /\ PopFindsByte'
  BY <1>1, <1>3
     DEF OrderInv, RingOrdered, UdrOrdered, RingBeforeUdr, FlagLags, PopFindsByte,
         Live, Pos, isfull
<1> QED
  BY <1>5, <1>6, <1>7, <1>8 DEF OrderInv

\* Moving "first" frees the slot that was handed over, and no other, even when
\* the flag still says that the ring is full.
LEMMA ShiftSlots ==
    ASSUME TypeOK, FlagLags, Live(first), pc = "shift",
           first' = shifted_idx(first), UNCHANGED <<last, full>>
    PROVE  /\ \A s \in Slots : Live(s)' => Live(s) /\ s # first
           /\ \A s, t \in Slots :
                  s # first /\ t # first /\ Pos(s)' < Pos(t)' => Pos(s) < Pos(t)
<1>1. /\ first \in Slots /\ last \in Slots /\ RX_BUFFER_SIZE \in Nat
      /\ RX_BUFFER_SIZE >= 2 /\ last' = last /\ full' = full
      /\ first' = IF first + 1 = RX_BUFFER_SIZE THEN 0 ELSE first + 1
  BY SizeAssumption, ShiftedIdx DEF TypeOK
<1>2. full => first = last
  BY DEF FlagLags
<1>3. first' \in Slots /\ first' # first
  BY <1>1 DEF Slots
<1>4. ~isfull'
  BY <1>1, <1>2, <1>3 DEF isfull
<1>5. \A s \in Slots : Pos(s)' = IF s = first THEN RX_BUFFER_SIZE - 1 ELSE Pos(s) - 1
  BY <1>1, <1>3 DEF Slots, Pos
<1>6. \A s \in Slots : Pos(s) \in 0 .. RX_BUFFER_SIZE - 1
  BY <1>1 DEF Slots, Pos
<1>7. ASSUME NEW s \in Slots, Live(s)' PROVE Live(s) /\ s # first
  <2>1. Pos(s)' < Pos(last)'
    BY <1>1, <1>4, <1>7 DEF Live
  <2>2. s # first
    BY <1>1, <1>5, <1>6, <2>1
  <2>3. CASE isfull
    BY <2>2, <2>3 DEF Live
  <2>4. CASE ~isfull
    <3>1. first # last
      BY <1>1, <2>4 DEF Live, Pos, Slots
    <3> QED
      BY <1>1, <1>5, <1>6, <2>1, <2>2, <3>1 DEF Live
  <2> QED
    BY <2>3, <2>4
<1>8. \A s, t \in Slots :
         s # first /\ t # first /\ Pos(s)' < Pos(t)' => Pos(s) < Pos(t)
  BY <1>5, <1>6
<1> QED
  BY <1>1, <1>2, <1>3, <1>7, <1>8

LEMMA PopShiftOrdered ==
    ASSUME OrderInv, TypeOK', PopShift
    PROVE  OrderInv'
<1>1. /\ UNCHANGED <<sent, udr, base, last, full, delivered>>
      /\ pc = "shift" /\ pc' = "clear" /\ first' = shifted_idx(first)
  BY DEF PopShift, Goto
<1>2. /\ \A s \in Slots : Live(s)' => Live(s) /\ s # first
      /\ \A s, t \in Slots :
             s # first /\ t # first /\ Pos(s)' < Pos(t)' => Pos(s) < Pos(t)
  BY <1>1, ShiftSlots DEF OrderInv, PopFindsByte
<1>3. InOrder' /\ UdrOrdered' /\ DeliveredBeforeUdr' /\ FlagLags' /\ PopFindsByte'
  BY <1>1 DEF OrderInv, InOrder, UdrOrdered, DeliveredBeforeUdr, FlagLags, PopFindsByte
<1>4. RingOrdered'
  BY <1>1, <1>2 DEF OrderInv, RingOrdered
<1>5. RingBeforeUdr'
  BY <1>1, <1>2 DEF OrderInv, RingBeforeUdr
<1>6. DeliveredBeforeRing'
  BY <1>1, <1>2 DEF OrderInv, DeliveredBeforeRing
<1> QED
  BY <1>3, <1>4, <1>5, <1>6 DEF OrderInv

\* Clearing the flag can only forget slots: all of them, if the handler filled the
\* ring between the two writes of the pop.
LEMMA PopClearOrdered ==
    ASSUME OrderInv, TypeOK', PopClear
    PROVE  OrderInv'
<1>1. /\ UNCHANGED <<sent, udr, base, first, last, delivered>>
      /\ pc = "clear" /\ full' = FALSE /\ pc' \in {"rx", "avail"}
  BY DEF PopClear, CountByte
<1>2. /\ \A s \in Slots : Live(s)' => Live(s)
      /\ \A s \in Slots : Pos(s)' = Pos(s)
  BY <1>1 DEF Live, Pos, isfull
<1>3. InOrder' /\ UdrOrdered' /\ DeliveredBeforeUdr' /\ FlagLags' /\ PopFindsByte'
  BY <1>1 DEF OrderInv, InOrder, UdrOrdered, DeliveredBeforeUdr, FlagLags, PopFindsByte
<1>4. RingOrdered' /\ RingBeforeUdr'
  BY <1>1, <1>2 DEF OrderInv, RingOrdered, RingBeforeUdr
<1>5. DeliveredBeforeRing'
  BY <1>1, <1>2 DEF OrderInv, DeliveredBeforeRing
<1> QED
  BY <1>3, <1>4, <1>5 DEF OrderInv

LEMMA OrderInductive == OrderInv /\ [Next]_vars => OrderInv'
<1> SUFFICES ASSUME OrderInv, [Next]_vars PROVE OrderInv'
  OBVIOUS
<1>1. TypeOK'
  BY TypeInductive DEF OrderInv
<1>2. CASE Arrive
  BY <1>1, <1>2, ArriveOrdered
<1>3. CASE RxIsr
  BY <1>1, <1>3, RxIsrOrdered
<1>4. CASE AvailFull \/ AvailLast \/ Sleep \/ RxFull \/ RxLast \/ Delay
               \/ PopFull \/ PopLast
  BY <1>1, <1>4, PollOrdered
<1>5. CASE PopLoad
  BY <1>1, <1>5, PopLoadOrdered
<1>6. CASE PopShift
  BY <1>1, <1>6, PopShiftOrdered
<1>7. CASE PopClear
  BY <1>1, <1>7, PopClearOrdered
<1>8. CASE UNCHANGED vars
  BY <1>1, <1>8
     DEF vars, ring, OrderInv, InOrder, RingOrdered, UdrOrdered, RingBeforeUdr,
         DeliveredBeforeRing, DeliveredBeforeUdr, FlagLags, PopFindsByte, Live, Pos,
         isfull
<1> QED
  BY <1>2, <1>3, <1>4, <1>5, <1>6, <1>7, <1>8 DEF Next, Main

LEMMA OrderInit == Init => OrderInv
<1> SUFFICES ASSUME Init PROVE OrderInv
  OBVIOUS
<1>1. Len(udr) = 0 /\ Len(delivered) = 0
  BY DEF Init
<1>2. \A s \in Slots : ~Live(s)
  BY DEF Init, Live, Pos, isfull, Slots
<1> QED
  BY <1>1, <1>2, InitTypes
     DEF Init, OrderInv, InOrder, RingOrdered, UdrOrdered, RingBeforeUdr,
         DeliveredBeforeRing, DeliveredBeforeUdr, FlagLags, PopFindsByte

\* Whatever the host sends and however the handler interrupts the main loop,
\* serial_rx() hands over bytes of the line in line order, none twice.
THEOREM DeliveredInOrder == Spec => []InOrder
<1>1. Init => OrderInv
  BY OrderInit
<1>2. OrderInv /\ [Next]_vars => OrderInv'
  BY OrderInductive
<1>3. OrderInv => InOrder
  BY DEF OrderInv
<1> QED
  BY <1>1, <1>2, <1>3, PTL DEF Spec

-----------------------------------------------------------------------------
(* Exact delivery inside the window.  With fewer bytes on their way than the *)
(* ring has slots, every byte of the line is in its place: delivered, in the *)
(* ring or in the USART.                                                     *)

\* Slots in use, the one a pop has read and not freed yet among them.
Held == IF isfull THEN RX_BUFFER_SIZE ELSE Pos(last)

\* Bytes whose slots are free again.
Freed == IF pc = "shift" THEN Len(delivered) - 1 ELSE Len(delivered)

ExactInv ==
    /\ OrderInv
    /\ ~gap
    /\ \A i \in 1 .. Len(delivered) : delivered[i] = i
    /\ pc = "shift" => Len(delivered) > 0
    /\ Freed + Held + Len(udr) = sent
    /\ sent - Len(delivered) <= WINDOW
    /\ \A s \in Slots : Live(s) => base[s] = Freed + 1 + Pos(s)
    /\ \A j \in 1 .. Len(udr) : udr[j] = Freed + Held + j
    /\ pc = "clear" /\ full => first # last /\ Held = RX_BUFFER_SIZE - 1

LEMMA PosBounds ==
    ASSUME TypeOK
    PROVE  /\ \A s \in Slots : Pos(s) \in 0 .. RX_BUFFER_SIZE - 1
           /\ Pos(first) = 0
           /\ \A s \in Slots : s # first => Pos(s) > 0
           /\ Held \in 0 .. RX_BUFFER_SIZE
           /\ Freed \in Int /\ Len(delivered) \in Nat /\ Len(udr) \in Nat
<1>1. first \in Slots /\ last \in Slots /\ RX_BUFFER_SIZE \in Nat /\ RX_BUFFER_SIZE >= 2
  BY SizeAssumption DEF TypeOK
<1>2. \A s \in Slots : Pos(s) \in 0 .. RX_BUFFER_SIZE - 1 /\ (s # first => Pos(s) > 0)
  BY <1>1 DEF Slots, Pos
<1>3. Pos(first) = 0
  BY <1>1 DEF Slots, Pos
<1>4. Len(delivered) \in Nat /\ Len(udr) \in Nat
  BY DEF TypeOK
<1> QED
  BY <1>1, <1>2, <1>3, <1>4 DEF Held, Freed

\* A successful push adds one byte to the ring.
LEMMA PushHeld ==
    ASSUME TypeOK, NEW val \in Nat, push(val), ~full
    PROVE  Held' = Held + 1
<1>1. /\ first \in Slots /\ last \in Slots /\ full' = (first = last')
      /\ last' = IF last + 1 = RX_BUFFER_SIZE THEN 0 ELSE last + 1
      /\ RX_BUFFER_SIZE \in Nat /\ RX_BUFFER_SIZE >= 2 /\ first' = first
  BY SizeAssumption, ShiftedIdx DEF TypeOK, push
<1>2. Held = Pos(last)
  BY DEF Held, isfull
<1>3. CASE first = last'
  <2>1. Held' = RX_BUFFER_SIZE
    BY <1>1, <1>3 DEF Held, isfull
  <2>2. Pos(last) = RX_BUFFER_SIZE - 1
    BY <1>1, <1>3 DEF Slots, Pos
  <2> QED
    BY <1>1, <1>2, <2>1, <2>2
<1>4. CASE first # last'
  <2>1. Held' = Pos(last)'
    BY <1>1, <1>4 DEF Held, isfull
  <2>2. Pos(last)' = Pos(last) + 1
    BY <1>1, <1>4 DEF Slots, Pos
  <2> QED
    BY <1>2, <2>1, <2>2
<1> QED
  BY <1>3, <1>4

\* A pop that moves "first" takes one byte from the ring, and if the ring was full its
\* flag stays up over one free slot.
LEMMA ShiftHeld ==
    ASSUME OrderInv, PopShift
    PROVE  /\ Held' = Held - 1
           /\ full' => first' # last' /\ Held' = RX_BUFFER_SIZE - 1
           /\ \A s \in Slots :
                  Pos(s)' = IF s = first THEN RX_BUFFER_SIZE - 1 ELSE Pos(s) - 1
<1>1. /\ UNCHANGED <<last, full>>
      /\ pc = "shift" /\ first' = shifted_idx(first)
      /\ first \in Slots /\ last \in Slots /\ Live(first) /\ TypeOK
  BY DEF PopShift, Goto, OrderInv, TypeOK, PopFindsByte
<1>2. /\ RX_BUFFER_SIZE \in Nat /\ RX_BUFFER_SIZE >= 2
      /\ first' = IF first + 1 = RX_BUFFER_SIZE THEN 0 ELSE first + 1
      /\ full => first = last
  BY <1>1, SizeAssumption, ShiftedIdx DEF OrderInv, FlagLags
<1>3. first' \in Slots /\ first' # first
  BY <1>1, <1>2 DEF Slots
<1>4. \A s \in Slots : Pos(s)' = IF s = first THEN RX_BUFFER_SIZE - 1 ELSE Pos(s) - 1
  BY <1>1, <1>2, <1>3 DEF Slots, Pos
<1>5. ~isfull' /\ Held' = Pos(last)'
  BY <1>1, <1>2, <1>3 DEF isfull, Held
<1>6. Held' = Held - 1
  <2>1. CASE isfull
    BY <1>1, <1>2, <1>4, <1>5, <2>1 DEF isfull, Held
  <2>2. CASE ~isfull
    <3>1. first # last
      BY <1>1, <2>2, PosBounds DEF Live
    <3> QED
      BY <1>1, <1>4, <1>5, <2>2, <3>1 DEF Held
  <2> QED
    BY <2>1, <2>2
<1>7. full' => first' # last' /\ Held' = RX_BUFFER_SIZE - 1
  BY <1>1, <1>2, <1>3, <1>6 DEF isfull, Held
<1> QED
  BY <1>4, <1>6, <1>7

\* Between two pops the window keeps one slot free, so the flag is down.
LEMMA WindowKeepsASlot ==
    ASSUME ExactInv, WINDOW < RX_BUFFER_SIZE, pc # "shift"
    PROVE  /\ ~isfull
           /\ Held = Pos(last) /\ Freed = Len(delivered)
           /\ Held + Len(udr) <= WINDOW
           /\ full => pc = "clear" /\ Held = RX_BUFFER_SIZE - 1
<1>1. /\ Freed = Len(delivered) /\ Freed + Held + Len(udr) = sent
      /\ sent - Len(delivered) <= WINDOW /\ WINDOW \in Nat /\ sent \in Nat
      /\ Held \in Int /\ Len(udr) \in Nat /\ Len(delivered) \in Nat
      /\ RX_BUFFER_SIZE \in Nat
  BY PosBounds, WindowAssumption, SizeAssumption DEF ExactInv, OrderInv, TypeOK, Freed
<1>2. Held + Len(udr) <= WINDOW
  BY <1>1
<1>3. Held # RX_BUFFER_SIZE
  BY <1>1, <1>2
<1>4. ~isfull /\ Held = Pos(last)
  BY <1>3 DEF Held
<1>5. full => pc = "clear"
  BY <1>4 DEF ExactInv, OrderInv, FlagLags, isfull
<1> QED
  BY <1>1, <1>2, <1>4, <1>5 DEF ExactInv

LEMMA ArriveExact ==
    ASSUME ExactInv, WINDOW < RX_BUFFER_SIZE, OrderInv', Arrive
    PROVE  ExactInv'
<1>1. /\ sent \in Nat /\ sent' = sent + 1 /\ sent - Len(delivered) < WINDOW
      /\ UNCHANGED <<base, first, last, full, pc, delivered, gap>>
      /\ Freed' = Freed /\ Held' = Held
      /\ \A s \in Slots : Pos(s)' = Pos(s) /\ Live(s)' = Live(s)
  BY DEF Arrive, ring, ExactInv, OrderInv, TypeOK, Freed, Held, Pos, Live, isfull
<1>2. /\ Freed \in Int /\ Len(udr) \in Nat /\ Len(delivered) \in Nat
      /\ Held \in 0 .. RX_BUFFER_SIZE /\ RX_BUFFER_SIZE \in Nat /\ WINDOW \in Nat
      /\ Freed + Held + Len(udr) = sent
      /\ Freed <= Len(delivered) /\ Freed >= Len(delivered) - 1
  BY PosBounds, SizeAssumption, WindowAssumption DEF ExactInv, OrderInv, Freed
<1>3. ~isfull
  <2>1. SUFFICES ASSUME isfull PROVE FALSE
    OBVIOUS
  <2>2. Held = RX_BUFFER_SIZE
    BY <2>1 DEF Held
  <2> QED
    BY <1>1, <1>2, <2>2
<1>4. udr' = Append(udr, sent + 1) /\ udr \in Seq(Nat)
  BY <1>1, <1>3 DEF Arrive, ExactInv, OrderInv, TypeOK
<1>5. /\ Len(udr') = Len(udr) + 1
      /\ \A j \in 1 .. Len(udr') :
             udr'[j] = IF j = Len(udr) + 1 THEN sent + 1 ELSE udr[j]
      /\ \A j \in 1 .. Len(udr') : j # Len(udr) + 1 => j \in 1 .. Len(udr)
  BY <1>1, <1>4
<1>6. \A j \in 1 .. Len(udr') : udr'[j] = Freed' + Held' + j
  <2>1. \A j \in 1 .. Len(udr) : udr[j] = Freed + Held + j
    BY DEF ExactInv
  <2> QED
    BY <1>1, <1>2, <1>5, <2>1
<1>7. Freed' + Held' + Len(udr') = sent' /\ sent' - Len(delivered') <= WINDOW
  BY <1>1, <1>2, <1>5
<1> QED
  BY <1>1, <1>6, <1>7 DEF ExactInv

LEMMA RxIsrExact ==
    ASSUME ExactInv, WINDOW < RX_BUFFER_SIZE, OrderInv', RxIsr
    PROVE  ExactInv'
<1>1. /\ UNCHANGED <<sent, delivered, gap>> /\ sent \in Nat /\ TypeOK
      /\ pc' = IF pc = "asleep" THEN "avail" ELSE pc
      /\ Freed' = Freed
  BY DEF RxIsr, ExactInv, OrderInv, TypeOK, Freed
<1>2. CASE UNCHANGED <<udr, ring>>
  <2>1. Held' = Held /\ \A s \in Slots : Pos(s)' = Pos(s) /\ Live(s)' = Live(s)
    BY <1>2 DEF ring, Held, Pos, Live, isfull
  <2> QED
    BY <1>1, <1>2, <2>1 DEF ring, ExactInv
<1>3. CASE push(Head(udr)) /\ udr' = Tail(udr)
  <2>1. /\ Len(udr) \in Nat \ {0} /\ Len(udr') = Len(udr) - 1
        /\ Head(udr) = udr[1] /\ Head(udr) \in Nat
        /\ \A j \in 1 .. Len(udr') : j + 1 \in 1 .. Len(udr) /\ udr'[j] = udr[j + 1]
    BY <1>1, <1>3, TailOfUdr DEF RxIsr
  <2>2. /\ Freed \in Int /\ Len(delivered) \in Nat
        /\ Held \in 0 .. RX_BUFFER_SIZE /\ RX_BUFFER_SIZE \in Nat
        /\ RX_BUFFER_SIZE >= 2 /\ WINDOW \in Nat
        /\ Freed + Held + Len(udr) = sent /\ sent - Len(delivered) <= WINDOW
        /\ Freed <= Len(delivered) /\ Freed >= Len(delivered) - 1
        /\ udr[1] = Freed + Held + 1
    <3>1. /\ Freed \in Int /\ Len(delivered) \in Nat
          /\ Held \in 0 .. RX_BUFFER_SIZE
      BY <1>1, PosBounds
    <3>2. Freed <= Len(delivered) /\ Freed >= Len(delivered) - 1
      BY <3>1 DEF Freed
    <3>3. /\ Freed + Held + Len(udr) = sent /\ sent - Len(delivered) <= WINDOW
          /\ \A j \in 1 .. Len(udr) : udr[j] = Freed + Held + j
      BY DEF ExactInv
    <3> QED
      BY <2>1, <3>1, <3>2, <3>3, SizeAssumption, WindowAssumption
  <2>3. ~isfull /\ Held = Pos(last)
    <3>1. Held < RX_BUFFER_SIZE
      BY <1>1, <2>1, <2>2
    <3> QED
      BY <2>2, <3>1 DEF Held
  <2>4. ~full
    <3>1. SUFFICES ASSUME full PROVE FALSE
      OBVIOUS
    <3>2. pc = "clear"
      BY <2>3, <3>1 DEF ExactInv, OrderInv, FlagLags, isfull
    <3>3. Held = RX_BUFFER_SIZE - 1 /\ Freed = Len(delivered)
      BY <3>1, <3>2 DEF ExactInv, Freed
    <3> QED
      BY <1>1, <2>1, <2>2, <3>3
  <2>5. /\ first' = first
        /\ \A s \in Slots : /\ Pos(s)' = Pos(s)
                            /\ Live(s)' => Live(s) \/ s = last
                            /\ Live(s) => s # last /\ Pos(s) < Pos(last)
                            /\ base'[s] = IF s = last THEN Head(udr) ELSE base[s]
    BY <1>1, <1>3, <2>1, <2>4, PushSlots
  <2>6. Held' = Held + 1 /\ last \in Slots
    BY <1>1, <1>3, <2>1, <2>3, <2>4, PushHeld DEF TypeOK
  <2>7. ASSUME NEW s \in Slots, Live(s)' PROVE base'[s] = Freed' + 1 + Pos(s)'
    <3>1. CASE s = last
      BY <1>1, <2>1, <2>2, <2>3, <2>5, <3>1
    <3>2. CASE s # last
      BY <1>1, <2>5, <2>7, <3>2 DEF ExactInv
    <3> QED
      BY <3>1, <3>2
  <2>8. \A j \in 1 .. Len(udr') : udr'[j] = Freed' + Held' + j
    <3> SUFFICES ASSUME NEW j \in 1 .. Len(udr') PROVE udr'[j] = Freed' + Held' + j
      OBVIOUS
    <3>1. j \in Nat /\ udr'[j] = Freed + Held + (j + 1)
      BY <2>1 DEF ExactInv
    <3> QED
      BY <1>1, <2>2, <2>6, <3>1
  <2>9. pc' = "clear" => ~full'
    <3>1. SUFFICES ASSUME pc' = "clear", full' PROVE FALSE
      OBVIOUS
    <3>2. pc = "clear" /\ Freed = Len(delivered)
      BY <1>1, <3>1 DEF Freed
    <3>3. Held' = RX_BUFFER_SIZE
      BY <1>3, <2>4, <2>5, <3>1 DEF push, Held, isfull
    <3> QED
      BY <1>1, <2>1, <2>2, <2>6, <3>2, <3>3
  <2>10. Freed' + Held' + Len(udr') = sent'
    <3>1. Freed' = Freed /\ Held' = Held + 1 /\ Len(udr') = Len(udr) - 1 /\ sent' = sent
      BY <1>1, <2>1, <2>6
    <3> QED
      BY <2>1, <2>2, <3>1
  <2> QED
    BY <1>1, <2>7, <2>8, <2>9, <2>10 DEF ExactInv
<1> QED
  BY <1>2, <1>3 DEF RxIsr

\* Inside the window the second test for emptiness cannot fail after the first one
\* succeeded, so no byte is counted that was not stored.
LEMMA PollExact ==
    ASSUME ExactInv, WINDOW < RX_BUFFER_SIZE, OrderInv',
           AvailFull \/ AvailLast \/ Sleep \/ RxFull \/ RxLast \/ Delay
               \/ PopFull \/ PopLast
    PROVE  ExactInv'
<1>1. UNCHANGED <<sent, udr, base, first, last, full, delivered>>
  BY DEF AvailFull, AvailLast, Sleep, RxFull, RxLast, Delay, PopFull, PopLast, ring
<1>2. pc # "shift" /\ pc' \notin {"shift", "clear"}
  BY DEF AvailFull, AvailLast, Sleep, RxFull, RxLast, Delay, PopFull, PopLast, Goto,
         CountByte
<1>3. /\ Freed' = Freed /\ Held' = Held
      /\ \A s \in Slots : Pos(s)' = Pos(s) /\ Live(s)' = Live(s)
  BY <1>1, <1>2 DEF Freed, Held, Pos, Live, isfull
<1>4. ~gap'
  <2>1. CASE PopLast /\ first = last
    <3>1. Live(first) /\ ~isfull /\ last \in Slots
      BY <1>2, <2>1, WindowKeepsASlot
         DEF PopLast, ExactInv, OrderInv, TypeOK, PopFindsByte
    <3>2. Pos(first) < Pos(last)
      BY <3>1 DEF Live
    <3> QED
      BY <2>1, <3>1, <3>2, PosBounds DEF ExactInv, OrderInv
  <2>2. CASE ~(PopLast /\ first = last)
    BY <2>2 DEF ExactInv, AvailFull, AvailLast, Sleep, RxFull, RxLast, Delay, PopFull,
                PopLast
  <2> QED
    BY <2>1, <2>2
<1> QED
  BY <1>1, <1>2, <1>3, <1>4 DEF ExactInv

LEMMA PopLoadExact ==
    ASSUME ExactInv, OrderInv', PopLoad
    PROVE  ExactInv'
<1>1. /\ UNCHANGED <<sent, udr, base, first, last, full, gap>>
      /\ pc = "load" /\ pc' = "shift"
      /\ delivered' = Append(delivered, base[first])
      /\ delivered \in Seq(Nat) /\ base[first] \in Nat
      /\ first \in Slots /\ Live(first) /\ TypeOK
  BY DEF PopLoad, Goto, ring, ExactInv, OrderInv, TypeOK, PopFindsByte
<1>2. /\ Len(delivered) \in Nat /\ Len(delivered') = Len(delivered) + 1
      /\ \A i \in 1 .. Len(delivered') :
             \/ i \in 1 .. Len(delivered) /\ delivered'[i] = delivered[i]
             \/ i = Len(delivered) + 1 /\ delivered'[i] = base[first]
  BY <1>1
<1>3. Freed = Len(delivered) /\ Freed' = Len(delivered)
  BY <1>1, <1>2 DEF Freed
<1>4. /\ Held' = Held
      /\ \A s \in Slots : Pos(s)' = Pos(s) /\ Live(s)' = Live(s)
  BY <1>1 DEF Held, Pos, Live, isfull
<1>5. base[first] = Len(delivered) + 1
  BY <1>1, <1>2, <1>3, PosBounds DEF ExactInv
<1>6. \A i \in 1 .. Len(delivered') : delivered'[i] = i
  BY <1>2, <1>5 DEF ExactInv
<1>7. sent' - Len(delivered') <= WINDOW
  BY <1>1, <1>2, WindowAssumption DEF ExactInv, TypeOK
<1> QED
  BY <1>1, <1>2, <1>3, <1>4, <1>6, <1>7 DEF ExactInv

LEMMA PopShiftExact ==
    ASSUME ExactInv, OrderInv', PopShift
    PROVE  ExactInv'
<1>1. /\ UNCHANGED <<sent, udr, base, last, full, delivered, gap>>
      /\ pc = "shift" /\ pc' = "clear" /\ first' = shifted_idx(first)
      /\ first \in Slots /\ last \in Slots /\ Live(first) /\ TypeOK
  BY DEF PopShift, Goto, ExactInv, OrderInv, TypeOK, PopFindsByte
<1>2. \A s \in Slots : Live(s)' => Live(s) /\ s # first
  BY <1>1, ShiftSlots DEF ExactInv, OrderInv
<1>3. \A s \in Slots : Pos(s)' = IF s = first THEN RX_BUFFER_SIZE - 1 ELSE Pos(s) - 1
  BY ShiftHeld DEF ExactInv
<1>4. Held' = Held - 1 /\ (full' => first' # last' /\ Held' = RX_BUFFER_SIZE - 1)
  BY ShiftHeld DEF ExactInv
<1>5. Freed' = Freed + 1 /\ Freed \in Int
  BY <1>1, PosBounds DEF Freed
<1>6. Held \in Int /\ Len(udr) \in Nat /\ \A s \in Slots : Pos(s) \in Int
  BY <1>1, PosBounds
<1>7. Freed' + Held' + Len(udr') = sent'
  BY <1>1, <1>4, <1>5, <1>6 DEF ExactInv
<1>8. ASSUME NEW s \in Slots, Live(s)' PROVE base'[s] = Freed' + 1 + Pos(s)'
  <2>1. base[s] = Freed + 1 + Pos(s) /\ s # first
    BY <1>2, <1>8 DEF ExactInv
  <2> QED
    BY <1>1, <1>3, <1>5, <1>6, <2>1
<1>9. \A j \in 1 .. Len(udr') : udr'[j] = Freed' + Held' + j
  <2> SUFFICES ASSUME NEW j \in 1 .. Len(udr) PROVE udr[j] = Freed' + Held' + j
    BY <1>1
  <2>1. udr[j] = Freed + Held + j /\ j \in Nat
    BY <1>6 DEF ExactInv
  <2> QED
    BY <1>4, <1>5, <1>6, <2>1
<1> QED
  BY <1>1, <1>4, <1>7, <1>8, <1>9 DEF ExactInv

LEMMA PopClearExact ==
    ASSUME ExactInv, WINDOW < RX_BUFFER_SIZE, OrderInv', PopClear
    PROVE  ExactInv'
<1>1. /\ UNCHANGED <<sent, udr, base, first, last, delivered, gap>>
      /\ pc = "clear" /\ full' = FALSE /\ pc' \in {"rx", "avail"}
  BY DEF PopClear, CountByte
<1>2. ~isfull
  BY <1>1, WindowKeepsASlot
<1>3. /\ Freed' = Freed /\ Held' = Held
      /\ \A s \in Slots : Pos(s)' = Pos(s) /\ Live(s)' = Live(s)
  BY <1>1, <1>2 DEF Freed, Held, Pos, Live, isfull
<1> QED
  BY <1>1, <1>3 DEF ExactInv

LEMMA ExactInductive ==
    ASSUME ExactInv, WINDOW < RX_BUFFER_SIZE, [Next]_vars
    PROVE  ExactInv'
<1>1. OrderInv'
  BY OrderInductive DEF ExactInv
<1>2. CASE Arrive
  BY <1>1, <1>2, ArriveExact
<1>3. CASE RxIsr
  BY <1>1, <1>3, RxIsrExact
<1>4. CASE AvailFull \/ AvailLast \/ Sleep \/ RxFull \/ RxLast \/ Delay
               \/ PopFull \/ PopLast
  BY <1>1, <1>4, PollExact
<1>5. CASE PopLoad
  BY <1>1, <1>5, PopLoadExact
<1>6. CASE PopShift
  BY <1>1, <1>6, PopShiftExact
<1>7. CASE PopClear
  BY <1>1, <1>7, PopClearExact
<1>8. CASE UNCHANGED vars
  BY <1>1, <1>8 DEF vars, ring, ExactInv, Freed, Held, Pos, Live, isfull
<1> QED
  BY <1>2, <1>3, <1>4, <1>5, <1>6, <1>7, <1>8 DEF Next, Main

LEMMA ExactInit == Init => ExactInv
<1> SUFFICES ASSUME Init PROVE ExactInv
  OBVIOUS
<1>1. Len(udr) = 0 /\ Len(delivered) = 0
  BY DEF Init
<1>2. \A s \in Slots : ~Live(s)
  BY DEF Init, Live, Pos, isfull, Slots
<1>3. Held = 0 /\ Freed = 0
  BY <1>1 DEF Init, Held, Freed, Pos, isfull
<1> QED
  BY <1>1, <1>2, <1>3, OrderInit, WindowAssumption DEF Init, ExactInv

\* A host that keeps fewer bytes on their way than the ring has slots loses none
\* of them, and serial_rx() counts exactly what it stored, in every interleaving
\* of the handler with the pop's unprotected accesses.
THEOREM DeliveredExactly == Spec => []ExactDelivery
<1>1. CASE WINDOW < RX_BUFFER_SIZE
  <2>1. Init => ExactInv
    BY ExactInit
  <2>2. ExactInv /\ [Next]_vars => ExactInv'
    BY <1>1, ExactInductive
  <2>3. ExactInv => ExactDelivery
    BY DEF ExactInv, ExactDelivery
  <2> QED
    BY <2>1, <2>2, <2>3, PTL DEF Spec
<1>2. CASE ~(WINDOW < RX_BUFFER_SIZE)
  <2>1. ExactDelivery
    BY <1>2 DEF ExactDelivery
  <2> QED
    BY <2>1, PTL
<1> QED
  BY <1>1, <1>2

-----------------------------------------------------------------------------
(* The receive path implements ByteQueue if the host's window is smaller   *)
(* than the ring: every step is a Put, a Get or a stutter of the queue.    *)
(* The exactness above gives the abstract queue a closed form, the         *)
(* positions after the last one delivered up to the last one sent.         *)

\* The slot a distance behind the oldest one.
LEMMA WrapPos ==
    ASSUME TypeOK, NEW k \in 0 .. RX_BUFFER_SIZE - 1
    PROVE  /\ (first + k) % RX_BUFFER_SIZE \in Slots
           /\ Pos((first + k) % RX_BUFFER_SIZE) = k
<1>1. first \in 0 .. RX_BUFFER_SIZE - 1 /\ RX_BUFFER_SIZE \in Nat /\ RX_BUFFER_SIZE >= 2
  BY SizeAssumption DEF TypeOK, Slots
<1>2. CASE first + k < RX_BUFFER_SIZE
  <2>1. (first + k) % RX_BUFFER_SIZE = first + k
    BY <1>1, <1>2
  <2> QED
    BY <1>1, <1>2, <2>1 DEF Pos, Slots
<1>3. CASE first + k >= RX_BUFFER_SIZE
  <2>1. (first + k) % RX_BUFFER_SIZE = first + k - RX_BUFFER_SIZE
    BY <1>1, <1>3
  <2> QED
    BY <1>1, <1>3, <2>1 DEF Pos, Slots
<1> QED
  BY <1>1, <1>2, <1>3

\* What the ring holds, as a sequence.
Stored == [i \in 1 .. Count |-> base[(first + i - 1) % RX_BUFFER_SIZE]]

LEMMA StoredLen ==
    ASSUME TypeOK
    PROVE  /\ Count = Held
           /\ Stored \in Seq(Nat) /\ Len(Stored) = Held
<1>1. Count = Held
  BY VirtIdx DEF TypeOK, Count, Held
<1>2. Held \in 0 .. RX_BUFFER_SIZE /\ RX_BUFFER_SIZE \in Nat
  BY PosBounds, SizeAssumption
<1>3. ASSUME NEW i \in 1 .. Held
      PROVE  base[(first + i - 1) % RX_BUFFER_SIZE] \in Nat
  <2>1. i - 1 \in 0 .. RX_BUFFER_SIZE - 1
    BY <1>2
  <2>2. (first + (i - 1)) % RX_BUFFER_SIZE \in Slots
    BY <2>1, WrapPos
  <2>3. first + i - 1 = first + (i - 1)
    BY <1>2 DEF TypeOK, Slots
  <2> QED
    BY <2>2, <2>3 DEF TypeOK
<1> QED
  BY <1>1, <1>2, <1>3 DEF Stored

LEMMA StoredIs ==
    ASSUME ExactInv
    PROVE  /\ Count = Held
           /\ Stored \in Seq(Nat) /\ Len(Stored) = Held
           /\ \A i \in 1 .. Held : Stored[i] = Freed + i
<1>1. TypeOK
  BY DEF ExactInv, OrderInv
<1>2. Count = Held
  BY <1>1, VirtIdx DEF TypeOK, Count, Held
<1>3. Held \in 0 .. RX_BUFFER_SIZE /\ Freed \in Int /\ RX_BUFFER_SIZE \in Nat
  BY <1>1, PosBounds, SizeAssumption
<1>4. ASSUME NEW i \in 1 .. Held
      PROVE  /\ base[(first + i - 1) % RX_BUFFER_SIZE] = Freed + i
             /\ base[(first + i - 1) % RX_BUFFER_SIZE] \in Nat
  <2> DEFINE s == (first + (i - 1)) % RX_BUFFER_SIZE
  <2>1. i - 1 \in 0 .. RX_BUFFER_SIZE - 1
    BY <1>3
  <2>2. s \in Slots /\ Pos(s) = i - 1
    BY <1>1, <2>1, WrapPos
  <2>3. first + i - 1 = first + (i - 1)
    BY <1>1, <1>3 DEF TypeOK, Slots
  <2> HIDE DEF s
  <2>4. Live(s)
    BY <1>3, <2>2 DEF Live, Held
  <2>5. base[s] = Freed + 1 + Pos(s)
    BY <2>2, <2>4 DEF ExactInv
  <2>6. base[s] \in Nat
    BY <1>1, <2>2 DEF TypeOK
  <2> QED
    BY <1>3, <2>2, <2>3, <2>5, <2>6 DEF s
<1> QED
  BY <1>2, <1>3, <1>4 DEF Stored

\* The abstract queue holds the positions not delivered yet.
WaitingExact ==
    /\ Len(delivered) \in Nat /\ sent \in Nat /\ Len(delivered) <= sent
    /\ Waiting = Positions(Len(delivered), sent)

LEMMA WaitingIs ==
    ASSUME ExactInv
    PROVE  WaitingExact
<1> DEFINE ringPart == IF pc = "shift" THEN Tail(Stored) ELSE Stored
           a == Len(delivered)
<1>1. TypeOK
  BY DEF ExactInv, OrderInv
<1>2. /\ a \in Nat /\ sent \in Nat /\ Held \in Nat /\ Freed \in Int
      /\ Len(udr) \in Nat /\ udr \in Seq(Nat)
  BY <1>1, PosBounds, SizeAssumption DEF TypeOK
<1>3. /\ Stored \in Seq(Nat) /\ Len(Stored) = Held
      /\ \A i \in 1 .. Held : Stored[i] = Freed + i
  BY StoredIs
<1>4. /\ Freed + Held + Len(udr) = sent
      /\ \A j \in 1 .. Len(udr) : udr[j] = Freed + Held + j
  BY DEF ExactInv
<1>5. /\ ringPart \in Seq(Nat)
      /\ Len(ringPart) = Freed + Held - a
      /\ \A i \in 1 .. Len(ringPart) : ringPart[i] = a + i
  <2>1. CASE pc = "shift"
    <3>1. Live(first) /\ first \in Slots /\ Pos(first) = 0
      BY <1>1, <2>1, PosBounds DEF ExactInv, OrderInv, PopFindsByte, TypeOK
    <3>2. Held > 0
      BY <1>2, <3>1, SizeAssumption DEF Live, Held
    <3>3. Stored # <<>>
      BY <1>2, <1>3, <3>2, EmptySeq
    <3>4. /\ Tail(Stored) \in Seq(Nat) /\ Len(Tail(Stored)) = Held - 1
          /\ \A i \in 1 .. Len(Tail(Stored)) : Tail(Stored)[i] = Stored[i + 1]
      BY <1>3, <3>3, HeadTailProperties
    <3>5. Freed = a - 1
      BY <2>1 DEF Freed
    <3>6. \A i \in 1 .. Held - 1 : Tail(Stored)[i] = a + i
      BY <1>2, <1>3, <3>4, <3>5
    <3>7. Held - 1 = Freed + Held - a
      BY <1>2, <3>5
    <3>8. ringPart = Tail(Stored)
      BY <2>1
    <3> HIDE DEF ringPart
    <3> QED
      BY <3>4, <3>6, <3>7, <3>8
  <2>2. CASE pc # "shift"
    <3>1. Freed = a
      BY <2>2 DEF Freed
    <3> QED
      BY <1>2, <1>3, <2>2, <3>1
  <2> QED
    BY <2>1, <2>2
<1>6. Waiting = ringPart \o udr
  BY DEF Waiting, Stored
<1> HIDE DEF ringPart
<1>7. /\ ringPart \o udr \in Seq(Nat)
      /\ Len(ringPart \o udr) = sent - a
      /\ \A i \in 1 .. sent - a : (ringPart \o udr)[i] =
             IF i <= Len(ringPart) THEN ringPart[i] ELSE udr[i - Len(ringPart)]
  <2>1. /\ ringPart \o udr \in Seq(Nat)
        /\ Len(ringPart \o udr) = Len(ringPart) + Len(udr)
        /\ \A i \in 1 .. Len(ringPart) + Len(udr) : (ringPart \o udr)[i] =
               IF i <= Len(ringPart) THEN ringPart[i] ELSE udr[i - Len(ringPart)]
    BY <1>2, <1>5, ConcatProperties
  <2>2. Len(ringPart) + Len(udr) = sent - a
    BY <1>2, <1>4, <1>5
  <2> QED
    BY <2>1, <2>2
<1>8. a <= sent /\ Len(ringPart) \in Nat
  <2>1. Len(ringPart) \in Nat
    BY <1>5, LenProperties
  <2> QED
    BY <1>2, <1>4, <1>5, <2>1
<1>9. /\ Positions(a, sent) \in Seq(Nat) /\ Len(Positions(a, sent)) = sent - a
      /\ \A i \in 1 .. sent - a : Positions(a, sent)[i] = a + i
  BY <1>2, <1>8, PositionsProperties
<1> DEFINE both == ringPart \o udr
<1> HIDE DEF both
<1>10. ASSUME NEW i \in 1 .. sent - a
       PROVE  both[i] = Positions(a, sent)[i]
  <2>1. CASE i <= Len(ringPart)
    <3>1. both[i] = ringPart[i]
      BY <1>7, <2>1 DEF both
    <3> QED
      BY <1>2, <1>5, <1>8, <1>9, <2>1, <3>1
  <2>2. CASE i > Len(ringPart)
    <3>1. i - Len(ringPart) \in 1 .. Len(udr)
      BY <1>2, <1>4, <1>5, <1>8, <2>2
    <3>2. udr[i - Len(ringPart)] = Freed + Held + (i - Len(ringPart))
      BY <1>4, <3>1
    <3>3. both[i] = udr[i - Len(ringPart)]
      BY <1>7, <1>8, <2>2 DEF both
    <3> QED
      BY <1>2, <1>5, <1>8, <1>9, <2>2, <3>2, <3>3
  <2>3. i \in Int
    BY <1>2
  <2> QED
    BY <1>8, <2>1, <2>2, <2>3
<1>11. ringPart \o udr = Positions(a, sent)
  BY <1>7, <1>9, <1>10, SeqEqual DEF both
<1> QED
  BY <1>2, <1>6, <1>8, <1>11 DEF WaitingExact

-----------------------------------------------------------------------------
\* A step of the receive path, seen from outside, sends a byte, delivers one, or
\* does neither.
LEMMA StepKinds ==
    ASSUME TypeOK, [Next]_vars
    PROVE  \/ sent' = sent + 1 /\ delivered' = delivered
           \/ sent' = sent /\ \E x : delivered' = Append(delivered, x)
           \/ sent' = sent /\ delivered' = delivered
BY DEF Next, Main, vars, ring, Arrive, RxIsr, AvailFull, AvailLast, Sleep, RxFull,
       RxLast, Delay, PopFull, PopLast, PopLoad, PopShift, PopClear

LEMMA StepRefines ==
    ASSUME ExactInv, ExactInv', WaitingExact, WaitingExact', [Next]_vars
    PROVE  [Queue!Next]_(Queue!vars)
<1> DEFINE a == Len(delivered)
<1>1. TypeOK /\ TypeOK'
  BY DEF ExactInv, OrderInv
<1>2. a \in Nat /\ sent \in Nat /\ a <= sent /\ Waiting = Positions(a, sent)
  BY DEF WaitingExact
<1>3. /\ Len(delivered') \in Nat /\ sent' \in Nat /\ Len(delivered') <= sent'
      /\ Waiting' = Positions(Len(delivered'), sent')
  BY DEF WaitingExact
<1>4. CASE sent' = sent + 1 /\ delivered' = delivered
  <2>1. Waiting' = Waiting \o [i \in 1 .. 1 |-> sent + i]
    BY <1>2, <1>3, <1>4, PositionsPut
  <2>2. Len(Waiting) = sent - a
    BY <1>2, PositionsProperties
  <2>3. sent' - a <= WINDOW
    BY <1>4 DEF ExactInv
  <2>4. Len(Waiting) + 1 <= WINDOW
    BY <1>2, <1>4, <2>2, <2>3, WindowAssumption
  <2> QED
    BY <1>4, <2>1, <2>4 DEF Queue!Next, Queue!Put
<1>5. CASE sent' = sent /\ \E x : delivered' = Append(delivered, x)
  <2>1. PICK x : delivered' = Append(delivered, x)
    BY <1>5
  <2>2. Len(delivered') = a + 1 /\ delivered'[a + 1] = x
    BY <1>1, <2>1 DEF TypeOK
  <2>3. x = a + 1
    BY <1>2, <2>2 DEF ExactInv
  <2>4. a + 1 <= sent /\ Waiting' = Positions(a + 1, sent)
    BY <1>3, <1>5, <2>2
  <2>5. Waiting # <<>> /\ Head(Waiting) = a + 1 /\ Tail(Waiting) = Waiting'
    BY <1>2, <2>4, PositionsGet
  <2> QED
    BY <1>5, <2>1, <2>3, <2>5 DEF Queue!Next, Queue!Get
<1>6. CASE sent' = sent /\ delivered' = delivered
  <2>1. Waiting' = Waiting
    BY <1>2, <1>3, <1>6
  <2> QED
    BY <1>6, <2>1 DEF Queue!vars
<1> QED
  BY <1>1, <1>4, <1>5, <1>6, StepKinds

LEMMA InitRefines == Init => Queue!Init
<1> SUFFICES ASSUME Init PROVE Queue!Init
  OBVIOUS
<1>1. ExactInv
  BY ExactInit
<1>2. Waiting = Positions(Len(delivered), sent)
  BY <1>1, WaitingIs DEF WaitingExact
<1>3. Len(delivered) = 0 /\ sent = 0
  BY DEF Init
<1>4. Positions(0, 0) \in Seq(Nat) /\ Len(Positions(0, 0)) = 0
  BY PositionsProperties
<1>5. Waiting = <<>>
  BY <1>2, <1>3, <1>4, EmptySeq
<1> QED
  BY <1>5 DEF Init, Queue!Init

\* With fewer bytes on their way than the ring has slots, the USART, the handler,
\* the ring and serial_rx() together are a first-in, first-out queue.
THEOREM ImplementsQueue == WINDOW < RX_BUFFER_SIZE => (Spec => QueueSpec)
<1> SUFFICES ASSUME WINDOW < RX_BUFFER_SIZE PROVE Spec => QueueSpec
  OBVIOUS
<1>1. Init => ExactInv
  BY ExactInit
<1>2. ExactInv /\ [Next]_vars => ExactInv'
  BY ExactInductive
<1>3. Init => Queue!Init
  BY InitRefines
<1>4. ExactInv => WaitingExact
  BY WaitingIs
<1>5. ExactInv /\ ExactInv' /\ WaitingExact /\ WaitingExact' /\ [Next]_vars
      => [Queue!Next]_(Queue!vars)
  BY StepRefines
<1> QED
  BY <1>1, <1>2, <1>3, <1>4, <1>5, PTL DEF Spec, QueueSpec, Queue!Spec

-----------------------------------------------------------------------------
(* A byte is lost only if no slot is free, whatever the host's window.  The *)
(* flag alone does not say so: the handler also throws bytes away while a   *)
(* pop has moved "first" and not yet taken the flag down.  FlagLast bounds  *)
(* that gap to the one slot the pop is about to free.                       *)

FlagLast == full /\ first # last => Held = RX_BUFFER_SIZE - 1

LossInv == OrderInv /\ FlagLast

\* The bytes that are waiting or delivered.
Kept == Freed + Held + Len(udr)

KeptExact == /\ Len(Waiting) + Len(delivered) = Kept
             /\ Kept \in Int /\ sent \in Int

LEMMA KeptIs ==
    ASSUME OrderInv
    PROVE  KeptExact
<1>1. /\ Stored \in Seq(Nat) /\ Len(Stored) = Held /\ udr \in Seq(Nat) /\ TypeOK
      /\ sent \in Nat /\ Held \in Nat /\ Len(udr) \in Nat /\ Len(delivered) \in Nat
  BY StoredLen, PosBounds, SizeAssumption DEF OrderInv, TypeOK
<1>2. Waiting = (IF pc = "shift" THEN Tail(Stored) ELSE Stored) \o udr
  BY DEF Waiting, Stored
<1>3. CASE pc = "shift"
  <2>1. Live(first) /\ Pos(first) = 0
    BY <1>1, <1>3, PosBounds DEF OrderInv, PopFindsByte
  <2>2. Held > 0
    BY <1>1, <2>1, SizeAssumption DEF Live, Held
  <2>3. Stored # <<>>
    BY <1>1, <2>2, EmptySeq
  <2>4. Tail(Stored) \in Seq(Nat) /\ Len(Tail(Stored)) = Held - 1
    BY <1>1, <2>3, HeadTailProperties
  <2>5. Len(Tail(Stored) \o udr) = Len(Tail(Stored)) + Len(udr)
    BY <1>1, <2>4, ConcatProperties
  <2>6. Waiting = Tail(Stored) \o udr
    BY <1>2, <1>3
  <2>7. Len(Waiting) = Held - 1 + Len(udr)
    BY <2>4, <2>5, <2>6
  <2>8. Kept = Len(delivered) - 1 + Held + Len(udr)
    BY <1>3 DEF Kept, Freed
  <2> QED
    BY <1>1, <2>7, <2>8 DEF KeptExact
<1>4. CASE pc # "shift"
  <2>1. Len(Stored \o udr) = Len(Stored) + Len(udr)
    BY <1>1, ConcatProperties
  <2>2. Waiting = Stored \o udr
    BY <1>2, <1>4
  <2>3. Len(Waiting) = Held + Len(udr)
    BY <1>1, <2>1, <2>2
  <2>4. Kept = Len(delivered) + Held + Len(udr)
    BY <1>4 DEF Kept, Freed
  <2> QED
    BY <1>1, <2>3, <2>4 DEF KeptExact
<1> QED
  BY <1>3, <1>4

\* No slot is free: the ring is full, or its last slot is still to be freed.
LEMMA TakenIs ==
    ASSUME LossInv, full
    PROVE  Taken >= RX_BUFFER_SIZE
<1>1. Count = Held /\ RX_BUFFER_SIZE \in Nat
  BY StoredLen, SizeAssumption DEF LossInv, OrderInv
<1>2. CASE first = last
  BY <1>1, <1>2 DEF Taken, Held, isfull
<1>3. CASE first # last
  <2>1. pc = "clear" /\ Held = RX_BUFFER_SIZE - 1
    BY <1>3 DEF LossInv, OrderInv, FlagLags, FlagLast
  <2> QED
    BY <1>1, <2>1 DEF Taken
<1> QED
  BY <1>2, <1>3

\* What one step must do: keep FlagLast, and lose a byte only with the flag up.
StepKeeps == FlagLast' /\ (full \/ Kept' >= Kept + (sent' - sent))

LEMMA ArriveKeeps ==
    ASSUME LossInv, Arrive
    PROVE  StepKeeps
<1>1. /\ sent' = sent + 1 /\ UNCHANGED <<base, first, last, full, pc, delivered>>
      /\ Freed' = Freed /\ Held' = Held /\ TypeOK
  BY DEF Arrive, ring, LossInv, OrderInv, Freed, Held, Pos, isfull
<1>2. FlagLast'
  BY <1>1 DEF LossInv, FlagLast
<1>3. CASE isfull
  BY <1>2, <1>3 DEF StepKeeps, isfull
<1>4. CASE ~isfull
  <2>1. udr' = Append(udr, sent + 1) /\ udr \in Seq(Nat) /\ sent \in Nat
    BY <1>1, <1>4 DEF Arrive, TypeOK
  <2>2. Len(udr') = Len(udr) + 1
    BY <2>1
  <2>3. Held \in Int /\ Freed \in Int /\ Len(udr) \in Nat /\ RX_BUFFER_SIZE \in Nat
    BY <1>1, PosBounds, SizeAssumption
  <2> QED
    BY <1>1, <1>2, <2>1, <2>2, <2>3 DEF StepKeeps, Kept
<1> QED
  BY <1>3, <1>4

LEMMA RxIsrKeeps ==
    ASSUME LossInv, RxIsr
    PROVE  StepKeeps
<1>1. /\ UNCHANGED <<sent, delivered>> /\ sent \in Nat /\ TypeOK
      /\ Freed' = Freed
  BY DEF RxIsr, LossInv, OrderInv, TypeOK, Freed
<1>2. Held \in Int /\ Freed \in Int /\ Len(udr) \in Nat
  BY <1>1, PosBounds, SizeAssumption
<1>3. CASE UNCHANGED ring
  <2>1. FlagLast'
    BY <1>3 DEF LossInv, FlagLast, ring, Held, Pos, isfull
  <2>2. CASE isfull
    BY <2>1, <2>2 DEF StepKeeps, isfull
  <2>3. CASE ~isfull
    <3>1. push(Head(udr))
      BY <2>3 DEF RxIsr
    <3>2. last \in Slots /\ last' = last
      BY <1>1, <1>3 DEF ring, TypeOK
    <3>3. shifted_idx(last) # last
      BY <3>2, ShiftedIdx, SizeAssumption DEF Slots
    <3>4. full
      BY <3>1, <3>2, <3>3 DEF push
    <3> QED
      BY <2>1, <3>4 DEF StepKeeps
  <2> QED
    BY <2>2, <2>3
<1>4. CASE push(Head(udr)) /\ udr' = Tail(udr) /\ ~full
  <2>1. Len(udr') = Len(udr) - 1 /\ Head(udr) \in Nat
    BY <1>1, <1>4, TailOfUdr DEF RxIsr
  <2>2. Held' = Held + 1
    BY <1>1, <1>4, <2>1, PushHeld
  <2>3. FlagLast'
    BY <1>4 DEF push, FlagLast
  <2> QED
    BY <1>1, <1>2, <2>1, <2>2, <2>3 DEF StepKeeps, Kept
<1> QED
  BY <1>3, <1>4 DEF RxIsr, push, ring

LEMMA PollKeeps ==
    ASSUME LossInv,
           AvailFull \/ AvailLast \/ Sleep \/ RxFull \/ RxLast \/ Delay
               \/ PopFull \/ PopLast
    PROVE  StepKeeps
<1>1. UNCHANGED <<sent, udr, base, first, last, full, delivered>>
  BY DEF AvailFull, AvailLast, Sleep, RxFull, RxLast, Delay, PopFull, PopLast, ring
<1>2. pc # "shift" /\ pc' # "shift"
  BY DEF AvailFull, AvailLast, Sleep, RxFull, RxLast, Delay, PopFull, PopLast, Goto,
         CountByte
<1>3. Freed' = Freed /\ Held' = Held
  BY <1>1, <1>2 DEF Freed, Held, Pos, isfull
<1>4. /\ Held \in Int /\ Freed \in Int /\ Len(udr) \in Nat /\ RX_BUFFER_SIZE \in Nat
      /\ sent \in Nat
  BY PosBounds, SizeAssumption DEF LossInv, OrderInv, TypeOK
<1> QED
  BY <1>1, <1>3, <1>4 DEF StepKeeps, Kept, LossInv, FlagLast

LEMMA PopKeeps ==
    ASSUME LossInv, PopLoad \/ PopShift \/ PopClear
    PROVE  StepKeeps
<1>1. /\ UNCHANGED <<sent, udr>> /\ sent \in Nat /\ TypeOK
      /\ Held \in Int /\ Freed \in Int /\ Len(udr) \in Nat /\ Len(delivered) \in Nat
  BY PosBounds, SizeAssumption
     DEF PopLoad, PopShift, PopClear, LossInv, OrderInv, TypeOK
<1>2. CASE PopLoad
  <2>1. UNCHANGED <<first, last, full>> /\ pc = "load" /\ pc' = "shift"
    BY <1>2 DEF PopLoad, Goto, ring
  <2>2. Len(delivered') = Len(delivered) + 1
    BY <1>1, <1>2 DEF PopLoad, TypeOK
  <2>3. Freed' = Freed /\ Held' = Held
    BY <1>1, <2>1, <2>2 DEF Freed, Held, Pos, isfull
  <2> QED
    BY <1>1, <2>1, <2>3 DEF StepKeeps, Kept, LossInv, FlagLast
<1>3. CASE PopShift
  <2>1. Held' = Held - 1 /\ (full' => Held' = RX_BUFFER_SIZE - 1)
    BY <1>3, ShiftHeld DEF LossInv
  <2>2. Freed' = Freed + 1
    BY <1>1, <1>3 DEF PopShift, Goto, Freed
  <2> QED
    BY <1>1, <2>1, <2>2 DEF StepKeeps, Kept, FlagLast
<1>4. CASE PopClear
  <2>1. /\ full' = FALSE /\ UNCHANGED <<first, last, delivered>>
        /\ pc = "clear" /\ pc' # "shift"
    BY <1>4 DEF PopClear, CountByte
  <2>2. FlagLast'
    BY <2>1 DEF FlagLast
  <2>3. CASE ~full
    <3>1. Freed' = Freed /\ Held' = Held
      BY <2>1, <2>3 DEF Freed, Held, Pos, isfull
    <3> QED
      BY <1>1, <2>2, <3>1 DEF StepKeeps, Kept
  <2> QED
    BY <2>2, <2>3 DEF StepKeeps
<1> QED
  BY <1>2, <1>3, <1>4

LEMMA NextKeeps ==
    ASSUME LossInv, Next
    PROVE  StepKeeps
BY ArriveKeeps, RxIsrKeeps, PollKeeps, PopKeeps DEF Next, Main

LEMMA LossInductive ==
    ASSUME LossInv, [Next]_vars
    PROVE  LossInv'
<1>1. OrderInv'
  BY OrderInductive DEF LossInv
<1>2. CASE UNCHANGED vars
  BY <1>1, <1>2 DEF vars, ring, LossInv, FlagLast, Held, Pos, isfull
<1>3. CASE Next
  BY <1>1, <1>3, NextKeeps DEF LossInv, StepKeeps
<1> QED
  BY <1>2, <1>3

LEMMA LossStep ==
    ASSUME LossInv, KeptExact, KeptExact', [Next]_vars
    PROVE  [Loses => Taken >= RX_BUFFER_SIZE]_vars
<1>1. CASE UNCHANGED vars
  BY <1>1
<1>2. CASE Next
  <2>1. StepKeeps
    BY <1>2, NextKeeps
  <2>2. ASSUME Loses PROVE Taken >= RX_BUFFER_SIZE
    <3>1. /\ Len(Waiting) + Len(delivered) = Kept
          /\ Len(Waiting') + Len(delivered') = Kept'
      BY DEF KeptExact
    <3>2. Len(Waiting') + Len(delivered') < Len(Waiting) + Len(delivered) + (sent' - sent)
      BY <2>2 DEF Loses
    <3>3. Kept' < Kept + (sent' - sent)
      BY <3>1, <3>2
    <3>4. Kept \in Int /\ Kept' \in Int /\ sent \in Int /\ sent' \in Int
      BY DEF KeptExact
    <3>5. full \/ Kept' >= Kept + (sent' - sent)
      BY <2>1 DEF StepKeeps
    <3>6. ~(Kept' >= Kept + (sent' - sent))
      <4>1. \A i, j, k, l \in Int : i < j + (k - l) => ~(i >= j + (k - l))
        OBVIOUS
      <4> QED
        BY <3>3, <3>4, <4>1, Zenon
    <3>7. full
      BY <3>5, <3>6, Zenon
    <3> QED
      BY <3>7, TakenIs
  <2> QED
    BY <2>2
<1> QED
  BY <1>1, <1>2

\* However many bytes the host sends, in every interleaving of the handler with a pop's
\* unprotected accesses, a byte is lost only while every slot of the ring is taken: the
\* flag and the indices never disagree by more than the slot a pop is about to free.
THEOREM LossesNeedFullRing == Spec => LossNeedsFullRing
<1>1. Init => LossInv
  BY OrderInit DEF Init, LossInv, FlagLast
<1>2. LossInv /\ [Next]_vars => LossInv'
  BY LossInductive
<1>3. LossInv => KeptExact
  BY KeptIs DEF LossInv
<1>4. LossInv /\ KeptExact /\ KeptExact' /\ [Next]_vars
      => [Loses => Taken >= RX_BUFFER_SIZE]_vars
  BY LossStep
<1> QED
  BY <1>1, <1>2, <1>3, <1>4, PTL DEF Spec, LossNeedsFullRing
====

---- MODULE SerialTxProofs ----
(***************************************************************************)
(* Proofs about the transmit path, for every size of the buffers, any      *)
(* window of the host and any number of bytes: types, the buffer's owner,  *)
(* and that it implements ByteQueue.                                       *)
(***************************************************************************)
EXTENDS SerialTx, LinePositions

\* serial_tx() is setting up a transmission: the last one has left the board, the
\* handler cannot be entered, and the bytes copied so far are the packet's.
Copied == IF pc = "copy" THEN i ELSE IF pc \in {"enable", "start"} THEN size ELSE 0

SetupInv ==
    /\ tx_ongoing /\ ~txc /\ usart = <<>>
    /\ size \in 1 .. TX_BUFFER_SIZE /\ size <= accepted
    /\ txcie => pc = "start"
    /\ pc = "start" => txcie
    /\ pc # "length" => tx_to_transmit = size
    /\ pc \in {"copy", "enable", "start"} => tx_transmitted = 0
    /\ pc = "copy" => i < size
    /\ \A k \in 0 .. Copied - 1 : tx_buffer[k] = accepted - size + k + 1
    /\ Len(wire) = accepted - size

\* Nothing is being sent: the handler is off.
RestInv ==
    /\ ~txcie /\ ~txc /\ usart = <<>>
    /\ tx_to_transmit = 0 /\ tx_transmitted = 0
    /\ Len(wire) = accepted

\* A packet is leaving: its next byte is in the transmitter or, when the handler is
\* about to be entered, was the last one on the wire.
SendInv ==
    /\ txcie
    /\ tx_transmitted < tx_to_transmit /\ tx_to_transmit <= accepted
    /\ \A k \in 0 .. tx_to_transmit - 1 :
           tx_buffer[k] = accepted - tx_to_transmit + k + 1
    /\ txc => /\ usart = <<>>
              /\ Len(wire) = accepted - tx_to_transmit + tx_transmitted + 1
    /\ ~txc => /\ usart = <<accepted - tx_to_transmit + tx_transmitted + 1>>
               /\ Len(wire) = accepted - tx_to_transmit + tx_transmitted

TxInv == /\ TypeOK
         /\ pc = "wait" => size \in 1 .. TX_BUFFER_SIZE
         /\ \A k \in 1 .. Len(wire) : wire[k] = k
         /\ Setup => SetupInv
         /\ ~Setup /\ ~tx_ongoing => RestInv
         /\ ~Setup /\ tx_ongoing => SendInv

-----------------------------------------------------------------------------
LEMMA InitTx == ASSUME Init PROVE TxInv
<1>1. TypeOK
  <2>1. 0 \in Slots /\ 0 \in 0 .. TX_BUFFER_SIZE /\ 0 \in 0 .. TX_BUFFER_SIZE + 1
    BY TxSizeAssumption DEF Slots
  <2>2. tx_buffer \in [Slots -> Nat] /\ usart \in Seq(Nat) /\ wire \in Seq(Nat)
    BY DEF Init
  <2> QED
    BY <2>1, <2>2 DEF Init, TypeOK, Pcs
<1>2. Len(wire) = 0
  BY DEF Init
<1> QED
  BY <1>1, <1>2 DEF Init, TxInv, Setup, SetupPcs, RestInv

\* Steps of the main loop that only it can see.
LEMMA CallStep == ASSUME TxInv, Call PROVE TxInv'
<1>1. PICK s \in 0 .. TX_BUFFER_SIZE + 1 :
          size' = s /\ pc' = IF s = 0 \/ s > TX_BUFFER_SIZE THEN "idle" ELSE "wait"
  BY DEF Call
<1>2. UNCHANGED <<i, accepted, buffer, txcie, txc, usart, wire, unread>> /\ pc = "idle"
  BY DEF Call
<1>3. TypeOK'
  BY <1>1, <1>2, TxSizeAssumption DEF TxInv, TypeOK, Pcs, buffer
<1> QED
  BY <1>1, <1>2, <1>3, TxSizeAssumption
  DEF TxInv, Setup, SetupPcs, RestInv, SendInv, buffer

LEMMA ClaimStep == ASSUME TxInv, Claim PROVE TxInv'
<1>1. RestInv /\ pc = "wait" /\ pc' = "length" /\ size \in 1 .. TX_BUFFER_SIZE
  BY DEF Claim, Goto, TxInv, Setup, SetupPcs
<1>2. TypeOK'
  BY TxSizeAssumption DEF Claim, Goto, TxInv, TypeOK, Pcs, SetupPcs
<1>3. SetupInv'
  BY <1>1, TxSizeAssumption DEF Claim, Goto, RestInv, SetupInv, Copied, TxInv, TypeOK
<1> QED
  BY <1>1, <1>2, <1>3 DEF Claim, TxInv, Setup, SetupPcs

LEMMA PrepareStep == ASSUME TxInv, SetLength \/ Rewind \/ Enable PROVE TxInv'
<1>1. SetupInv /\ TypeOK
  BY DEF SetLength, Rewind, Enable, Goto, TxInv, Setup, SetupPcs
<1>2. 0 \in Slots /\ 0 \in 0 .. TX_BUFFER_SIZE
  BY TxSizeAssumption DEF Slots
<1>3. CASE SetLength
  <2>1. TypeOK'
    BY <1>1, <1>3 DEF SetLength, Goto, SetupInv, TypeOK, Pcs, SetupPcs
  <2> QED
    BY <1>1, <1>3, <2>1 DEF SetLength, Goto, SetupInv, Copied, TxInv, Setup, SetupPcs
<1>4. CASE Rewind
  <2>1. TypeOK'
    BY <1>1, <1>2, <1>4 DEF Rewind, Goto, TypeOK, Pcs, SetupPcs
  <2> QED
    BY <1>1, <1>4, <2>1 DEF Rewind, Goto, SetupInv, Copied, TxInv, Setup, SetupPcs
<1>5. CASE Enable
  <2>1. TypeOK'
    BY <1>1, <1>5 DEF Enable, Goto, TypeOK, Pcs, SetupPcs, buffer
  <2> QED
    BY <1>1, <1>5, <2>1 DEF Enable, Goto, SetupInv, Copied, TxInv, Setup, SetupPcs, buffer
<1> QED
  BY <1>3, <1>4, <1>5

LEMMA CopyStep == ASSUME TxInv, Copy PROVE TxInv'
<1>1. SetupInv /\ TypeOK /\ i < size /\ i \in Slots
  BY TxSizeAssumption DEF Copy, TxInv, Setup, SetupPcs, SetupInv, TypeOK, Slots
<1>2. accepted - size + i + 1 \in Nat
  BY <1>1 DEF SetupInv, TypeOK
<1>3. TypeOK'
  BY <1>1, <1>2, TxSizeAssumption DEF Copy, SetupInv, TypeOK, Pcs, SetupPcs
<1>4. ASSUME NEW k \in 0 .. i PROVE tx_buffer'[k] = accepted - size + k + 1
  <2>1. tx_buffer' = [tx_buffer EXCEPT ![i] = accepted - size + i + 1]
    BY DEF Copy
  <2>2. tx_buffer'[i] = accepted - size + i + 1
    BY <1>1, <2>1 DEF TypeOK
  <2>3. k # i => tx_buffer'[k] = tx_buffer[k]
    BY <2>1
  <2>4. k # i => tx_buffer[k] = accepted - size + k + 1
    BY <1>1 DEF Copy, SetupInv, Copied, Slots
  <2> QED
    BY <2>2, <2>3, <2>4
<1>5. pc' \in {"copy", "enable"} /\ i' = i + 1 /\ Copied' = i + 1
  BY <1>1 DEF Copy, Copied, SetupInv, TypeOK
<1>6. SetupInv'
  BY <1>1, <1>4, <1>5 DEF Copy, SetupInv, TypeOK
<1> QED
  BY <1>3, <1>5, <1>6 DEF Copy, TxInv, Setup, SetupPcs

-----------------------------------------------------------------------------
(* The transmitter *)

\* A write to an empty transmitter is not ignored.
LEMMA WriteEmpty ==
    ASSUME usart = <<>>, NEW byte, WriteUdr(byte) PROVE usart' = <<byte>>
<1>1. Len(usart) = 0
  OBVIOUS
<1> QED
  BY <1>1 DEF WriteUdr

LEMMA StartStep == ASSUME TxInv, Start PROVE TxInv'
<1>1. /\ SetupInv /\ TypeOK /\ pc = "start" /\ pc' = "idle"
      /\ UNCHANGED <<size, i, accepted, buffer, txcie, txc, wire, unread>>
  BY DEF Start, Goto, TxInv, Setup, SetupPcs
<1>2. \A k \in 0 .. size - 1 : tx_buffer[k] = accepted - size + k + 1
  BY <1>1 DEF SetupInv, Copied
<1>3. tx_buffer[0] = accepted - size + 1 /\ tx_buffer[0] \in Nat
  BY <1>1, <1>2 DEF SetupInv, TypeOK
<1>4. usart' = <<tx_buffer[0]>>
  BY <1>1, WriteEmpty DEF Start, SetupInv
<1>5. TypeOK'
  BY <1>1, <1>3, <1>4 DEF TypeOK, Pcs, SetupPcs, buffer
<1>6. SendInv'
  BY <1>1, <1>2, <1>3, <1>4 DEF SetupInv, SendInv, TypeOK, buffer
<1> QED
  BY <1>1, <1>5, <1>6 DEF TxInv, Setup, SetupPcs, SetupInv, buffer

\* The transmitter holds a byte only while a packet is leaving.
LEMMA Shifting ==
    ASSUME TxInv, Shift
    PROVE  /\ SendInv /\ ~txc /\ tx_ongoing /\ ~Setup
           /\ usart = <<Len(wire) + 1>>
           /\ usart' = <<>> /\ txc' /\ wire' = Append(wire, Len(wire) + 1)
<1>1. usart # <<>>
  BY DEF Shift
<1>2. SendInv /\ ~txc /\ tx_ongoing /\ ~Setup
  BY <1>1 DEF TxInv, SetupInv, RestInv, SendInv
<1>3. usart = <<Len(wire) + 1>>
  BY <1>2 DEF SendInv
<1>4. Head(usart) = Len(wire) + 1 /\ Tail(usart) = <<>> /\ Len(usart) = 1
  BY <1>3
<1> QED
  BY <1>2, <1>3, <1>4 DEF Shift

LEMMA ShiftStep == ASSUME TxInv, Shift PROVE TxInv'
<1>1. /\ SendInv /\ ~txc /\ tx_ongoing /\ ~Setup
      /\ usart' = <<>> /\ txc' /\ wire' = Append(wire, Len(wire) + 1)
  BY Shifting
<1>2. UNCHANGED <<setup, accepted, buffer, txcie, unread>> /\ TypeOK
  BY DEF Shift, TxInv
<1>3. Len(wire) \in Nat /\ wire \in Seq(Nat)
  BY <1>2 DEF TypeOK
<1>4. /\ wire' \in Seq(Nat) /\ Len(wire') = Len(wire) + 1
      /\ \A k \in 1 .. Len(wire) : wire'[k] = wire[k]
      /\ wire'[Len(wire) + 1] = Len(wire) + 1
  BY <1>1, <1>3, AppendProperties
<1>5. \A k \in 1 .. Len(wire') : wire'[k] = k
  BY <1>3, <1>4 DEF TxInv
<1>6. TypeOK'
  BY <1>1, <1>2, <1>4 DEF TypeOK, setup, buffer
<1>7. SendInv'
  BY <1>1, <1>2, <1>4 DEF SendInv, TypeOK, buffer
<1> QED
  BY <1>1, <1>2, <1>5, <1>6, <1>7 DEF TxInv, Setup, setup, buffer

LEMMA IsrStep == ASSUME TxInv, TxIsr PROVE TxInv'
<1>1. /\ TypeOK /\ txc /\ txcie /\ txc' = FALSE
      /\ UNCHANGED <<setup, accepted, tx_buffer, wire, unread>>
  BY DEF TxIsr, TxInv
<1>2. SendInv /\ tx_ongoing /\ ~Setup /\ usart = <<>>
  BY <1>1 DEF TxInv, SetupInv, RestInv, SendInv
<1>0. /\ tx_transmitted \in Nat /\ tx_to_transmit \in Nat /\ accepted \in Nat
      /\ tx_to_transmit <= TX_BUFFER_SIZE /\ tx_to_transmit <= accepted
      /\ tx_transmitted < tx_to_transmit /\ Len(wire) \in Nat
      /\ tx_buffer \in [Slots -> Nat]
  BY <1>1, <1>2, TxSizeAssumption DEF TypeOK, SendInv, Slots
<1>3. CASE /\ tx_transmitted + 1 < tx_to_transmit
           /\ tx_transmitted' = tx_transmitted + 1
           /\ WriteUdr(tx_buffer[tx_transmitted'])
           /\ UNCHANGED <<tx_to_transmit, tx_ongoing, txcie>>
  <2>1. tx_transmitted + 1 \in 0 .. tx_to_transmit - 1 /\ tx_transmitted + 1 \in Slots
    BY <1>0, <1>3, TxSizeAssumption DEF Slots
  <2>2. /\ tx_buffer[tx_transmitted + 1]
               = accepted - tx_to_transmit + tx_transmitted + 1 + 1
        /\ tx_buffer[tx_transmitted + 1] \in Nat
    BY <1>0, <1>2, <2>1 DEF SendInv
  <2>3. usart' = <<tx_buffer[tx_transmitted + 1]>>
    BY <1>2, <1>3, WriteEmpty
  <2>4. TypeOK'
    <3>1. usart' \in Seq(Nat)
      BY <2>2, <2>3
    <3> QED
      BY <1>1, <1>3, <2>1, <3>1 DEF TypeOK, setup
  <2>5. SendInv'
    BY <1>0, <1>1, <1>2, <1>3, <2>2, <2>3 DEF SendInv
  <2> QED
    BY <1>1, <1>2, <1>3, <2>4, <2>5 DEF TxInv, Setup, setup
<1>4. CASE tx_transmitted + 1 >= tx_to_transmit /\ TxReset /\ UNCHANGED usart
  <2>1. TypeOK'
    <3>1. 0 \in Slots /\ 0 \in 0 .. TX_BUFFER_SIZE
      BY TxSizeAssumption DEF Slots
    <3> QED
      BY <1>1, <1>4, <3>1 DEF TxReset, TypeOK, setup
  <2>2. tx_to_transmit = tx_transmitted + 1
    BY <1>0, <1>4
  <2>3. RestInv'
    BY <1>0, <1>1, <1>2, <1>4, <2>2 DEF SendInv, RestInv, TxReset
  <2> QED
    BY <1>1, <1>2, <1>4, <2>1, <2>3 DEF TxInv, Setup, setup, TxReset
<1> QED
  BY <1>3, <1>4 DEF TxIsr

-----------------------------------------------------------------------------
LEMMA StepTx == ASSUME TxInv, [Next]_vars PROVE TxInv'
<1>1. CASE UNCHANGED vars \/ Spin
  <2>1. UNCHANGED vars
    BY <1>1 DEF Spin
  <2> QED
    BY <2>1
       DEF vars, setup, buffer, TxInv, TypeOK, Setup, SetupInv, Copied, RestInv, SendInv
<1>2. CASE Arrive \/ Read
  <2>1. UNCHANGED <<setup, accepted, buffer, txcie, txc, usart, wire>>
    BY <1>2 DEF Arrive, Read
  <2>2. unread' \in Nat
    BY <1>2 DEF Arrive, Read, TxInv, TypeOK
  <2> QED
    BY <2>1, <2>2
    DEF setup, buffer, TxInv, TypeOK, Setup, SetupInv, Copied, RestInv, SendInv
<1> QED
  BY <1>1, <1>2, CallStep, ClaimStep, PrepareStep, CopyStep, StartStep, ShiftStep, IsrStep
  DEF Next, InSerialTx

LEMMA AlwaysTx == Spec => []TxInv
BY InitTx, StepTx, PTL DEF Spec

\* For every size of the buffers, window and number of bytes the variables have their
\* types; in particular no byte is stored or fetched outside the transmit buffer.
THEOREM TypeCorrect == Spec => []TypeOK
<1>1. TxInv => TypeOK
  BY DEF TxInv
<1> QED
  BY <1>1, AlwaysTx, PTL

\* The handler never runs while the main loop writes the buffer, nor without a
\* transmission that is marked as ongoing.
THEOREM BufferOwned == Spec => []HandlerOwnsBuffer
<1>1. TxInv => HandlerOwnsBuffer
  BY DEF TxInv, SetupInv, RestInv, HandlerOwnsBuffer
<1> QED
  BY <1>1, AlwaysTx, PTL

-----------------------------------------------------------------------------
(* The refinement *)

\* The abstract queue holds the positions accepted that have not left yet.
WaitingExact == /\ Len(wire) \in Nat /\ accepted \in Nat /\ Len(wire) <= accepted
                /\ accepted - Len(wire) <= TX_BUFFER_SIZE
                /\ Waiting = Positions(Len(wire), accepted)

LEMMA WaitingIs == ASSUME TxInv PROVE WaitingExact
<1>1. TypeOK /\ Len(wire) \in Nat /\ accepted \in Nat
  BY DEF TxInv, TypeOK
<1>2. CASE Setup
  <2>1. /\ SetupInv /\ size \in 1 .. TX_BUFFER_SIZE /\ Len(wire) = accepted - size
        /\ size <= accepted
    BY <1>2 DEF TxInv, SetupInv
  <2>2. accepted - Len(wire) = size
    BY <1>1, <2>1
  <2>3. Waiting = [k \in 1 .. accepted - Len(wire) |-> Len(wire) + k]
    BY <1>2, <2>1, <2>2 DEF Waiting
  <2> QED
    BY <1>1, <2>1, <2>2, <2>3, TxSizeAssumption DEF WaitingExact, Positions
<1>3. CASE ~Setup
  <2> DEFINE gone == tx_transmitted + (IF txc THEN 1 ELSE 0)
  <2>1. /\ gone \in Nat /\ gone <= tx_to_transmit
        /\ tx_to_transmit \in 0 .. TX_BUFFER_SIZE /\ tx_to_transmit <= accepted
        /\ Len(wire) = accepted - tx_to_transmit + gone
    BY <1>1, <1>3 DEF TxInv, RestInv, SendInv, TypeOK, Slots
  <2>2. \A k \in 0 .. tx_to_transmit - 1 : tx_buffer[k] = accepted - tx_to_transmit + k + 1
    BY <1>3 DEF TxInv, RestInv, SendInv
  <2>3. Waiting = [k \in 1 .. tx_to_transmit - gone |-> tx_buffer[gone + k - 1]]
    BY <1>3 DEF Waiting
  <2> HIDE DEF gone
  <2>4. ASSUME NEW k \in 1 .. tx_to_transmit - gone
        PROVE  tx_buffer[gone + k - 1] = Len(wire) + k
    <3>1. gone + k - 1 \in 0 .. tx_to_transmit - 1
      BY <2>1
    <3>2. tx_buffer[gone + k - 1] = accepted - tx_to_transmit + (gone + k - 1) + 1
      BY <2>2, <3>1
    <3> QED
      BY <1>1, <2>1, <3>1, <3>2
  <2>5. tx_to_transmit - gone = accepted - Len(wire)
    BY <1>1, <2>1
  <2>6. Waiting = [k \in 1 .. accepted - Len(wire) |-> Len(wire) + k]
    BY <2>3, <2>4, <2>5
  <2> QED
    BY <1>1, <2>1, <2>6, TxSizeAssumption DEF WaitingExact, Positions
<1> QED
  BY <1>2, <1>3

\* A step, seen from outside, accepts a packet into an empty queue, sends a byte, or
\* does neither.
LEMMA StepKinds ==
    ASSUME TxInv, [Next]_vars
    PROVE  \/ /\ Len(wire) = accepted /\ size \in 1 .. TX_BUFFER_SIZE
              /\ accepted' = accepted + size /\ wire' = wire
           \/ accepted' = accepted /\ wire' = Append(wire, Len(wire) + 1)
           \/ accepted' = accepted /\ wire' = wire
<1>1. CASE Claim
  BY <1>1 DEF Claim, Goto, TxInv, Setup, SetupPcs, RestInv
<1>2. CASE Shift
  BY <1>2, Shifting DEF Shift
<1>3. CASE ~Claim /\ ~Shift
  BY <1>3
  DEF Next, InSerialTx, vars, Call, Spin, SetLength, Rewind, Copy, Enable, Start, TxIsr,
      Arrive, Read
<1> QED
  BY <1>1, <1>2, <1>3

LEMMA StepRefines ==
    ASSUME TxInv, WaitingExact, WaitingExact', [Next]_vars
    PROVE  [Queue!Next]_(Queue!vars)
<1> DEFINE n == Len(wire)
<1>1. /\ n \in Nat /\ accepted \in Nat /\ n <= accepted
      /\ Waiting = Positions(n, accepted)
  BY DEF WaitingExact
<1>2. /\ Len(wire') <= accepted' /\ Waiting' = Positions(Len(wire'), accepted')
  BY DEF WaitingExact
<1>3. CASE /\ n = accepted /\ size \in 1 .. TX_BUFFER_SIZE
           /\ accepted' = accepted + size /\ wire' = wire
  <2>1. Waiting' = Waiting \o [k \in 1 .. size |-> accepted + k]
    <3>1. size \in Nat
      BY <1>3, TxSizeAssumption
    <3>2. Positions(n, n + size) = Positions(n, n) \o [k \in 1 .. size |-> n + k]
      BY <1>1, <3>1, PositionsPutAll
    <3> HIDE DEF n
    <3> QED
      BY <1>1, <1>2, <1>3, <3>2 DEF n
  <2>2. Len(Waiting) = 0
    BY <1>1, <1>3, PositionsProperties
  <2>3. Len(Waiting) + size <= TX_BUFFER_SIZE
    BY <1>3, <2>2, TxSizeAssumption
  <2> QED
    BY <1>3, <2>1, <2>3 DEF Queue!Next, Queue!Put
<1>4. CASE accepted' = accepted /\ wire' = Append(wire, n + 1)
  <2>1. Len(wire') = n + 1
    BY <1>4 DEF TxInv, TypeOK
  <2>2. n + 1 <= accepted
    BY <1>2, <1>4, <2>1
  <2>3. Waiting # <<>> /\ Head(Waiting) = n + 1 /\ Tail(Waiting) = Waiting'
    BY <1>1, <1>2, <1>4, <2>1, <2>2, PositionsGet
  <2> QED
    BY <1>4, <2>3 DEF Queue!Next, Queue!Get
<1>5. CASE accepted' = accepted /\ wire' = wire
  BY <1>1, <1>2, <1>5 DEF Queue!vars
<1> QED
  BY <1>3, <1>4, <1>5, StepKinds

LEMMA InitRefines == ASSUME Init PROVE Queue!Init
<1>1. accepted = 0 /\ wire = <<>> /\ Len(wire) = 0
  BY DEF Init
<1>2. Waiting = <<>>
  BY <1>1, InitTx, WaitingIs, PositionsEmpty DEF WaitingExact
<1> QED
  BY <1>1, <1>2 DEF Queue!Init

\* serial_tx(), the handler and the transmitter together are a first-in, first-out
\* queue that holds at most one packet, whatever arrives from the host meanwhile.
THEOREM ImplementsQueue == Spec => QueueSpec
<1>1. Init => TxInv /\ Queue!Init
  BY InitTx, InitRefines
<1>2. TxInv /\ [Next]_vars => TxInv'
  BY StepTx
<1>3. TxInv => WaitingExact
  BY WaitingIs
<1>4. TxInv /\ WaitingExact /\ WaitingExact' /\ [Next]_vars => [Queue!Next]_(Queue!vars)
  BY StepRefines
<1> QED
  BY <1>1, <1>2, <1>3, <1>4, PTL DEF Spec, QueueSpec, Queue!Spec
====

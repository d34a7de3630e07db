---- MODULE SerialTx ----
(***************************************************************************)
(* The transmitting half of the master's serial port: serial_tx(), the     *)
(* transmit-complete interrupt handler and the USART transmitter.          *)
(*                                                                         *)
(* serial_tx() runs in the main loop and can be interrupted between any    *)
(* two of its writes; each is an action and "pc" names the next one.  The  *)
(* handler runs with interrupts off and is one action.  What arrives from  *)
(* the host at the same time is reduced to a count, because the receive    *)
(* interrupt has the higher priority: see RxStuck.  A byte is its position *)
(* in the stream of all bytes serial_tx() has accepted.                    *)
(***************************************************************************)
EXTENDS Integers, Sequences

CONSTANTS
    TX_BUFFER_SIZE,  \* bytes of the transmit buffer
    RX_BUFFER_SIZE,  \* slots of the receive ring
    UDR_DEPTH,       \* bytes the USART holds for the receive handler
    WINDOW,          \* bytes the host may have on their way at once
    MAX_BYTES        \* bound: bytes sent by the master in all

ASSUME TxSizeAssumption == TX_BUFFER_SIZE \in Nat \ {0}
ASSUME RxAssumption     == /\ RX_BUFFER_SIZE \in Nat \ {0}
                           /\ UDR_DEPTH \in Nat \ {0} /\ WINDOW \in Nat
ASSUME BoundAssumption  == MAX_BYTES \in Nat

VARIABLES
    pc,              \* serial_tx(): the next step of the main loop
    size, i,         \* serial_tx(): its parameter and its loop variable
    accepted,        \* history: bytes of all packets serial_tx() has taken
    tx_buffer, tx_to_transmit, tx_transmitted, tx_ongoing,
    txcie,           \* UCSR0B's TXCIE0: the handler is enabled
    txc,             \* UCSR0A's TXC0: the transmitter has run empty
    usart,           \* bytes in the shift register and behind it in UDR0
    wire,            \* history: the bytes that left the board
    unread           \* bytes from the host not yet read by serial_rx()

setup == <<pc, size, i>>
buffer == <<tx_buffer, tx_to_transmit, tx_transmitted, tx_ongoing>>
vars == <<setup, accepted, buffer, txcie, txc, usart, wire, unread>>

SetupPcs == {"length", "rewind", "copy", "enable", "start"}
Pcs == {"idle", "wait"} \cup SetupPcs

Slots == 0 .. TX_BUFFER_SIZE - 1

-----------------------------------------------------------------------------
Init == /\ pc = "idle" /\ size = 0 /\ i = 0
        /\ accepted = 0
        /\ tx_buffer = [s \in Slots |-> 0]
        /\ tx_to_transmit = 0 /\ tx_transmitted = 0 /\ tx_ongoing = FALSE
        /\ txcie = FALSE /\ txc = FALSE
        /\ usart = <<>> /\ wire = <<>>
        /\ unread = 0

-----------------------------------------------------------------------------
(* The main loop *)

Goto(from, to) == pc = from /\ pc' = to

\* serial_tx() refuses an empty packet and one that does not fit.
Call == /\ pc = "idle"
        /\ \E s \in 0 .. TX_BUFFER_SIZE + 1 :
               /\ accepted + s <= MAX_BYTES
               /\ size' = s
               /\ pc' = IF s = 0 \/ s > TX_BUFFER_SIZE THEN "idle" ELSE "wait"
        /\ UNCHANGED <<i, accepted, buffer, txcie, txc, usart, wire, unread>>

Spin == /\ pc = "wait" /\ tx_ongoing
        /\ UNCHANGED vars

\* Mutant: nobody waits for the previous transmission.
Claim_at_once == /\ Goto("wait", "length")
                 /\ tx_ongoing' = TRUE
                 /\ accepted' = accepted + size
                 /\ UNCHANGED <<size, i, tx_buffer, tx_to_transmit,
                                tx_transmitted, txcie, txc, usart, wire, unread>>

\* Mutant: the transmission is not marked as ongoing.
Claim_unmarked == /\ ~tx_ongoing
                  /\ Goto("wait", "length")
                  /\ accepted' = accepted + size
                  /\ UNCHANGED <<size, i, buffer, txcie, txc, usart, wire, unread>>

Claim == /\ ~tx_ongoing
         /\ Goto("wait", "length")
         /\ tx_ongoing' = TRUE
         /\ accepted' = accepted + size
         /\ UNCHANGED <<size, i, tx_buffer, tx_to_transmit, tx_transmitted,
                        txcie, txc, usart, wire, unread>>

SetLength == /\ Goto("length", "rewind")
             /\ tx_to_transmit' = size
             /\ UNCHANGED <<size, i, accepted, tx_buffer, tx_transmitted,
                            tx_ongoing, txcie, txc, usart, wire, unread>>

Rewind == /\ Goto("rewind", "copy")
          /\ tx_transmitted' = 0
          /\ i' = 0
          /\ UNCHANGED <<size, accepted, tx_buffer, tx_to_transmit, tx_ongoing,
                         txcie, txc, usart, wire, unread>>

\* Mutant: one byte too many is copied.
Copy_one_more == /\ pc = "copy"
                 /\ tx_buffer' = [tx_buffer EXCEPT ![i] = accepted - size + i + 1]
                 /\ i' = i + 1
                 /\ pc' = IF i' <= size THEN "copy" ELSE "enable"
                 /\ UNCHANGED <<size, accepted, tx_to_transmit, tx_transmitted,
                                tx_ongoing, txcie, txc, usart, wire, unread>>

Copy == /\ pc = "copy"
        /\ tx_buffer' = [tx_buffer EXCEPT ![i] = accepted - size + i + 1]
        /\ i' = i + 1
        /\ pc' = IF i' < size THEN "copy" ELSE "enable"
        /\ UNCHANGED <<size, accepted, tx_to_transmit, tx_transmitted,
                       tx_ongoing, txcie, txc, usart, wire, unread>>

\* Mutant: the handler is not enabled.
Enable_forgotten == /\ Goto("enable", "start")
                    /\ UNCHANGED <<size, i, accepted, buffer, txcie, txc, usart,
                                   wire, unread>>

Enable == /\ Goto("enable", "start")
          /\ txcie' = TRUE
          /\ UNCHANGED <<size, i, accepted, buffer, txc, usart, wire, unread>>

\* The hardware ignores a write to UDR0 when it still holds a byte.
WriteUdr(byte) == usart' = IF Len(usart) < 2 THEN Append(usart, byte) ELSE usart

Start == /\ Goto("start", "idle")
         /\ WriteUdr(tx_buffer[0])
         /\ UNCHANGED <<size, i, accepted, buffer, txcie, txc, wire, unread>>

-----------------------------------------------------------------------------
(* The transmitter and its interrupt *)

Shift == /\ usart # <<>>
         /\ wire' = Append(wire, Head(usart))
         /\ usart' = Tail(usart)
         /\ txc' = (Len(usart) = 1)
         /\ UNCHANGED <<setup, accepted, buffer, txcie, unread>>

\* The receive ring is full and the USART holds a byte: the receive handler
\* returns without reading it and is entered again after one instruction of the
\* main loop, ahead of the transmit handler.
RxStuck == unread > RX_BUFFER_SIZE

\* Mutant: the transmission stays marked as ongoing.
TxReset_stays_ongoing == /\ txcie' = FALSE
                         /\ tx_to_transmit' = 0 /\ tx_transmitted' = 0
                         /\ UNCHANGED tx_ongoing

\* serial_tx_reset()
TxReset == /\ txcie' = FALSE
           /\ tx_to_transmit' = 0 /\ tx_transmitted' = 0
           /\ tx_ongoing' = FALSE

\* USART0_TX_vect; entering it clears the flag.
TxIsr == /\ txc /\ txcie /\ ~RxStuck
         /\ txc' = FALSE
         /\ \/ /\ tx_transmitted + 1 < tx_to_transmit
               /\ tx_transmitted' = tx_transmitted + 1
               /\ WriteUdr(tx_buffer[tx_transmitted'])
               /\ UNCHANGED <<tx_to_transmit, tx_ongoing, txcie>>
            \/ /\ tx_transmitted + 1 >= tx_to_transmit
               /\ TxReset
               /\ UNCHANGED usart
         /\ UNCHANGED <<setup, accepted, tx_buffer, wire, unread>>

-----------------------------------------------------------------------------
(* The host's bytes: what SerialRx models in detail *)

Arrive == /\ unread < WINDOW
          /\ unread < RX_BUFFER_SIZE + UDR_DEPTH
          /\ unread' = unread + 1
          /\ UNCHANGED <<setup, accepted, buffer, txcie, txc, usart, wire>>

\* The main loop reads, which it does not while it is inside serial_tx().
Read == /\ pc = "idle" /\ unread > 0
        /\ unread' = unread - 1
        /\ UNCHANGED <<setup, accepted, buffer, txcie, txc, usart, wire>>

-----------------------------------------------------------------------------
InSerialTx == Spin \/ Claim \/ SetLength \/ Rewind \/ Copy \/ Enable \/ Start

Next == Call \/ InSerialTx \/ Shift \/ TxIsr \/ Arrive \/ Read

Spec == Init /\ [][Next]_vars

\* The CPU runs and the transmitter shifts.  A byte from the host takes as long as a
\* thousand instructions: out of serial_tx() the main loop gets the ring below full
\* between two of them, and a transmit interrupt that is pending is taken when the
\* receive interrupt is not, again and again.
FairSpec == /\ Spec
            /\ WF_vars(InSerialTx) /\ WF_vars(Shift) /\ WF_vars(Read)
            /\ SF_vars(Read /\ ~RxStuck') /\ SF_vars(TxIsr)

-----------------------------------------------------------------------------
(* Properties *)

TypeOK == /\ pc \in Pcs /\ size \in 0 .. TX_BUFFER_SIZE + 1
          /\ i \in 0 .. TX_BUFFER_SIZE
          /\ accepted \in Nat
          /\ tx_buffer \in [Slots -> Nat]
          /\ tx_to_transmit \in 0 .. TX_BUFFER_SIZE
          /\ tx_transmitted \in Slots
          /\ tx_ongoing \in BOOLEAN /\ txcie \in BOOLEAN /\ txc \in BOOLEAN
          /\ usart \in Seq(Nat) /\ wire \in Seq(Nat)
          /\ unread \in Nat

\* Whatever is called while a packet is still leaving, the board's bytes are those
\* of the accepted packets, whole, in order, once each, no two packets mixed, and
\* at most one packet waits.
Setup == pc \in SetupPcs

Waiting ==
    IF Setup THEN [k \in 1 .. size |-> accepted - size + k]
    ELSE LET gone == tx_transmitted + (IF txc THEN 1 ELSE 0)
         IN  [k \in 1 .. tx_to_transmit - gone |-> tx_buffer[gone + k - 1]]

Queue == INSTANCE ByteQueue
            WITH CAPACITY <- TX_BUFFER_SIZE, BATCH <- TX_BUFFER_SIZE,
                 arrived <- accepted, waiting <- Waiting, out <- wire

QueueSpec == Queue!Spec

\* The main loop waits for the transmit handler, which the receive handler keeps out
\* until the ring has room, which only the main loop can make: nobody moves again.
Deadlocked == pc = "wait" /\ tx_ongoing /\ RxStuck

\* serial.h: the function blocks only "until the previous transmission, if any, is
\* completed".  It does return, whatever the host sends, unless the host fills the
\* ring and one byte more during that transmission: nothing else can hold it.
CallReturns == pc = "wait" ~> (pc = "idle" \/ Deadlocked)

\* Once accepted, a byte leaves the board although nobody waits for it, also when the
\* host fills the ring while no call waits; the same deadlock is all that stops it.
AcceptedBytesLeave ==
    \A k \in 1 .. MAX_BYTES : accepted >= k ~> (Len(wire) >= k \/ Deadlocked)

\* Interrupts find the buffer the main loop set up: while the handler can run, a
\* transmission is marked as ongoing and the main loop is not writing to it.
HandlerOwnsBuffer == txc /\ txcie => tx_ongoing /\ ~Setup
====

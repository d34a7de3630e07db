---- MODULE SerialRx ----
(***************************************************************************)
(* The receiving half of the master's serial port: the USART receiver, its *)
(* interrupt handler, the ring buffer between the two sides, and the main  *)
(* loop that polls the ring and sleeps.                                    *)
(*                                                                         *)
(* The handler runs with interrupts off, so it is one action.  The main    *)
(* loop can be interrupted between any two accesses of the ring's fields   *)
(* that the handler also touches, so each such access is an action of its  *)
(* own and "pc" names the access that comes next.  A byte is its position  *)
(* on the line: 1, 2, 3, ...                                               *)
(***************************************************************************)
EXTENDS Integers, Sequences

CONSTANTS
    RX_BUFFER_SIZE,  \* slots of the ring
    UDR_DEPTH,       \* bytes the USART holds until the handler reads UDR0
    MAX_READ,        \* the longest serial_rx() the handler asks for
    WINDOW,          \* bytes the host may have on their way at once
    MAX_BYTES        \* bound: bytes the host sends in all

ASSUME SizeAssumption   == RX_BUFFER_SIZE \in Nat /\ RX_BUFFER_SIZE >= 2
ASSUME DepthAssumption  == UDR_DEPTH \in Nat \ {0}
ASSUME ReadAssumption   == MAX_READ \in Nat \ {0}
ASSUME WindowAssumption == WINDOW \in Nat \ {0}
ASSUME BoundAssumption  == MAX_BYTES \in Nat

VARIABLES
    sent,       \* bytes the host has put on the line
    udr,        \* the USART's receive FIFO, oldest first
    base, first, last, full,    \* the ring buffer's fields
    pc,         \* the main loop's next access
    size, n,    \* serial_rx(): bytes asked for, bytes counted so far
    performed,  \* communication_handler()'s action_performed
    delivered,  \* history: the bytes serial_rx() stored for its caller
    gap         \* history: serial_rx() counted a byte it did not store

ring == <<base, first, last, full>>
vars == <<sent, udr, ring, pc, size, n, performed, delivered, gap>>

Slots == 0 .. RX_BUFFER_SIZE - 1

PollPcs == {"rx", "rxLast", "delay"}
PopPcs  == {"pop", "popLast", "load", "shift", "clear"}
InRx    == pc \in PollPcs \cup PopPcs
Pcs     == {"avail", "availLast", "toSleep", "asleep"} \cup PollPcs \cup PopPcs

-----------------------------------------------------------------------------
(* Ring buffer helpers *)

\* Mutant: the index does not wrap.
shifted_idx_unwrapped(i) == i + 1

shifted_idx(i) == (i + 1) % RX_BUFFER_SIZE

virt_idx(real) == (real + RX_BUFFER_SIZE - first) % RX_BUFFER_SIZE

isfull == full /\ first = last

\* The number of items the indices stand for once no pop is under way.
Count == IF isfull THEN RX_BUFFER_SIZE ELSE virt_idx(last)

\* Mutant: the slot is written after the index has moved.
push_late(val) ==
    IF full THEN UNCHANGED ring
    ELSE /\ last' = shifted_idx(last)
         /\ base' = [base EXCEPT ![last'] = val]
         /\ full' = (first = last')
         /\ UNCHANGED first

\* Mutant: the flag goes up one item too early.
push_full_early(val) ==
    IF full THEN UNCHANGED ring
    ELSE /\ base' = [base EXCEPT ![last] = val]
         /\ last' = shifted_idx(last)
         /\ full' = (first = shifted_idx(last'))
         /\ UNCHANGED first

\* ringbuffer_push: refused while the flag is up, whatever the indices say.
push(val) ==
    IF full THEN UNCHANGED ring
    ELSE /\ base' = [base EXCEPT ![last] = val]
         /\ last' = shifted_idx(last)
         /\ full' = (first = last')
         /\ UNCHANGED first

-----------------------------------------------------------------------------
Init == /\ sent = 0
        /\ udr = <<>>
        /\ base = [i \in Slots |-> 0]
        /\ first = 0 /\ last = 0 /\ full = FALSE
        /\ pc = "avail"
        /\ size = 0 /\ n = 0
        /\ performed = FALSE
        /\ delivered = <<>>
        /\ gap = FALSE

\* A byte reaches the USART.  A byte takes 87 us at 115200 baud and the handler a
\* few, so the receive FIFO is full, and overrun, only while the handler leaves
\* UDR0 unread because the ring is full.
Arrive == /\ sent < MAX_BYTES
          /\ sent - Len(delivered) < WINDOW
          /\ Len(udr) < UDR_DEPTH \/ isfull
          /\ sent' = sent + 1
          /\ udr' = IF Len(udr) < UDR_DEPTH THEN Append(udr, sent') ELSE udr
          /\ UNCHANGED <<ring, pc, size, n, performed, delivered, gap>>

\* USART0_RX_vect: with the ring full UDR0 is not read and the interrupt stays
\* pending.  Any interrupt ends the sleep of the main loop.
RxIsr == /\ udr # <<>>
         /\ IF isfull THEN UNCHANGED <<udr, ring>>
            ELSE push(Head(udr)) /\ udr' = Tail(udr)
         /\ pc' = IF pc = "asleep" THEN "avail" ELSE pc
         /\ UNCHANGED <<sent, size, n, performed, delivered, gap>>

-----------------------------------------------------------------------------
(* The main loop *)

Goto(from, to) == pc = from /\ pc' = to

\* communication_handler() found a byte and calls serial_rx().
StartRead == /\ size' \in 1 .. MAX_READ
             /\ n' = 0
             /\ performed' = TRUE

\* ringbuffer_used() sees the flag, or goes on to the indices.
AvailFull == /\ pc = "avail"
             /\ IF full THEN pc' = "rx" /\ StartRead
                ELSE pc' = "availLast" /\ UNCHANGED <<size, n, performed>>
             /\ UNCHANGED <<sent, udr, ring, delivered, gap>>

\* Nothing there: a handler that did something is called again, one that did
\* nothing lets the main loop go to sleep.
AvailLast == /\ pc = "availLast"
             /\ IF virt_idx(last) # 0 THEN pc' = "rx" /\ StartRead
                ELSE /\ pc' = IF performed THEN "avail" ELSE "toSleep"
                     /\ performed' = FALSE
                     /\ UNCHANGED <<size, n>>
             /\ UNCHANGED <<sent, udr, ring, delivered, gap>>

\* sleep_on(): interrupts are off from the test of its (stale) condition until
\* the CPU is asleep.
Sleep == /\ Goto("toSleep", "asleep")
         /\ UNCHANGED <<sent, udr, ring, size, n, performed, delivered, gap>>

\* serial_rx(): the loop's own ringbuffer_isempty().
RxFull == /\ pc = "rx"
          /\ pc' = IF full THEN "pop" ELSE "rxLast"
          /\ UNCHANGED <<sent, udr, ring, size, n, performed, delivered, gap>>

\* Mutant: the indices are not compared.
RxLast_always_waits == /\ Goto("rxLast", "delay")
                       /\ UNCHANGED <<sent, udr, ring, size, n, performed,
                                      delivered, gap>>

RxLast == /\ pc = "rxLast"
          /\ pc' = IF first = last THEN "delay" ELSE "pop"
          /\ UNCHANGED <<sent, udr, ring, size, n, performed, delivered, gap>>

Delay == /\ Goto("delay", "rx")
         /\ UNCHANGED <<sent, udr, ring, size, n, performed, delivered, gap>>

\* ringbuffer_pop(): its second ringbuffer_isempty().
PopFull == /\ pc = "pop"
           /\ pc' = IF full THEN "load" ELSE "popLast"
           /\ UNCHANGED <<sent, udr, ring, size, n, performed, delivered, gap>>

\* serial_rx() counts a byte whatever ringbuffer_pop() returned; after the last
\* one the caller reads on (a packet's body) or asks for available bytes again.
CountByte == IF n + 1 < size
             THEN pc' = "rx" /\ n' = n + 1 /\ UNCHANGED <<size, performed>>
             ELSE \/ pc' = "rx" /\ StartRead
                  \/ pc' = "avail" /\ n' = 0 /\ size' = 0 /\ UNCHANGED performed

PopLast == /\ pc = "popLast"
           /\ IF first = last THEN CountByte /\ gap' = TRUE
              ELSE pc' = "load" /\ UNCHANGED <<size, n, performed, gap>>
           /\ UNCHANGED <<sent, udr, ring, delivered>>

PopLoad == /\ Goto("load", "shift")
           /\ delivered' = Append(delivered, base[first])
           /\ UNCHANGED <<sent, udr, ring, size, n, performed, gap>>

\* Mutant: the item stays in the ring.
PopShift_forgotten == /\ Goto("shift", "clear")
                      /\ UNCHANGED <<sent, udr, ring, size, n, performed,
                                     delivered, gap>>

PopShift == /\ Goto("shift", "clear")
            /\ first' = shifted_idx(first)
            /\ UNCHANGED <<sent, udr, base, last, full, size, n, performed,
                           delivered, gap>>

PopClear == /\ pc = "clear"
            /\ full' = FALSE
            /\ CountByte
            /\ UNCHANGED <<sent, udr, base, first, last, delivered, gap>>

Main == \/ AvailFull \/ AvailLast \/ Sleep
        \/ RxFull \/ RxLast \/ Delay
        \/ PopFull \/ PopLast \/ PopLoad \/ PopShift \/ PopClear

Next == Arrive \/ RxIsr \/ Main

Spec == Init /\ [][Next]_vars

\* A pending interrupt is taken, and between two interrupts the CPU executes at
\* least one instruction of the main loop.
FairSpec == Spec /\ WF_vars(RxIsr) /\ WF_vars(Main)

-----------------------------------------------------------------------------
(* Properties *)

TypeOK == /\ sent \in Nat
          /\ udr \in Seq(Nat)
          /\ Len(udr) <= UDR_DEPTH
          /\ base \in [Slots -> Nat]
          /\ first \in Slots /\ last \in Slots /\ full \in BOOLEAN
          /\ pc \in Pcs
          /\ size \in 0 .. MAX_READ /\ n \in 0 .. MAX_READ
          /\ performed \in BOOLEAN
          /\ delivered \in Seq(Nat)
          /\ gap \in BOOLEAN

\* However the handler interrupts a pop, and whatever is lost when the ring
\* fills, the bytes that do reach serial_rx()'s caller are bytes of the line, in
\* line order, none of them twice.
InOrder == /\ \A i \in 1 .. Len(delivered) : delivered[i] \in 1 .. sent
           /\ \A i, j \in 1 .. Len(delivered) :
                  i < j => delivered[i] < delivered[j]

\* serial.h: serial_rx() returns "the number of bytes read".  It counts a byte
\* without storing one if the handler fills the ring inside ringbuffer_pop()'s
\* second test for emptiness.
ReturnsBytesRead == ~gap

\* A host that never has the whole ring's worth of bytes on their way loses
\* nothing: the caller holds exactly the first bytes of the line.
ExactDelivery == WINDOW < RX_BUFFER_SIZE =>
    /\ ~gap
    /\ \A i \in 1 .. Len(delivered) : delivered[i] = i

\* A caller polling inside serial_rx() is always served: no byte the host has
\* sent stays behind in the USART or the ring while the reader waits for one.
WaitingReaderIsServed ==
    \A k \in 0 .. MAX_BYTES - 1 :
        (pc \in PollPcs /\ Len(delivered) = k /\ sent > k)
            ~> Len(delivered) > k

\* The bytes that are in the ring and the USART, the oldest first.
Waiting ==
    LET stored == [i \in 1 .. Count |-> base[(first + i - 1) % RX_BUFFER_SIZE]]
    IN  (IF pc = "shift" THEN Tail(stored) ELSE stored) \o udr

\* The slots that are taken: a slot is free again when its pop has taken down the flag.
Taken == Count + (IF pc = "clear" THEN 1 ELSE 0)

\* Some byte is neither waiting nor delivered any more.
Loses == Len(Waiting') + Len(delivered')
             < Len(Waiting) + Len(delivered) + (sent' - sent)

\* No byte is lost while a slot is free, however the handler and a pop disagree about
\* flag and indices: not when the handler throws one away (flag up, first # last), not
\* when the USART overruns, and not when a pop takes down the flag of a ring that has
\* just been filled.
LossNeedsFullRing == [][Loses => Taken >= RX_BUFFER_SIZE]_vars

\* The ring and the USART together are a first-in, first-out queue, whatever the handler
\* interrupts, as long as the host has no more than WINDOW bytes on their way.
Queue == INSTANCE ByteQueue
            WITH CAPACITY <- WINDOW, BATCH <- 1,
                 arrived <- sent, waiting <- Waiting, out <- delivered

QueueSpec == Queue!Spec
====

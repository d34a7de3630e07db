---- MODULE TwiBusProofs ----
(***************************************************************************)
(* Proofs about the two-wire bus, for any slaves, addresses, requests,     *)
(* samples and resets.                                                     *)
(*                                                                         *)
(* The inductive invariant is BusInv.  MasterInv says how far the transfer *)
(* is that the master's driver is in: what is in its buffers, how many     *)
(* bytes have been sent or fetched, and which state of the bus goes with   *)
(* which order or status.  SlaveInv(s) says the same of slave s and ties   *)
(* the two together: a slave that waits for a command has exactly the      *)
(* bytes in its buffer that the master has sent, and a slave with an       *)
(* answer to give either is about to be asked for it or has credit to lose *)
(* one command.                                                            *)
(*                                                                         *)
(* A step is either of the master alone (what the slaves can see of it is  *)
(* in SameView), of one slave (OneSlaveStep), or of the bus.               *)
(*                                                                         *)
(* From BusInv follow the types and buffer bounds, that the main loops and *)
(* their handlers exclude each other, and, step by step, that the bus      *)
(* implements MotorBank.  That answers are the right ones needs a second   *)
(* inductive invariant on top of it, Trusted: where the answer of the      *)
(* slave that took the last command is, at every moment until it is        *)
(* returned.                                                               *)
(***************************************************************************)
EXTENDS TwiBus, SequenceTheorems, TLAPS

Fields == {"pc", "mode", "new_addr", "rx", "rxi", "tx", "txi", "armed", "twint", "twdr",
           "twar", "eeprom", "next", "target", "response"}

-----------------------------------------------------------------------------
(* Commands and their bytes *)

LEMMA RequestTypes ==
    ASSUME NEW c \in Request
    PROVE  /\ c.op \in {"get", "set", "apply", "ping", "addr"}
           /\ c.to \in 0 .. 255 /\ c.arg \in Int
BY RequestAssumption DEF dc_rpm_t

LEMMA RequestFacts ==
    ASSUME NEW c \in Request
    PROVE  /\ c.op \in {"get", "set", "apply", "ping", "addr"}
           /\ c.to \in 0 .. 255 /\ c.arg \in Int
           /\ DOMAIN c = {"op", "to", "arg"}
           /\ Folded(c).op = c.op /\ Folded(c).arg = c.arg
           /\ Folded(c).to = c.to % 128
           /\ Folded(c) # Nothing
<1>1. c \in [op : {"get", "set", "apply", "ping", "addr"}, to : 0 .. 255, arg : Int]
  BY RequestAssumption DEF dc_rpm_t
<1>2. Folded(c) # Nothing
  BY NothingAssumption
<1> QED
  BY <1>1, <1>2 DEF Folded

LEMMA BodyIs ==
    ASSUME NEW c
    PROVE  /\ c.op = "get"   => Body(c) = <<0>>
           /\ c.op = "set"   => Body(c) = <<1, Low(c.arg), High(c.arg)>>
           /\ c.op = "apply" => Body(c) = <<2>>
           /\ c.op = "ping"  => Body(c) = <<3, c.to>>
           /\ c.op = "addr"  => Body(c) = <<4, c.arg>>
BY Zenon DEF Body

LEMMA BodyType ==
    ASSUME NEW c \in Request
    PROVE  Body(c) \in Seq(Int) /\ Len(Body(c)) \in 1 .. 3
<1>1. Low(c.arg) \in Int /\ High(c.arg) \in Int
  BY RequestFacts DEF Low, High
<1>3. c.to \in Int /\ c.arg \in Int
  BY RequestFacts
<1>4. ASSUME NEW a \in Int, NEW b \in Int, NEW d \in Int
      PROVE  /\ <<a>> \in Seq(Int) /\ Len(<<a>>) = 1
             /\ <<a, b>> \in Seq(Int) /\ Len(<<a, b>>) = 2
             /\ <<a, b, d>> \in Seq(Int) /\ Len(<<a, b, d>>) = 3
  OBVIOUS
<1>5. \/ Body(c) = <<0>> \/ Body(c) = <<1, Low(c.arg), High(c.arg)>>
      \/ Body(c) = <<2>> \/ Body(c) = <<3, c.to>> \/ Body(c) = <<4, c.arg>>
  BY RequestFacts, BodyIs, Zenon
<1>6. CASE Body(c) = <<0>> \/ Body(c) = <<2>>
  BY <1>4, <1>6, SMTT(40)
<1>7. CASE Body(c) = <<1, Low(c.arg), High(c.arg)>>
  BY <1>1, <1>4, <1>7
<1>8. CASE Body(c) = <<3, c.to>>
  BY <1>3, <1>4, <1>8
<1>9. CASE Body(c) = <<4, c.arg>>
  BY <1>3, <1>4, <1>9
<1> QED
  BY <1>5, <1>6, <1>7, <1>8, <1>9

\* Only a ping carries the id, and it is tried only for ids that are not folded.
LEMMA BodyFolded ==
    ASSUME NEW c \in Request, c.op = "ping" => c.to \in 1 .. 127
    PROVE  Body(Folded(c)) = Body(c)
<1>1. c.op = "ping" => Folded(c).to = c.to
  BY RequestFacts
<1> QED
  BY <1>1, RequestFacts, BodyIs

\* What twi_send() puts in the buffer.
LEMMA FrameFacts ==
    ASSUME NEW c \in Request, NEW a \in Int
    PROVE  /\ <<a>> \o Body(c) \in Seq(Int)
           /\ Len(<<a>> \o Body(c)) = Len(Body(c)) + 1
           /\ Len(<<a>> \o Body(c)) \in 2 .. 4
           /\ (<<a>> \o Body(c))[1] = a
           /\ \A k \in 1 .. Len(Body(c)) : (<<a>> \o Body(c))[k + 1] = Body(c)[k]
<1> DEFINE body == Body(c)
<1>1. body \in Seq(Int) /\ Len(body) \in 1 .. 3
  BY BodyType
<1>2. <<a>> \in Seq(Int) /\ Len(<<a>>) = 1 /\ <<a>>[1] = a
  OBVIOUS
<1> HIDE DEF body
<1>3. /\ <<a>> \o body \in Seq(Int)
      /\ Len(<<a>> \o body) = 1 + Len(body)
      /\ \A i \in 1 .. 1 + Len(body) :
             (<<a>> \o body)[i] = IF i <= 1 THEN <<a>>[i] ELSE body[i - 1]
  BY <1>1, <1>2, ConcatProperties
<1>4. \A k \in 1 .. Len(body) : (<<a>> \o body)[k + 1] = body[k]
  BY <1>1, <1>3
<1>5. Len(<<a>> \o body) \in 2 .. 4
  <2>1. PICK k \in 1 .. 3 : Len(body) = k
    BY <1>1
  <2>2. 1 + k \in 2 .. 4
    OBVIOUS
  <2> QED
    BY <1>3, <2>1, <2>2
<1> QED
  BY <1>1, <1>2, <1>3, <1>4, <1>5 DEF body

\* The address byte: seven bits of the id and the direction.
LEMMA AddressFacts ==
    ASSUME NEW to \in 0 .. 255
    PROVE  /\ twi_addr_write(to) \in Int /\ twi_addr_read(to) \in Int
           /\ twi_addr_write(to) % 2 = 0 /\ twi_addr_read(to) % 2 = 1
           /\ twi_addr_write(to) \div 2 = to % 128
           /\ twi_addr_read(to) \div 2 = to % 128
BY DEF twi_addr_write, twi_addr_read

-----------------------------------------------------------------------------
(* The master's part of the invariant *)

MasterFields == {"pc", "cmd", "mode", "tx", "txi", "rx", "rxi", "order", "twint", "twdr"}

\* The address is not out yet; the command's bytes are being sent; an answer's bytes
\* are being fetched.
Opening == \/ master.order = "start" \/ master.twint = "START"
           \/ master.order = "send" /\ phase = "sla"
Sending == /\ phase = "write"
           /\ master.order = "send" \/ master.twint \in {"MT_SLA_ACK", "MT_DATA_ACK"}
Fetching == \/ master.order \in {"ack", "nak"}
            \/ master.twint \in {"MR_SLA_ACK", "MR_DATA_ACK", "MR_DATA_NACK"}
\* The command has been sent and its answer is still to be fetched: from slave s.
Asked == \/ master.pc = "answer" /\ ~Opening
         \/ master.pc = "wait" /\ Opening
Asks(s) == Asked /\ slave[s].twar = master.cmd.to % 128

\* The bytes of the command, of the answer, that the slaves have been given or have given.
Sent == IF master.order = "send" THEN master.txi - 2 ELSE master.txi - 1
Fetched == IF master.twint = "MR_DATA_ACK" THEN master.rxi + 1 ELSE master.rxi

\* The driver works for a command, not for the fetching of an answer.
CommandOut == /\ master.cmd \in Request
              /\ master.cmd.op = "ping" => master.cmd.to \in 1 .. 127
              /\ master.pc = IF Question(master.cmd) THEN "answer" ELSE "idle"
              /\ master.tx = <<twi_addr_write(master.cmd.to)>> \o Body(master.cmd)

\* Types, and how an order, a status, "mode" and "pc" exclude each other.
MasterTypes ==
    /\ DOMAIN master = MasterFields
    /\ master.pc \in {"idle", "answer", "wait"}
    /\ master.mode \in {"READY", "INITIALIZING", "TRANSMITTING", "RECEIVING"}
    /\ master.order \in Orders \cup {Nothing}
    /\ master.twint \in MasterStatuses \cup {Nothing}
    /\ master.tx \in Seq(Int) /\ master.txi \in 0 .. Len(master.tx)
    /\ master.rx \in Seq(Int) /\ master.rxi \in 0 .. 2
    /\ master.twdr \in Int
    /\ master.mode = "READY" => master.twint = Nothing /\ master.order \in {"stop", Nothing}
    /\ master.order # Nothing => master.twint = Nothing
    /\ master.pc # "idle" => master.cmd \in Request /\ Question(master.cmd)
    /\ master.pc = "wait" => /\ Len(master.rx) = AnswerSize(master.cmd)
                             /\ master.rxi <= Len(master.rx)

OpeningInv == Opening =>
    /\ \/ CommandOut
       \/ /\ master.pc = "wait" /\ master.rxi = 0
          /\ master.tx = <<twi_addr_read(master.cmd.to)>>
    /\ IF master.order = "send" THEN master.txi = 1 /\ master.twdr = master.tx[1]
                                ELSE master.txi = 0

SendingInv == Sending =>
    /\ CommandOut
    /\ master.txi >= 1
    /\ master.order = "send" => master.txi >= 2 /\ master.twdr = master.tx[master.txi]
    /\ master.twint = "MT_SLA_ACK" => master.txi = 1

FetchingInv == Fetching =>
    /\ phase = "read" /\ master.pc = "wait"
    /\ master.order = "ack" \/ master.twint = "MR_DATA_ACK"
           => master.rxi < Len(master.rx) - 1
    /\ master.order = "nak" \/ master.twint = "MR_DATA_NACK"
           => master.rxi = Len(master.rx) - 1
    /\ master.twint = "MR_SLA_ACK" => master.rxi = 0

PhaseInv ==
    /\ phase \in {"free", "sla", "write", "read"}
    /\ linked \subseteq Slave
    /\ phase = "sla" => master.twint = "START" \/ master.order = "send"
    /\ master.twint = "START" => phase = "sla"
    /\ master.order = "send" => phase \in {"sla", "write"}
    /\ master.twint \in {"MT_SLA_ACK", "MT_DATA_ACK"} => phase = "write"
    /\ linked # {} =>
           \/ (phase = "write" /\ master.twint \in {"MT_SLA_ACK", "MT_DATA_ACK", Nothing})
           \/ (phase = "read" /\ Fetching /\ master.twint # "MR_DATA_NACK")

MasterInv == MasterTypes /\ OpeningInv /\ SendingInv /\ FetchingInv /\ PhaseInv

\* What a slave can see of a step of the master: nothing.
SameView ==
    /\ UNCHANGED <<phase, linked>>
    /\ Sending' <=> Sending
    /\ Sending => Sent' = Sent /\ master'.cmd = master.cmd
    /\ Asked' <=> Asked
    /\ Asked => master'.cmd = master.cmd
    /\ linked # {} /\ phase = "read" => Fetched' = Fetched
    /\ master'.pc = "wait" => master.pc = "wait" \/ Asked

LEMMA ReadyFacts ==
    ASSUME MasterInv, twi_isready
    PROVE  /\ ~Opening /\ ~Sending /\ ~Fetching
           /\ phase # "sla" /\ (linked # {} => phase = "write")
BY NothingAssumption
   DEF MasterInv, MasterTypes, PhaseInv, Opening, Sending, Fetching, twi_isready,
       Orders, MasterStatuses

-----------------------------------------------------------------------------
(* The steps of the master and of the bus keep the master's part *)

LEMMA SendCommandMaster ==
    ASSUME MasterInv, NEW c \in Request, SendCommand(c) PROVE MasterInv' /\ SameView
<1> DEFINE frame == <<twi_addr_write(c.to)>> \o Body(c)
<1>1. c.to \in 0 .. 255 /\ twi_addr_write(c.to) \in Int
  BY RequestFacts, AddressFacts
<1>2. frame \in Seq(Int) /\ Len(frame) \in 2 .. 4
  BY <1>1, FrameFacts
<1>3. /\ DOMAIN master' = MasterFields
      /\ master'.pc = (IF Question(c) THEN "answer" ELSE "idle")
      /\ master'.cmd = c /\ master'.mode = "INITIALIZING" /\ master'.tx = frame
      /\ master'.txi = 0 /\ master'.rx = master.rx /\ master'.rxi = master.rxi
      /\ master'.order = "start" /\ master'.twint = master.twint
      /\ master'.twdr = master.twdr
  BY DEF SendCommand, _twi_send, MasterInv, MasterTypes, MasterFields
<1>4. master.pc = "idle" /\ twi_isready /\ UNCHANGED <<phase, linked>>
      /\ (c.op = "ping" => c.to \in 1 .. 127) /\ master.twint = Nothing
  BY DEF SendCommand, MasterInv, MasterTypes, twi_isready
<1> HIDE DEF frame
<1>5. MasterTypes'
  BY <1>2, <1>3, <1>4, NothingAssumption
     DEF MasterInv, MasterTypes, Orders, MasterStatuses
<1>6. OpeningInv'
  BY <1>3, <1>4 DEF OpeningInv, CommandOut, frame
<1>7. ~Sending' /\ ~Fetching' /\ ~Asked' /\ Opening'
  BY <1>3, <1>4, NothingAssumption
     DEF Sending, Fetching, Asked, Opening, Orders, MasterStatuses
<1>8. SendingInv' /\ FetchingInv'
  BY <1>7 DEF SendingInv, FetchingInv
<1>9. PhaseInv'
  BY <1>3, <1>4, ReadyFacts, NothingAssumption
     DEF MasterInv, PhaseInv, Orders, MasterStatuses
<1>10. SameView
  BY <1>3, <1>4, <1>7, ReadyFacts DEF SameView, Asked
<1> QED
  BY <1>5, <1>6, <1>8, <1>9, <1>10 DEF MasterInv

LEMMA RecvResponseMaster ==
    ASSUME MasterInv, RecvResponse PROVE MasterInv' /\ SameView
<1> DEFINE size == AnswerSize(master.cmd)
           bytes == [i \in 1 .. size |-> Garbage]
<1>1. /\ master.pc = "answer" /\ twi_isready /\ UNCHANGED <<phase, linked>>
      /\ master.cmd \in Request /\ master.twint = Nothing
  BY DEF RecvResponse, MasterInv, MasterTypes, twi_isready
<1>2. bytes \in Seq(Int) /\ Len(bytes) = size /\ size \in 1 .. 2
  BY DEF AnswerSize, Garbage
<1>3. <<twi_addr_read(master.cmd.to)>> \in Seq(Int)
  BY <1>1, RequestFacts, AddressFacts
<1>4. /\ DOMAIN master' = MasterFields
      /\ master'.pc = "wait" /\ master'.cmd = master.cmd
      /\ master'.mode = "INITIALIZING"
      /\ master'.tx = <<twi_addr_read(master.cmd.to)>> /\ master'.txi = 0
      /\ master'.rx = bytes /\ master'.rxi = 0
      /\ master'.order = "start" /\ master'.twint = master.twint
      /\ master'.twdr = master.twdr
  BY DEF RecvResponse, _twi_send, MasterInv, MasterTypes, MasterFields
<1> HIDE DEF bytes
<1>5. MasterTypes'
  BY <1>1, <1>2, <1>3, <1>4, NothingAssumption
     DEF MasterInv, MasterTypes, Orders, MasterStatuses
<1>6. OpeningInv'
  BY <1>1, <1>4 DEF OpeningInv
<1>7. ~Sending' /\ ~Fetching' /\ Asked' /\ Opening' /\ Asked
  BY <1>1, <1>4, ReadyFacts, NothingAssumption
     DEF Sending, Fetching, Asked, Opening, Orders, MasterStatuses
<1>8. SendingInv' /\ FetchingInv'
  BY <1>7 DEF SendingInv, FetchingInv
<1>9. PhaseInv'
  BY <1>1, <1>4, ReadyFacts, NothingAssumption
     DEF MasterInv, PhaseInv, Orders, MasterStatuses
<1>10. SameView
  BY <1>1, <1>4, <1>7, ReadyFacts DEF SameView
<1> QED
  BY <1>5, <1>6, <1>8, <1>9, <1>10 DEF MasterInv

LEMMA ReturnMaster == ASSUME MasterInv, Return PROVE MasterInv' /\ SameView
<1>1. twi_isready /\ UNCHANGED <<phase, linked>> /\ master.pc = "wait"
  BY DEF Return
<1>2. /\ DOMAIN master' = MasterFields
      /\ master'.pc = "idle" /\ master'.rx = <<>> /\ master'.cmd = master.cmd
      /\ master'.mode = master.mode /\ master'.tx = master.tx
      /\ master'.txi = master.txi /\ master'.rxi = master.rxi
      /\ master'.order = master.order /\ master'.twint = master.twint
      /\ master'.twdr = master.twdr
  BY DEF Return, MasterInv, MasterTypes, MasterFields
<1>3. MasterTypes'
  BY <1>2 DEF MasterInv, MasterTypes
<1>4. ~Opening' /\ ~Sending' /\ ~Fetching' /\ ~Asked' /\ ~Asked
  BY <1>1, <1>2, ReadyFacts DEF Opening, Sending, Fetching, Asked
<1>5. OpeningInv' /\ SendingInv' /\ FetchingInv'
  BY <1>4 DEF OpeningInv, SendingInv, FetchingInv
<1>6. PhaseInv'
  BY <1>1, <1>2, <1>4, ReadyFacts DEF MasterInv, PhaseInv
<1>7. SameView
  BY <1>1, <1>2, <1>4, ReadyFacts DEF SameView
<1> QED
  BY <1>3, <1>5, <1>6, <1>7 DEF MasterInv

LEMMA IsrSendMaster ==
    ASSUME MasterInv, IsrSend, UNCHANGED <<phase, linked>> PROVE MasterInv' /\ SameView
<1>1. /\ DOMAIN master' = MasterFields
      /\ master'.pc = master.pc /\ master'.cmd = master.cmd
      /\ master'.mode = (IF master.twint = "MT_SLA_ACK" THEN "TRANSMITTING"
                                                         ELSE master.mode)
      /\ master'.tx = master.tx /\ master'.txi = master.txi + 1
      /\ master'.rx = master.rx /\ master'.rxi = master.rxi
      /\ master'.order = "send" /\ master'.twint = Nothing
      /\ master'.twdr = master.tx[master.txi + 1]
  BY DEF IsrSend, MasterInv, MasterTypes, MasterFields
<1>2. MasterTypes'
  BY <1>1, NothingAssumption
     DEF MasterInv, MasterTypes, IsrSend, Orders, MasterStatuses
<1>3. OpeningInv' /\ SendingInv'
  <2>1. master.twint = "START" => Opening /\ phase = "sla" /\ OpeningInv
    BY DEF IsrSend, MasterInv, PhaseInv, Opening
  <2>2. master.twint # "START" => Sending /\ phase = "write" /\ SendingInv
    BY DEF IsrSend, MasterInv, PhaseInv, Sending
  <2>3. master.order # "send"
    BY NothingAssumption DEF IsrSend, MasterInv, MasterTypes, MasterStatuses, Orders
  <2>4. OpeningInv'
    <3>1. CASE master.twint = "START"
      BY <1>1, <2>1, <2>3, <3>1, SMTT(40) DEF OpeningInv, CommandOut
    <3>2. CASE master.twint # "START"
      BY <1>1, <2>2, <3>2, NothingAssumption DEF Opening, OpeningInv, MasterStatuses
    <3> QED
      BY <3>1, <3>2
  <2>5. SendingInv'
    <3>1. CASE master.twint = "START"
      BY <1>1, <2>1, <3>1, NothingAssumption DEF Sending, SendingInv, MasterStatuses
    <3>2. CASE master.twint # "START"
      BY <1>1, <2>2, <3>2, NothingAssumption
         DEF SendingInv, CommandOut, MasterInv, MasterTypes, MasterStatuses
    <3> QED
      BY <3>1, <3>2
  <2> QED
    BY <2>4, <2>5
<1>4. FetchingInv' /\ PhaseInv'
  BY <1>1, NothingAssumption
     DEF MasterInv, MasterTypes, PhaseInv, FetchingInv, Fetching, IsrSend,
         Orders, MasterStatuses
<1>5. SameView
  BY <1>1, NothingAssumption
     DEF MasterInv, MasterTypes, PhaseInv, SameView, Opening, Sending, Fetching, Asked,
         Sent, Fetched, IsrSend, Orders, MasterStatuses
<1> QED
  BY <1>2, <1>3, <1>4, <1>5 DEF MasterInv

LEMMA StopFacts ==
    ASSUME NEW m, DOMAIN m = MasterFields
    PROVE  /\ DOMAIN twi_stop(m) = MasterFields
           /\ twi_stop(m).pc = m.pc /\ twi_stop(m).cmd = m.cmd
           /\ twi_stop(m).mode = "READY" /\ twi_stop(m).order = "stop"
           /\ twi_stop(m).tx = m.tx /\ twi_stop(m).txi = m.txi
           /\ twi_stop(m).rx = m.rx /\ twi_stop(m).rxi = m.rxi
           /\ twi_stop(m).twint = Nothing /\ twi_stop(m).twdr = m.twdr
BY DEF twi_stop, MasterFields

\* The end of a transfer, after the last byte or an error.
LEMMA IsrSentMaster ==
    ASSUME MasterInv, IsrSent, UNCHANGED <<phase, linked>>
    PROVE  /\ MasterInv' /\ ~Sending' /\ ~Fetching'
           /\ Sending /\ CommandOut /\ Sent = Len(Body(master.cmd))
           /\ master'.cmd = master.cmd /\ master'.pc = master.pc
           /\ Asked' <=> Asked
<1>1. master' = twi_stop(master) /\ DOMAIN master = MasterFields
  BY DEF IsrSent, MasterInv, MasterTypes
<1>2. Sending /\ CommandOut /\ ~Opening
  <2>1. master.twint = "START" => Len(master.tx) >= 1 /\ master.txi = 0
    <3>1. CASE CommandOut
      <4>1. Len(master.tx) = Len(Body(master.cmd)) + 1
        BY <3>1, RequestTypes, AddressFacts, FrameFacts DEF CommandOut
      <4> QED
        BY <4>1, <3>1, BodyType, NothingAssumption
           DEF CommandOut, MasterInv, MasterTypes, OpeningInv, Opening, Orders,
               MasterStatuses
    <3>2. CASE master.tx = <<twi_addr_read(master.cmd.to)>>
      BY <3>2, NothingAssumption
         DEF MasterInv, MasterTypes, OpeningInv, Opening, Orders, MasterStatuses
    <3> QED
      BY <3>1, <3>2 DEF MasterInv, OpeningInv, Opening
  <2>2. master.twint # "START" /\ master.txi >= Len(master.tx)
    BY <2>1 DEF IsrSent, MasterInv, MasterTypes
  <2> QED
    BY <2>2, NothingAssumption
       DEF IsrSent, MasterInv, MasterTypes, SendingInv, PhaseInv, Sending, Opening,
           Orders, MasterStatuses
<1>3. Sent = Len(Body(master.cmd))
  <2>1. Len(master.tx) = Len(Body(master.cmd)) + 1
    BY <1>2, RequestTypes, AddressFacts, FrameFacts DEF CommandOut
  <2>2. Len(Body(master.cmd)) \in 1 .. 3
    BY <1>2, BodyType DEF CommandOut
  <2>3. master.order = Nothing /\ master.txi = Len(master.tx)
    BY <2>1, <2>2, NothingAssumption
       DEF IsrSent, MasterInv, MasterTypes, Orders, MasterStatuses
  <2> QED
    BY <2>1, <2>2, <2>3, NothingAssumption DEF Sent, Orders
<1>4. MasterTypes' /\ PhaseInv'
  BY <1>1, <1>2, StopFacts, NothingAssumption
     DEF IsrSent, MasterInv, MasterTypes, PhaseInv, Sending, Opening, Orders, MasterStatuses
<1>5. ~Sending' /\ ~Fetching' /\ ~Opening'
  BY <1>1, StopFacts, NothingAssumption
     DEF Sending, Fetching, Opening, Orders, MasterStatuses
<1>6. OpeningInv' /\ SendingInv' /\ FetchingInv'
  BY <1>5 DEF OpeningInv, SendingInv, FetchingInv
<1>7. Asked' <=> Asked
  BY <1>1, <1>2, <1>5, StopFacts DEF Asked
<1> QED
  BY <1>1, <1>2, <1>3, <1>4, <1>5, <1>6, <1>7, StopFacts DEF MasterInv

LEMMA StoredFacts ==
    ASSUME NEW m, DOMAIN m = MasterFields, m.rx \in Seq(Int), m.rxi \in Nat,
           m.rxi < Len(m.rx), m.twdr \in Int
    PROVE  /\ DOMAIN Stored(m) = MasterFields
           /\ Stored(m).pc = m.pc /\ Stored(m).cmd = m.cmd /\ Stored(m).mode = m.mode
           /\ Stored(m).tx = m.tx /\ Stored(m).txi = m.txi
           /\ Stored(m).rx = [m.rx EXCEPT ![m.rxi + 1] = m.twdr]
           /\ Stored(m).rx \in Seq(Int) /\ Len(Stored(m).rx) = Len(m.rx)
           /\ Stored(m).rxi = m.rxi + 1
           /\ Stored(m).order = m.order /\ Stored(m).twint = m.twint
           /\ Stored(m).twdr = m.twdr
<1>1. Stored(m).rx = [m.rx EXCEPT ![m.rxi + 1] = m.twdr]
  BY DEF Stored, MasterFields
<1>2. m.rxi + 1 \in 1 .. Len(m.rx)
  OBVIOUS
<1>3. /\ [m.rx EXCEPT ![m.rxi + 1] = m.twdr] \in Seq(Int)
      /\ Len([m.rx EXCEPT ![m.rxi + 1] = m.twdr]) = Len(m.rx)
  BY <1>2, ExceptSeq
<1> QED
  BY <1>1, <1>3 DEF Stored, MasterFields

LEMMA IsrReceiveMaster ==
    ASSUME MasterInv, IsrReceive, UNCHANGED <<phase, linked>>
    PROVE  MasterInv' /\ SameView
<1> DEFINE m == IF master.twint = "MR_DATA_ACK" THEN Stored(master) ELSE master
<1>1. /\ DOMAIN master = MasterFields /\ master.rx \in Seq(Int) /\ master.rxi \in 0 .. 2
      /\ master.twdr \in Int /\ master.order = Nothing /\ Fetching
      /\ master.pc = "wait" /\ phase = "read" /\ Len(master.rx) = AnswerSize(master.cmd)
      /\ master.cmd \in Request /\ Question(master.cmd)
      /\ master.twint = "MR_DATA_ACK" => master.rxi < Len(master.rx) - 1
      /\ master.twint = "MR_SLA_ACK" => master.rxi = 0
  BY NothingAssumption
     DEF IsrReceive, MasterInv, MasterTypes, FetchingInv, Fetching, Orders, MasterStatuses
<1>2. PICK size \in 1 .. 2 : Len(master.rx) = size /\ AnswerSize(master.cmd) = size
  BY <1>1 DEF AnswerSize
<1>3. /\ DOMAIN m = MasterFields /\ m.rx \in Seq(Int) /\ Len(m.rx) = size
      /\ m.pc = master.pc /\ m.cmd = master.cmd /\ m.mode = master.mode
      /\ m.tx = master.tx /\ m.txi = master.txi /\ m.twdr = master.twdr
      /\ m.rxi = Fetched /\ m.rxi \in 0 .. size - 1
  <2>1. CASE master.twint = "MR_DATA_ACK"
    <3>1. master.rxi \in Nat /\ master.rxi < Len(master.rx)
      BY <1>1, <1>2, <2>1
    <3>2. m = Stored(master) /\ Fetched = master.rxi + 1
      BY <2>1 DEF Fetched
    <3>3. master.rxi + 1 \in 0 .. size - 1
      BY <1>1, <1>2, <2>1
    <3> HIDE DEF m
    <3>4. /\ DOMAIN m = MasterFields /\ m.rx \in Seq(Int) /\ Len(m.rx) = Len(master.rx)
          /\ m.pc = master.pc /\ m.cmd = master.cmd /\ m.mode = master.mode
          /\ m.tx = master.tx /\ m.txi = master.txi /\ m.twdr = master.twdr
          /\ m.rxi = master.rxi + 1
      BY <1>1, <3>1, <3>2, StoredFacts
    <3> QED
      BY <1>2, <3>2, <3>3, <3>4
  <2>2. CASE master.twint = "MR_SLA_ACK"
    BY <1>1, <1>2, <2>2 DEF Fetched
  <2> QED
    BY <2>1, <2>2 DEF IsrReceive
<1>4. master' = [m EXCEPT !.mode = "RECEIVING", !.twint = Nothing,
                          !.order = IF m.rxi < Len(m.rx) - 1 THEN "ack" ELSE "nak"]
  BY DEF IsrReceive
<1> HIDE DEF m
<1>5. /\ DOMAIN master' = MasterFields
      /\ master'.pc = m.pc /\ master'.cmd = m.cmd /\ master'.mode = "RECEIVING"
      /\ master'.tx = m.tx /\ master'.txi = m.txi
      /\ master'.rx = m.rx /\ master'.rxi = m.rxi
      /\ master'.order = (IF m.rxi < Len(m.rx) - 1 THEN "ack" ELSE "nak")
      /\ master'.twint = Nothing /\ master'.twdr = m.twdr
  BY <1>3, <1>4 DEF MasterFields
<1>6. MasterTypes'
  <2>1. Len(master'.rx) = size /\ AnswerSize(master'.cmd) = size
    BY <1>2, <1>3, <1>5
  <2>2. master'.rxi \in 0 .. 2 /\ master'.rxi <= size
    BY <1>3, <1>5
  <2> QED
    BY <1>1, <1>3, <1>5, <2>1, <2>2, NothingAssumption
       DEF MasterInv, MasterTypes, Orders, MasterStatuses
<1>7. ~Opening' /\ ~Sending' /\ Fetching'
  BY <1>1, <1>5, NothingAssumption
     DEF Sending, Fetching, Opening, Orders, MasterStatuses
<1>8. OpeningInv' /\ SendingInv'
  BY <1>7 DEF OpeningInv, SendingInv
<1>9. FetchingInv'
  BY <1>1, <1>3, <1>5, NothingAssumption DEF FetchingInv, Orders, MasterStatuses
<1>10. PhaseInv'
  BY <1>1, <1>5, <1>7, NothingAssumption
     DEF MasterInv, PhaseInv, IsrReceive, Orders, MasterStatuses
<1>11. SameView
  BY <1>1, <1>3, <1>5, <1>7, NothingAssumption
     DEF SameView, Sending, Asked, Opening, Fetched, IsrReceive, Orders, MasterStatuses
<1> QED
  BY <1>6, <1>8, <1>9, <1>10, <1>11 DEF MasterInv

LEMMA IsrReceivedMaster ==
    ASSUME MasterInv, IsrReceived, UNCHANGED <<phase, linked>>
    PROVE  MasterInv' /\ SameView
<1>1. /\ DOMAIN master = MasterFields /\ master.rx \in Seq(Int) /\ master.rxi \in 0 .. 2
      /\ master.twdr \in Int /\ master.order = Nothing /\ Fetching
      /\ master.pc = "wait" /\ phase = "read" /\ Len(master.rx) = AnswerSize(master.cmd)
      /\ master.rxi = Len(master.rx) - 1 /\ linked = {}
  BY NothingAssumption
     DEF IsrReceived, MasterInv, MasterTypes, FetchingInv, Fetching, PhaseInv,
         Orders, MasterStatuses
<1>2. PICK size \in 1 .. 2 : Len(master.rx) = size /\ AnswerSize(master.cmd) = size
  BY <1>1 DEF AnswerSize
<1>3. /\ DOMAIN Stored(master) = MasterFields
      /\ Stored(master).rx \in Seq(Int) /\ Len(Stored(master).rx) = size
      /\ Stored(master).pc = master.pc /\ Stored(master).cmd = master.cmd
      /\ Stored(master).tx = master.tx /\ Stored(master).txi = master.txi
      /\ Stored(master).rxi = size /\ Stored(master).twdr = master.twdr
  <2>1. master.rxi \in Nat /\ master.rxi < Len(master.rx)
    BY <1>1, <1>2
  <2>2. /\ DOMAIN Stored(master) = MasterFields
        /\ Stored(master).rx \in Seq(Int) /\ Len(Stored(master).rx) = Len(master.rx)
        /\ Stored(master).pc = master.pc /\ Stored(master).cmd = master.cmd
        /\ Stored(master).tx = master.tx /\ Stored(master).txi = master.txi
        /\ Stored(master).rxi = master.rxi + 1 /\ Stored(master).twdr = master.twdr
    BY <1>1, <2>1, StoredFacts
  <2>3. master.rxi + 1 = size
    BY <1>1, <1>2
  <2> QED
    BY <1>2, <2>2, <2>3
<1>4. /\ DOMAIN master' = MasterFields
      /\ master'.pc = master.pc /\ master'.cmd = master.cmd /\ master'.mode = "READY"
      /\ master'.tx = master.tx /\ master'.txi = master.txi
      /\ master'.rx = Stored(master).rx /\ master'.rxi = size
      /\ master'.order = "stop" /\ master'.twint = Nothing /\ master'.twdr = master.twdr
  BY <1>3, StopFacts DEF IsrReceived
<1>5. MasterTypes'
  <2>1. Len(master'.rx) = size /\ AnswerSize(master'.cmd) = size
    BY <1>2, <1>3, <1>4
  <2>2. master'.rxi \in 0 .. 2 /\ master'.rxi <= size
    BY <1>4
  <2> QED
    BY <1>1, <1>3, <1>4, <2>1, <2>2, NothingAssumption
       DEF MasterInv, MasterTypes, Orders, MasterStatuses
<1>6. ~Opening' /\ ~Sending' /\ ~Fetching' /\ ~Opening /\ ~Sending
  BY <1>1, <1>4, NothingAssumption
     DEF Sending, Fetching, Opening, IsrReceived, Orders, MasterStatuses
<1>7. OpeningInv' /\ SendingInv' /\ FetchingInv'
  BY <1>6 DEF OpeningInv, SendingInv, FetchingInv
<1>8. PhaseInv'
  BY <1>1, <1>4, NothingAssumption DEF MasterInv, PhaseInv, Orders, MasterStatuses
<1>9. SameView
  BY <1>1, <1>4, <1>6 DEF SameView, Asked
<1> QED
  BY <1>5, <1>7, <1>8, <1>9 DEF MasterInv

LEMMA IsrErrorMaster ==
    ASSUME MasterInv, IsrError, UNCHANGED <<phase, linked>>
    PROVE  MasterInv' /\ SameView
<1>1. /\ DOMAIN master = MasterFields /\ master.order = Nothing
      /\ ~Opening /\ ~Sending /\ ~Fetching /\ linked = {} /\ phase # "sla"
  BY NothingAssumption
     DEF IsrError, MasterInv, MasterTypes, Opening, Sending, Fetching, PhaseInv,
         Orders, MasterStatuses
<1>2. /\ DOMAIN master' = MasterFields
      /\ master'.pc = master.pc /\ master'.cmd = master.cmd /\ master'.mode = "READY"
      /\ master'.tx = master.tx /\ master'.txi = master.txi
      /\ master'.rx = master.rx /\ master'.rxi = master.rxi
      /\ master'.order = "stop" /\ master'.twint = Nothing /\ master'.twdr = master.twdr
  BY <1>1, StopFacts DEF IsrError
<1>3. MasterTypes'
  BY <1>1, <1>2, NothingAssumption DEF MasterInv, MasterTypes, Orders, MasterStatuses
<1>4. ~Opening' /\ ~Sending' /\ ~Fetching'
  BY <1>2, NothingAssumption DEF Sending, Fetching, Opening, Orders, MasterStatuses
<1>5. OpeningInv' /\ SendingInv' /\ FetchingInv'
  BY <1>4 DEF OpeningInv, SendingInv, FetchingInv
<1>6. PhaseInv'
  BY <1>1, <1>2, NothingAssumption DEF MasterInv, PhaseInv, Orders, MasterStatuses
<1>7. SameView
  BY <1>1, <1>2, <1>4 DEF SameView, Asked
<1> QED
  BY <1>3, <1>5, <1>6, <1>7 DEF MasterInv

LEMMA DoneFacts ==
    ASSUME DOMAIN master = MasterFields, NEW status
    PROVE  /\ DOMAIN Done(status) = MasterFields
           /\ Done(status).pc = master.pc /\ Done(status).cmd = master.cmd
           /\ Done(status).mode = master.mode
           /\ Done(status).tx = master.tx /\ Done(status).txi = master.txi
           /\ Done(status).rx = master.rx /\ Done(status).rxi = master.rxi
           /\ Done(status).order = Nothing /\ Done(status).twint = status
           /\ Done(status).twdr = master.twdr
BY DEF Done, MasterFields

\* The master's side of the hardware's steps.
LEMMA BusStartMaster ==
    ASSUME MasterInv, BusStart
    PROVE  /\ MasterInv' /\ ~Sending /\ ~Sending' /\ Opening /\ Opening'
           /\ Asked' <=> Asked
           /\ master'.pc = master.pc /\ master'.cmd = master.cmd
           /\ linked # {} => phase = "write"
<1>1. /\ DOMAIN master' = MasterFields
      /\ master'.pc = master.pc /\ master'.cmd = master.cmd
      /\ master'.mode = master.mode
      /\ master'.tx = master.tx /\ master'.txi = master.txi
      /\ master'.rx = master.rx /\ master'.rxi = master.rxi
      /\ master'.order = Nothing /\ master'.twint = "START"
      /\ master'.twdr = master.twdr
  BY DoneFacts DEF BusStart, MasterInv, MasterTypes
<1>2. master.order = "start" /\ phase' = "sla" /\ linked' = {} /\ master.twint = Nothing
  BY NothingAssumption DEF BusStart, MasterInv, MasterTypes, Orders
<1>3. MasterTypes'
  BY <1>1, <1>2, NothingAssumption DEF MasterInv, MasterTypes, Orders, MasterStatuses
<1>4. Opening /\ Opening' /\ ~Sending /\ ~Sending' /\ ~Fetching /\ ~Fetching'
  BY <1>1, <1>2, NothingAssumption
     DEF Opening, Sending, Fetching, Orders, MasterStatuses
<1>5. OpeningInv' /\ SendingInv' /\ FetchingInv'
  BY <1>1, <1>2, <1>4, NothingAssumption
     DEF MasterInv, OpeningInv, SendingInv, FetchingInv, CommandOut, Orders
<1>6. PhaseInv'
  BY <1>1, <1>2, NothingAssumption DEF PhaseInv, Orders, MasterStatuses
<1>7. Asked' <=> Asked
  BY <1>1, <1>4 DEF Asked
<1>8. linked # {} => phase = "write"
  BY <1>4 DEF MasterInv, PhaseInv
<1> QED
  BY <1>1, <1>3, <1>4, <1>5, <1>6, <1>7, <1>8 DEF MasterInv

LEMMA BusStopMaster ==
    ASSUME MasterInv, BusStop
    PROVE  /\ MasterInv' /\ ~Sending /\ ~Sending'
           /\ Asked' <=> Asked
           /\ master'.pc = master.pc /\ master'.cmd = master.cmd
           /\ linked # {} => phase = "write"
<1>1. /\ DOMAIN master' = MasterFields
      /\ master'.pc = master.pc /\ master'.cmd = master.cmd
      /\ master'.mode = master.mode
      /\ master'.tx = master.tx /\ master'.txi = master.txi
      /\ master'.rx = master.rx /\ master'.rxi = master.rxi
      /\ master'.order = Nothing /\ master'.twint = Nothing
      /\ master'.twdr = master.twdr
  BY DoneFacts DEF BusStop, MasterInv, MasterTypes
<1>2. master.order = "stop" /\ phase' = "free" /\ linked' = {} /\ master.twint = Nothing
  BY NothingAssumption DEF BusStop, MasterInv, MasterTypes, Orders
<1>3. MasterTypes'
  BY <1>1, <1>2, NothingAssumption DEF MasterInv, MasterTypes, Orders, MasterStatuses
<1>4. /\ ~Opening /\ ~Opening' /\ ~Sending /\ ~Sending' /\ ~Fetching /\ ~Fetching'
  BY <1>1, <1>2, NothingAssumption
     DEF Opening, Sending, Fetching, Orders, MasterStatuses
<1>5. OpeningInv' /\ SendingInv' /\ FetchingInv'
  BY <1>4 DEF OpeningInv, SendingInv, FetchingInv
<1>6. PhaseInv'
  BY <1>1, <1>2, NothingAssumption DEF PhaseInv, Orders, MasterStatuses
<1>7. Asked' <=> Asked
  BY <1>1, <1>4 DEF Asked
<1>8. linked # {} => phase = "write"
  BY <1>4 DEF MasterInv, PhaseInv
<1> QED
  BY <1>1, <1>3, <1>4, <1>5, <1>6, <1>7, <1>8 DEF MasterInv

\* The address byte is out: the write of a command ...
LEMMA AddressWriteMaster ==
    ASSUME MasterInv, BusAddress, AddressWrite
    PROVE  /\ MasterInv' /\ ~Sending /\ ~Asked /\ CommandOut
           /\ master'.pc = master.pc /\ master'.cmd = master.cmd
           /\ Address = master.cmd.to % 128 /\ linked = {} /\ linked' \subseteq Slave
           /\ Asked' <=> master.pc = "answer"
           /\ Sent' = 0 /\ phase' = "write"
           /\ Sending' <=> linked' # {}
<1>1. /\ DOMAIN master' = MasterFields
      /\ master'.pc = master.pc /\ master'.cmd = master.cmd
      /\ master'.mode = master.mode
      /\ master'.tx = master.tx /\ master'.txi = master.txi
      /\ master'.rx = master.rx /\ master'.rxi = master.rxi
      /\ master'.order = Nothing
      /\ master'.twint = (IF linked' = {} THEN "MT_SLA_NACK" ELSE "MT_SLA_ACK")
      /\ master'.twdr = master.twdr
  BY DoneFacts DEF AddressWrite, MasterInv, MasterTypes
<1>2. /\ phase = "sla" /\ master.order = "send" /\ phase' = "write"
      /\ linked' \subseteq Slave /\ master.twdr % 2 = 0
  BY DEF BusAddress, AddressWrite, Listeners
<1>3. /\ Opening /\ master.twint = Nothing /\ linked = {}
      /\ master.txi = 1 /\ master.twdr = master.tx[1]
  BY <1>2, NothingAssumption
     DEF Opening, Fetching, MasterInv, MasterTypes, OpeningInv, PhaseInv, Orders,
         MasterStatuses
<1>4. CommandOut /\ Address = master.cmd.to % 128
  <2>1. CASE CommandOut
    <3>1. master.cmd \in Request /\ master.cmd.to \in 0 .. 255
      BY <2>1, RequestTypes, SMTT(40) DEF CommandOut
    <3>2. /\ twi_addr_write(master.cmd.to) \in Int
          /\ twi_addr_write(master.cmd.to) \div 2 = master.cmd.to % 128
      BY <3>1, AddressFacts
    <3>3. master.tx[1] = twi_addr_write(master.cmd.to)
      BY <2>1, <3>1, <3>2, FrameFacts DEF CommandOut
    <3> QED
      BY <2>1, <3>2, <3>3, <1>3 DEF Address
  <2>2. CASE master.pc = "wait" /\ master.tx = <<twi_addr_read(master.cmd.to)>>
    <3>1. master.tx[1] = twi_addr_read(master.cmd.to) /\ master.cmd \in Request
      BY <2>2 DEF MasterInv, MasterTypes
    <3> QED
      BY <3>1, <1>2, <1>3, RequestFacts, AddressFacts
  <2> QED
    BY <1>3, <2>1, <2>2 DEF MasterInv, OpeningInv
<1>5. MasterTypes'
  BY <1>1, <1>2, <1>3, NothingAssumption DEF MasterInv, MasterTypes, Orders, MasterStatuses
<1>6. /\ ~Sending /\ ~Opening' /\ ~Fetching' /\ (Sending' <=> linked' # {})
  BY <1>1, <1>2, NothingAssumption
     DEF Opening, Sending, Fetching, Orders, MasterStatuses
<1>7. OpeningInv' /\ SendingInv' /\ FetchingInv'
  BY <1>1, <1>2, <1>3, <1>4, <1>6, NothingAssumption
     DEF MasterInv, OpeningInv, SendingInv, FetchingInv, CommandOut, Orders
<1>8. PhaseInv'
  BY <1>1, <1>2, NothingAssumption DEF PhaseInv, Orders, MasterStatuses
<1>9. ~Asked /\ (Asked' <=> master.pc = "answer")
  BY <1>1, <1>3, <1>4, <1>6 DEF Asked, CommandOut
<1>10. Sent' = 0
  BY <1>1, <1>3, NothingAssumption DEF Sent, Orders
<1> QED
  BY <1>1, <1>2, <1>3, <1>4, <1>5, <1>6, <1>7, <1>8, <1>9, <1>10 DEF MasterInv

\* ... or the read of an answer.
LEMMA AddressReadMaster ==
    ASSUME MasterInv, BusAddress, AddressRead
    PROVE  /\ MasterInv' /\ ~Sending /\ ~Sending' /\ Asked /\ ~Asked'
           /\ master.pc = "wait"
           /\ master'.pc = master.pc /\ master'.cmd = master.cmd
           /\ Address = master.cmd.to % 128 /\ linked = {} /\ linked' \subseteq Slave
           /\ Fetched' = 0 /\ phase' = "read"
           /\ master'.rx = master.rx /\ master'.rxi = 0
           /\ master'.twint = (IF linked' = {} THEN "MR_SLA_NACK" ELSE "MR_SLA_ACK")
           /\ ~Opening' /\ (Fetching' <=> linked' # {})
<1>1. /\ DOMAIN master' = MasterFields
      /\ master'.pc = master.pc /\ master'.cmd = master.cmd
      /\ master'.mode = master.mode
      /\ master'.tx = master.tx /\ master'.txi = master.txi
      /\ master'.rx = master.rx /\ master'.rxi = master.rxi
      /\ master'.order = Nothing
      /\ master'.twint = (IF linked' = {} THEN "MR_SLA_NACK" ELSE "MR_SLA_ACK")
      /\ master'.twdr = master.twdr
  BY DoneFacts DEF AddressRead, MasterInv, MasterTypes
<1>2. /\ phase = "sla" /\ master.order = "send" /\ phase' = "read"
      /\ linked' \subseteq Slave /\ master.twdr % 2 = 1
  BY DEF BusAddress, AddressRead, Listeners
<1>3. /\ Opening /\ master.twint = Nothing /\ linked = {}
      /\ master.txi = 1 /\ master.twdr = master.tx[1]
  BY <1>2, NothingAssumption
     DEF Opening, Fetching, MasterInv, MasterTypes, OpeningInv, PhaseInv, Orders,
         MasterStatuses
<1>4. master.pc = "wait" /\ master.rxi = 0 /\ Address = master.cmd.to % 128
  <2>1. CASE CommandOut
    <3>1. master.cmd \in Request /\ master.cmd.to \in 0 .. 255
      BY <2>1, RequestTypes, SMTT(40) DEF CommandOut
    <3>2. /\ twi_addr_write(master.cmd.to) \in Int
          /\ twi_addr_write(master.cmd.to) % 2 = 0
      BY <3>1, AddressFacts
    <3>3. master.tx[1] = twi_addr_write(master.cmd.to)
      BY <2>1, <3>1, <3>2, FrameFacts DEF CommandOut
    <3> QED
      BY <3>2, <3>3, <1>2, <1>3
  <2>2. CASE /\ master.pc = "wait" /\ master.rxi = 0
             /\ master.tx = <<twi_addr_read(master.cmd.to)>>
    <3>1. master.tx[1] = twi_addr_read(master.cmd.to) /\ master.cmd \in Request
      BY <2>2 DEF MasterInv, MasterTypes
    <3> QED
      BY <2>2, <3>1, <1>2, <1>3, RequestFacts, AddressFacts DEF Address
  <2> QED
    BY <1>3, <2>1, <2>2 DEF MasterInv, OpeningInv
<1>5. MasterTypes'
  BY <1>1, <1>2, <1>3, NothingAssumption DEF MasterInv, MasterTypes, Orders, MasterStatuses
<1>6. /\ ~Sending /\ ~Sending' /\ ~Opening' /\ (Fetching' <=> linked' # {})
  BY <1>1, <1>2, NothingAssumption
     DEF Opening, Sending, Fetching, Orders, MasterStatuses
<1>7. OpeningInv' /\ SendingInv'
  BY <1>6 DEF OpeningInv, SendingInv
<1>8. FetchingInv'
  BY <1>1, <1>2, <1>4, NothingAssumption DEF FetchingInv, Orders, MasterStatuses
<1>9. PhaseInv'
  BY <1>1, <1>2, <1>6, NothingAssumption DEF PhaseInv, Orders, MasterStatuses
<1>10. Asked /\ ~Asked'
  BY <1>1, <1>3, <1>4, <1>6 DEF Asked
<1>11. Fetched' = 0
  BY <1>1, <1>4 DEF Fetched
<1> QED
  BY <1>1, <1>2, <1>3, <1>4, <1>5, <1>6, <1>7, <1>8, <1>9, <1>10, <1>11 DEF MasterInv

LEMMA BusWriteMaster ==
    ASSUME MasterInv, BusWrite
    PROVE  /\ MasterInv' /\ Sending /\ UNCHANGED <<phase, linked>>
           /\ Asked' <=> Asked
           /\ master'.pc = master.pc /\ master'.cmd = master.cmd
           /\ Sending' <=> linked # {}
           /\ Sent \in 0 .. Len(Body(master.cmd)) - 1 /\ Sent' = Sent + 1
           /\ master.twdr = Body(master.cmd)[Sent + 1]
<1>1. /\ DOMAIN master' = MasterFields
      /\ master'.pc = master.pc /\ master'.cmd = master.cmd
      /\ master'.mode = master.mode
      /\ master'.tx = master.tx /\ master'.txi = master.txi
      /\ master'.rx = master.rx /\ master'.rxi = master.rxi
      /\ master'.order = Nothing
      /\ master'.twint = (IF linked = {} THEN "MT_DATA_NACK" ELSE "MT_DATA_ACK")
      /\ master'.twdr = master.twdr
  BY DoneFacts DEF BusWrite, MasterInv, MasterTypes
<1>2. /\ phase = "write" /\ master.order = "send" /\ UNCHANGED <<phase, linked>>
      /\ master.twint = Nothing
  BY NothingAssumption DEF BusWrite, MasterInv, MasterTypes, Orders
<1>3. /\ Sending /\ CommandOut
      /\ master.txi \in 2 .. Len(master.tx) /\ master.twdr = master.tx[master.txi]
  BY <1>2 DEF Sending, MasterInv, MasterTypes, SendingInv
<1>4. MasterTypes'
  BY <1>1, <1>2, NothingAssumption DEF MasterInv, MasterTypes, Orders, MasterStatuses
<1>5. /\ ~Opening /\ ~Opening' /\ ~Fetching' /\ (Sending' <=> linked # {})
  BY <1>1, <1>2, NothingAssumption
     DEF Opening, Sending, Fetching, Orders, MasterStatuses
<1>6. OpeningInv' /\ SendingInv' /\ FetchingInv'
  BY <1>1, <1>2, <1>3, <1>5, NothingAssumption
     DEF OpeningInv, SendingInv, FetchingInv, CommandOut, Orders
<1>7. PhaseInv'
  BY <1>1, <1>2, NothingAssumption DEF MasterInv, PhaseInv, Orders, MasterStatuses
<1>8. Asked' <=> Asked
  BY <1>1, <1>5 DEF Asked
<1>9. Sent = master.txi - 2 /\ Sent' = master.txi - 1
  BY <1>1, <1>2, NothingAssumption DEF Sent, Orders
<1>10. /\ Sent \in 0 .. Len(Body(master.cmd)) - 1 /\ Sent' = Sent + 1
       /\ master.twdr = Body(master.cmd)[Sent + 1]
  <2>1. PICK n \in 1 .. 3 : Len(Body(master.cmd)) = n
    BY <1>3, BodyType DEF CommandOut
  <2>2. master.cmd \in Request /\ twi_addr_write(master.cmd.to) \in Int
    <3>1. master.cmd \in Request
      BY <1>3 DEF CommandOut
    <3>2. master.cmd.to \in 0 .. 255
      BY <3>1, RequestTypes
    <3> QED
      BY <3>1, <3>2, AddressFacts
  <2>3. /\ Len(master.tx) = n + 1
        /\ \A k \in 1 .. n : master.tx[k + 1] = Body(master.cmd)[k]
    BY <1>3, <2>1, <2>2, FrameFacts, SMTT(40) DEF CommandOut
  <2>4. PICK k \in 1 .. n : master.txi = k + 1
    <3>1. master.txi \in 2 .. n + 1
      BY <1>3, <2>3
    <3>2. master.txi - 1 \in 1 .. n /\ master.txi = (master.txi - 1) + 1
      BY <3>1
    <3> QED
      BY <3>2
  <2>5. Sent = k - 1 /\ Sent' = k /\ Sent \in 0 .. n - 1
    BY <1>9, <2>4
  <2>6. master.twdr = Body(master.cmd)[k]
    BY <1>3, <2>3, <2>4
  <2> QED
    BY <2>1, <2>5, <2>6
<1> QED
  BY <1>1, <1>2, <1>3, <1>4, <1>5, <1>6, <1>7, <1>8, <1>10 DEF MasterInv

LEMMA DrivenType ==
    ASSUME \A s \in linked : slave[s].twdr \in Int PROVE Driven \in Int
<1> PICK bytes : bytes = {slave[s].twdr : s \in linked}
  OBVIOUS
<1>1. Driven = IF bytes = {} THEN 255
               ELSE IF \E b \in bytes : bytes = {b} THEN CHOOSE b \in bytes : TRUE
               ELSE Mixed
  BY DEF Driven
<1>2. \A b \in bytes : b \in Int
  OBVIOUS
<1>3. bytes # {} => (CHOOSE b \in bytes : TRUE) \in bytes
  OBVIOUS
<1> QED
  BY <1>1, <1>2, <1>3 DEF Mixed

LEMMA BusReadMaster ==
    ASSUME MasterInv, BusRead, \A s \in linked : slave[s].twdr \in Int
    PROVE  /\ MasterInv' /\ ~Sending /\ ~Sending' /\ ~Asked /\ ~Asked' /\ phase = "read"
           /\ Fetching /\ Fetching' /\ ~Opening /\ ~Opening'
           /\ master.pc = "wait" /\ UNCHANGED phase
           /\ master'.pc = master.pc /\ master'.cmd = master.cmd
           /\ master'.rx = master.rx /\ master'.rxi = master.rxi /\ master'.twdr = Driven
           /\ Fetched = master.rxi
           /\ \/ /\ master.order = "ack" /\ master'.twint = "MR_DATA_ACK"
                 /\ linked' = linked /\ Fetched' = Fetched + 1
                 /\ Fetched' < Len(master.rx)
              \/ /\ master.order = "nak" /\ master'.twint = "MR_DATA_NACK"
                 /\ linked' = {} /\ master.rxi = Len(master.rx) - 1
<1>1. /\ phase = "read" /\ UNCHANGED phase
      /\ \/ /\ master.order = "ack" /\ linked' = linked
            /\ master' = [Done("MR_DATA_ACK") EXCEPT !.twdr = Driven]
         \/ /\ master.order = "nak" /\ linked' = {}
            /\ master' = [Done("MR_DATA_NACK") EXCEPT !.twdr = Driven]
  BY DEF BusRead
<1>2. PICK status : /\ master' = [Done(status) EXCEPT !.twdr = Driven]
                    /\ \/ /\ master.order = "ack" /\ status = "MR_DATA_ACK"
                          /\ linked' = linked
                       \/ /\ master.order = "nak" /\ status = "MR_DATA_NACK"
                          /\ linked' = {}
  BY <1>1
<1>3. /\ DOMAIN master' = MasterFields
      /\ master'.pc = master.pc /\ master'.cmd = master.cmd
      /\ master'.mode = master.mode
      /\ master'.tx = master.tx /\ master'.txi = master.txi
      /\ master'.rx = master.rx /\ master'.rxi = master.rxi
      /\ master'.order = Nothing /\ master'.twint = status
      /\ master'.twdr = Driven
  <2>1. DOMAIN master = MasterFields
    BY DEF MasterInv, MasterTypes
  <2>2. DOMAIN Done(status) = MasterFields
    BY <2>1, DoneFacts
  <2> QED
    BY <1>2, <2>1, <2>2, DoneFacts DEF MasterFields
<1>4. Driven \in Int
  BY DrivenType
<1>5. /\ master.twint = Nothing /\ Fetching /\ master.pc = "wait"
      /\ master.order = "ack" => master.rxi < Len(master.rx) - 1
      /\ master.order = "nak" => master.rxi = Len(master.rx) - 1
  BY <1>2, NothingAssumption
     DEF MasterInv, MasterTypes, FetchingInv, Fetching, Orders, MasterStatuses
<1>6. MasterTypes'
  BY <1>2, <1>3, <1>4, <1>5, NothingAssumption
     DEF MasterInv, MasterTypes, Orders, MasterStatuses
<1>7. /\ ~Opening /\ ~Opening' /\ ~Sending /\ ~Sending' /\ Fetching' /\ ~Asked /\ ~Asked'
  BY <1>1, <1>2, <1>3, <1>5, NothingAssumption
     DEF Opening, Sending, Fetching, Asked, Orders, MasterStatuses
<1>8. OpeningInv' /\ SendingInv'
  BY <1>7 DEF OpeningInv, SendingInv
<1>9. FetchingInv'
  BY <1>1, <1>2, <1>3, <1>5, NothingAssumption DEF FetchingInv, Orders, MasterStatuses
<1>10. PhaseInv'
  BY <1>1, <1>2, <1>3, <1>7, NothingAssumption
     DEF MasterInv, PhaseInv, Orders, MasterStatuses
<1>11. /\ Fetched = master.rxi
       /\ master.order = "ack" => Fetched' = Fetched + 1 /\ Fetched' < Len(master.rx)
  BY <1>2, <1>3, <1>5, NothingAssumption
     DEF Fetched, MasterInv, MasterTypes, Orders, MasterStatuses
<1> QED
  BY <1>1, <1>2, <1>3, <1>5, <1>6, <1>7, <1>8, <1>9, <1>10, <1>11 DEF MasterInv

LEMMA NewMasterFacts ==
    ASSUME master = NewMaster, linked \subseteq Slave, phase \in {"free", "write", "read"},
           linked # {} => phase = "write"
    PROVE  MasterInv /\ ~Opening /\ ~Sending /\ ~Fetching /\ ~Asked
<1>1. /\ DOMAIN master = MasterFields /\ master.pc = "idle" /\ master.mode = "READY"
      /\ master.tx = <<>> /\ master.txi = 0 /\ master.rx = <<>> /\ master.rxi = 0
      /\ master.order = Nothing /\ master.twint = Nothing /\ master.twdr = 0
  BY DEF NewMaster, MasterFields
<1>2. ~Opening /\ ~Sending /\ ~Fetching /\ ~Asked
  BY <1>1, NothingAssumption
     DEF Opening, Sending, Fetching, Asked, Orders, MasterStatuses
<1>3. MasterTypes
  BY <1>1, NothingAssumption DEF MasterTypes, Orders, MasterStatuses
<1>4. PhaseInv
  BY <1>1, NothingAssumption DEF PhaseInv, Orders, MasterStatuses
<1> QED
  BY <1>2, <1>3, <1>4 DEF MasterInv, OpeningInv, SendingInv, FetchingInv

LEMMA ResetMasterFacts ==
    ASSUME master' = NewMaster, linked' \subseteq Slave,
           phase' \in {"free", "write", "read"},
           linked' # {} => phase' = "write"
    PROVE  /\ MasterInv' /\ ~Opening' /\ ~Sending' /\ ~Fetching' /\ ~Asked'
           /\ master'.pc = "idle"
<1>1. /\ DOMAIN master' = MasterFields /\ master'.pc = "idle" /\ master'.mode = "READY"
      /\ master'.tx = <<>> /\ master'.txi = 0 /\ master'.rx = <<>> /\ master'.rxi = 0
      /\ master'.order = Nothing /\ master'.twint = Nothing /\ master'.twdr = 0
  BY DEF NewMaster, MasterFields
<1>2. ~Opening' /\ ~Sending' /\ ~Fetching' /\ ~Asked'
  BY <1>1, NothingAssumption
     DEF Opening, Sending, Fetching, Asked, Orders, MasterStatuses
<1>3. MasterTypes'
  BY <1>1, NothingAssumption DEF MasterTypes, Orders, MasterStatuses
<1>4. PhaseInv'
  BY <1>1, NothingAssumption DEF PhaseInv, Orders, MasterStatuses
<1> QED
  BY <1>1, <1>2, <1>3, <1>4 DEF MasterInv, OpeningInv, SendingInv, FetchingInv

-----------------------------------------------------------------------------
(* The slaves' part of the invariant *)

\* Types; the handler is on exactly while the driver is not ready, and only a slave that
\* is changing its address has another one in its EEPROM.
SlaveTypes(v) ==
    /\ DOMAIN v = Fields
    /\ v.pc \in {"recv", "wait", "respond", "init"}
    /\ v.mode \in {"READY", "INITIALIZING", "TRANSMITTING", "RECEIVING"}
    /\ v.twint \in SlaveStatuses \cup {Nothing}
    /\ v.armed \in BOOLEAN /\ (v.armed <=> v.mode # "READY")
    /\ v.twar \in 1 .. 126 /\ v.eeprom \in 1 .. 126
    /\ IF v.pc = "init" THEN v.new_addr = v.eeprom ELSE v.twar = v.eeprom
    /\ v.rx \in [0 .. COMMAND_MAX_SIZE - 1 -> Int] /\ v.rxi \in 0 .. 5
    /\ v.tx \in [0 .. TW_TX_MAX_LEN - 1 -> Int] /\ v.txi \in 0 .. 2
    /\ v.twdr \in Int
    /\ v.response \in Seq(Int) /\ Len(v.response) \in 0 .. 2

\* With the byte that has been raised but not yet stored.
Received(v) == IF v.twint = "SR_DATA_ACK" THEN v.rxi + 1 ELSE v.rxi

\* Slave s takes part in the transfer of a command, of an answer.
Written(s) == s \in linked /\ phase = "write"
Read(s) == s \in linked /\ phase = "read"

\* An answer is prepared and has not been asked for.
Waiting(s) == /\ slave[s].pc = "recv" /\ slave[s].armed /\ slave[s].twint = Nothing
              /\ s \notin linked

\* Which statuses a slave can have in which state of the bus.
LinkInv(s) == LET v == slave[s] IN
    /\ s \in linked => v.armed
    /\ v.twint \in {"SR_SLA_ACK", "SR_GCALL_ACK", "SR_DATA_ACK"} => Written(s)
    /\ v.twint \in {"ST_SLA_ACK", "ST_DATA_ACK"} => Read(s)
    /\ v.twint \in {"SR_STOP", "ST_DATA_NACK"} => s \notin linked
    /\ ~v.armed => v.twint \in {"SR_STOP", "ST_DATA_NACK", Nothing}
    /\ ~v.armed /\ v.twint = Nothing => v.pc = "recv" /\ v.txi = 0
    /\ v.pc \in {"respond", "init"} => ~v.armed /\ v.twint = "SR_STOP"

\* What a slave may owe: _op_ping() does not send the ids that would be folded.
Sendable == {Folded(c) : c \in {r \in Request : r.op = "ping" => r.to \in 1 .. 127}}

\* A command is owed from its address to the end of its execution; it is the one being
\* sent, and whoever owes it without waiting for it may lose it.
OwedInv(s) == LET v == slave[s] IN
    /\ Written(s) => owed[s] # Nothing
    /\ owed[s] # Nothing =>
           /\ owed[s] \in Sendable
           /\ v.pc \in {"recv", "wait"}
           /\ Written(s) \/ v.twint = "SR_STOP"
           /\ v.pc = "recv" => credit[s] /\ v.txi = 0
           /\ Asked \/ (Written(s) /\ Sending) => owed[s] = Folded(master.cmd)
           /\ Question(owed[s]) => credit[s] \/ Asks(s)
           /\ master.pc = "wait" => Asked

\* A slave that waits for a command holds what has been sent of it; the bytes of a
\* command that runs over an answer go where the last command ended.
RxInv(s) == LET v == slave[s] IN
    /\ v.pc = "wait" /\ owed[s] = Nothing => v.rxi = 0
    /\ v.pc = "wait" /\ owed[s] # Nothing =>
           /\ Received(v) <= Len(Body(owed[s]))
           /\ \A i \in 1 .. v.rxi : v.rx[i - 1] = Body(owed[s])[i]
           /\ v.twint = "SR_DATA_ACK" => v.twdr = Body(owed[s])[v.rxi + 1]
           /\ IF Written(s) /\ Sending
              THEN Received(v) = Sent
              ELSE Received(v) = Len(Body(owed[s])) \/ (credit[s] /\ ~Asked)
    /\ v.pc = "recv" /\ owed[s] # Nothing =>
           Received(v) <= IF Written(s) /\ Sending THEN 2 + Sent ELSE 5
    /\ v.pc = "respond" \/ (v.pc = "recv" /\ v.armed /\ owed[s] = Nothing) => v.rxi <= 2

\* An answer is given from its first byte, and is asked for or may be lost.
TxInv(s) == LET v == slave[s] IN
    /\ Read(s) => /\ owed[s] = Nothing
                  /\ v.txi = IF v.twint = Nothing THEN Fetched + 1 ELSE Fetched
    /\ Waiting(s) => v.txi = 0
    /\ Waiting(s) \/ v.pc = "respond" => credit[s] \/ Asks(s)
    /\ v.pc = "init" => ~Asked /\ master.pc # "wait"
    /\ Asks(s) => v.txi = 0 \/ v.pc = "respond" \/ (v.pc = "wait" /\ owed[s] # Nothing)

SlaveInv(s) == SlaveTypes(slave[s]) /\ LinkInv(s) /\ OwedInv(s) /\ RxInv(s) /\ TxInv(s)

BusInv ==
    /\ MasterInv
    /\ DOMAIN slave = Slave /\ DOMAIN owed = Slave /\ DOMAIN credit = Slave
    /\ credit \in [Slave -> BOOLEAN]
    /\ \A s \in Slave : SlaveInv(s)

\* What slave s can see of a step is the same before and after it.
SameFor(s) ==
    /\ slave'[s] = slave[s] /\ owed'[s] = owed[s] /\ credit'[s] = credit[s]
    /\ s \in linked' <=> s \in linked
    /\ s \in linked => phase' = phase
    /\ Written(s) => (Sending' <=> Sending) /\ (Sending => Sent' = Sent)
    /\ (Written(s) /\ Sending) \/ Asked => master'.cmd = master.cmd
    /\ Asked' <=> Asked
    /\ Read(s) => Fetched' = Fetched
    /\ master'.pc = "wait" => master.pc = "wait" \/ Asked

LEMMA Undisturbed ==
    ASSUME NEW s \in Slave, SlaveInv(s), SameFor(s) PROVE SlaveInv(s)'
<1>1. SlaveTypes(slave[s])'
  BY DEF SlaveInv, SameFor, SlaveTypes
<1>2. /\ Written(s)' <=> Written(s)
      /\ Read(s)' <=> Read(s)
      /\ Waiting(s)' <=> Waiting(s)
      /\ Asks(s)' <=> Asks(s)
  BY DEF SameFor, Written, Read, Waiting, Asks
<1>3. LinkInv(s)'
  BY <1>2 DEF SlaveInv, SameFor, LinkInv
<1>4. OwedInv(s)'
  BY <1>2 DEF SlaveInv, SameFor, OwedInv
<1>5. RxInv(s)'
  BY <1>2 DEF SlaveInv, SameFor, RxInv, Received
<1>6. TxInv(s)'
  BY <1>2 DEF SlaveInv, SameFor, TxInv
<1> QED
  BY <1>1, <1>3, <1>4, <1>5, <1>6 DEF SlaveInv

LEMMA SameForAll ==
    ASSUME SameView, UNCHANGED <<slave, owed, credit>>, NEW s PROVE SameFor(s)
BY DEF SameView, SameFor, Read

LEMMA SentRange ==
    ASSUME MasterInv, Sending
    PROVE  Sent \in 0 .. Len(Body(master.cmd)) /\ Sent \in 0 .. 3
<1>1. PICK n \in 1 .. 3 : Len(Body(master.cmd)) = n
  BY BodyType DEF MasterInv, SendingInv, CommandOut
<1>2. Len(master.tx) = n + 1
  <2>1. master.cmd \in Request /\ master.cmd.to \in 0 .. 255
    BY RequestTypes, SMTT(40) DEF MasterInv, SendingInv, CommandOut
  <2>2. twi_addr_write(master.cmd.to) \in Int
    BY <2>1, AddressFacts
  <2> QED
    BY <1>1, <2>1, <2>2, FrameFacts DEF MasterInv, SendingInv, CommandOut
<1>3. PICK t \in 1 .. n + 1 : master.txi = t /\ (master.order = "send" => t >= 2)
  BY <1>2 DEF MasterInv, MasterTypes, SendingInv
<1> QED
  BY <1>1, <1>3 DEF Sent

LEMMA FetchedRange ==
    ASSUME MasterInv, linked # {}, phase = "read"
    PROVE  /\ Fetched \in 0 .. 1 /\ Fetching
           /\ master.twint # "MR_DATA_NACK" /\ ~Sending
<1>1. Fetching /\ master.twint # "MR_DATA_NACK"
  BY DEF MasterInv, PhaseInv
<1>2. PICK size \in 1 .. 2 : Len(master.rx) = size
  <2>1. AnswerSize(master.cmd) \in 1 .. 2
    BY DEF AnswerSize
  <2>2. Len(master.rx) = AnswerSize(master.cmd)
    BY <1>1 DEF MasterInv, MasterTypes, FetchingInv
  <2> QED
    BY <2>1, <2>2
<1> QED
  BY <1>1, <1>2, NothingAssumption
     DEF MasterInv, MasterTypes, FetchingInv, Fetching, Fetched, Sending,
         Orders, MasterStatuses

LEMMA OwedFacts ==
    ASSUME NEW s \in Slave, OwedInv(s), owed[s] # Nothing
    PROVE  /\ owed[s].op \in {"get", "set", "apply", "ping", "addr"}
           /\ owed[s].arg \in Int
           /\ Body(owed[s]) \in Seq(Int) /\ Len(Body(owed[s])) \in 1 .. 3
<1> PICK c \in Request : owed[s] = Folded(c) /\ (c.op = "ping" => c.to \in 1 .. 127)
  BY DEF OwedInv, Sendable
<1>1. Body(owed[s]) = Body(c)
  BY BodyFolded
<1> QED
  BY <1>1, RequestFacts, BodyType

LEMMA SameMaster ==
    ASSUME UNCHANGED <<master, phase>>
    PROVE  /\ Opening' <=> Opening
           /\ Sending' <=> Sending
           /\ Fetching' <=> Fetching
           /\ Asked' <=> Asked
           /\ Sent' = Sent /\ Fetched' = Fetched
BY DEF Opening, Sending, Fetching, Asked, Sent, Fetched

\* A step of one slave leaves the others alone.
LEMMA OthersSame ==
    ASSUME DOMAIN slave = Slave, NEW s \in Slave, NEW t \in Slave \ {s}, NEW w,
           slave' = [slave EXCEPT ![s] = w], UNCHANGED <<master, phase>>,
           linked' = linked \/ linked' = linked \ {s},
           owed'[t] = owed[t], credit'[t] = credit[t]
    PROVE  SameFor(t)
BY SameMaster DEF SameFor

\* A step of one slave: what is still to be shown of it.
LEMMA OneSlaveStep ==
    ASSUME BusInv, NEW s \in Slave, NEW w,
           slave' = [slave EXCEPT ![s] = w], UNCHANGED <<master, phase>>,
           linked' = linked \/ linked' = linked \ {s},
           credit' \in [Slave -> BOOLEAN], DOMAIN owed' = Slave,
           \A t \in Slave \ {s} : owed'[t] = owed[t] /\ credit'[t] = credit[t],
           SlaveInv(s)'
    PROVE  BusInv'
<1>1. ASSUME NEW t \in Slave \ {s} PROVE SlaveInv(t)'
  <2>1. SameFor(t)
    BY OthersSame DEF BusInv
  <2> QED
    BY <2>1, Undisturbed DEF BusInv
<1>2. MasterInv'
  <2>1. PhaseInv'
    BY DEF BusInv, MasterInv, PhaseInv, Fetching
  <2> QED
    BY <2>1, SameMaster
       DEF BusInv, MasterInv, MasterTypes, OpeningInv, SendingInv, FetchingInv, CommandOut
<1>3. DOMAIN slave' = Slave
  BY DEF BusInv
<1> QED
  BY <1>1, <1>2, <1>3 DEF BusInv

-----------------------------------------------------------------------------
(* A slave's handler *)

LEMMA IsrAddressedStep ==
    ASSUME BusInv, NEW s \in Slave, UNCHANGED <<master, phase, linked, owed, credit>>,
           slave[s].twint \in {"SR_SLA_ACK", "SR_GCALL_ACK"},
           slave' = [slave EXCEPT ![s] = IsrAddressed(slave[s])]
    PROVE  SlaveInv(s)'
<1> DEFINE v == slave[s]
           w == slave'[s]
<1>1. SlaveInv(s) /\ DOMAIN slave = Slave /\ DOMAIN v = Fields
  BY DEF BusInv, SlaveInv, SlaveTypes
<1>2. /\ DOMAIN w = Fields
      /\ w.pc = v.pc /\ w.mode = "RECEIVING" /\ w.new_addr = v.new_addr
      /\ w.rx = v.rx /\ w.rxi = v.rxi /\ w.tx = v.tx /\ w.txi = v.txi
      /\ w.armed = TRUE /\ w.twint = Nothing /\ w.twdr = v.twdr
      /\ w.twar = v.twar /\ w.eeprom = v.eeprom /\ w.response = v.response
  BY <1>1 DEF IsrAddressed, twi_ack, Fields
<1>3. Written(s) /\ v.pc \in {"recv", "wait"} /\ v.twint # Nothing /\ owed[s] # Nothing
  BY <1>1, NothingAssumption
     DEF SlaveInv, LinkInv, OwedInv, SlaveStatuses
<1>4. /\ Written(s)' /\ ~Read(s)' /\ ~Waiting(s)' /\ (Asks(s)' <=> Asks(s))
  BY <1>2, <1>3, SameMaster DEF Written, Read, Waiting, Asks
<1>5. SlaveTypes(slave[s])'
  BY <1>1, <1>2, <1>3 DEF SlaveInv, SlaveTypes
<1>6. LinkInv(s)'
  BY <1>2, <1>3, NothingAssumption DEF LinkInv, SlaveStatuses
<1>7. OwedInv(s)'
  BY <1>1, <1>2, <1>3, <1>4, SameMaster DEF SlaveInv, OwedInv
<1>8. RxInv(s)'
  <2>1. Received(v) = v.rxi /\ Received(w) = w.rxi
    BY <1>2, NothingAssumption DEF Received, SlaveStatuses
  <2> QED
    BY <1>1, <1>2, <1>3, <1>4, <2>1, SameMaster, NothingAssumption
       DEF SlaveInv, RxInv, SlaveStatuses
<1>9. TxInv(s)'
  BY <1>1, <1>2, <1>3, <1>4, SameMaster DEF SlaveInv, TxInv
<1> QED
  BY <1>5, <1>6, <1>7, <1>8, <1>9 DEF SlaveInv

LEMMA StoreType ==
    ASSUME NEW S, NEW T, NEW f \in [S -> T], NEW i, NEW x \in T
    PROVE  [f EXCEPT ![i] = x] \in [S -> T]
OBVIOUS

LEMMA IsrStoreStep ==
    ASSUME BusInv, NEW s \in Slave, UNCHANGED <<master, phase, linked, owed, credit>>,
           slave[s].twint = "SR_DATA_ACK",
           slave' = [slave EXCEPT ![s] = IsrStore(slave[s])]
    PROVE  SlaveInv(s)'
<1> DEFINE v == slave[s]
           w == slave'[s]
<1>1. SlaveInv(s) /\ DOMAIN slave = Slave /\ DOMAIN v = Fields /\ v.rxi \in 0 .. 5
  BY DEF BusInv, SlaveInv, SlaveTypes
<1>2. /\ DOMAIN w = Fields
      /\ w.pc = v.pc /\ w.mode = v.mode /\ w.new_addr = v.new_addr
      /\ w.rx = [v.rx EXCEPT ![v.rxi] = v.twdr] /\ w.rxi = v.rxi + 1
      /\ w.tx = v.tx /\ w.txi = v.txi
      /\ w.armed = TRUE /\ w.twint = Nothing /\ w.twdr = v.twdr
      /\ w.twar = v.twar /\ w.eeprom = v.eeprom /\ w.response = v.response
  BY <1>1 DEF IsrStore, twi_ack, Fields
<1>3. /\ Written(s) /\ v.pc \in {"recv", "wait"} /\ v.twint # Nothing /\ owed[s] # Nothing
      /\ v.armed
  BY <1>1, NothingAssumption
     DEF SlaveInv, LinkInv, OwedInv, SlaveStatuses, Written
<1>4. /\ Written(s)' /\ ~Read(s)' /\ ~Waiting(s)' /\ (Asks(s)' <=> Asks(s))
  BY <1>2, <1>3, SameMaster DEF Written, Read, Waiting, Asks
<1>5. Received(v) = v.rxi + 1 /\ Received(w) = v.rxi + 1
  BY <1>2, NothingAssumption DEF Received, SlaveStatuses
<1>6. PICK n \in 1 .. 3 : Len(Body(owed[s])) = n
  BY <1>1, <1>3, OwedFacts DEF SlaveInv
<1>7. v.rxi + 1 \in 0 .. 5
  <2>1. CASE v.pc = "wait"
    <3>1. v.rxi + 1 <= n
      BY <1>1, <1>3, <1>5, <1>6, <2>1 DEF SlaveInv, RxInv
    <3> QED
      BY <1>1, <3>1
  <2>2. CASE v.pc = "recv"
    <3>1. v.rxi + 1 <= IF Written(s) /\ Sending THEN 2 + Sent ELSE 5
      BY <1>1, <1>3, <1>5, <2>2 DEF SlaveInv, RxInv
    <3>2. Sending => Sent \in 0 .. 3
      BY SentRange DEF BusInv
    <3> QED
      BY <1>1, <3>1, <3>2
  <2> QED
    BY <1>3, <2>1, <2>2
<1>8. SlaveTypes(slave[s])'
  <2>1. w.rx \in [0 .. COMMAND_MAX_SIZE - 1 -> Int]
    <3>1. v.rx \in [0 .. COMMAND_MAX_SIZE - 1 -> Int] /\ v.twdr \in Int
      BY <1>1 DEF SlaveInv, SlaveTypes
    <3>2. [v.rx EXCEPT ![v.rxi] = v.twdr] \in [0 .. COMMAND_MAX_SIZE - 1 -> Int]
      BY <3>1, StoreType
    <3> QED
      BY <1>2, <3>2
  <2>2. w.rxi \in 0 .. 5 /\ v.mode # "READY"
    BY <1>1, <1>2, <1>3, <1>7 DEF SlaveInv, SlaveTypes
  <2> QED
    BY <1>1, <1>2, <2>1, <2>2, ZenonT(40) DEF SlaveInv, SlaveTypes
<1>9. LinkInv(s)'
  BY <1>2, <1>3, NothingAssumption DEF LinkInv, SlaveStatuses
<1>10. OwedInv(s)'
  BY <1>1, <1>2, <1>3, <1>4, SameMaster DEF SlaveInv, OwedInv
<1>11. RxInv(s)'
  <2>1. CASE v.pc = "wait"
    <3>1. v.rxi + 1 <= n
      BY <1>1, <1>3, <1>5, <1>6, <2>1 DEF SlaveInv, RxInv
    <3>2. v.rxi \in 0 .. COMMAND_MAX_SIZE - 1
      BY <1>1, <1>6, <3>1, SizeAssumption
    <3>3. \A i \in 1 .. v.rxi + 1 : w.rx[i - 1] = Body(owed[s])[i]
      <4>1. \A i \in 1 .. v.rxi : v.rx[i - 1] = Body(owed[s])[i]
        BY <1>1, <1>3, <2>1 DEF SlaveInv, RxInv
      <4>2. v.twdr = Body(owed[s])[v.rxi + 1]
        BY <1>1, <1>3, <2>1 DEF SlaveInv, RxInv
      <4>3. \A j \in 0 .. COMMAND_MAX_SIZE - 1 :
                w.rx[j] = IF j = v.rxi THEN v.twdr ELSE v.rx[j]
        BY <1>1, <1>2 DEF SlaveInv, SlaveTypes
      <4> SUFFICES ASSUME NEW i \in 1 .. v.rxi + 1
                   PROVE  w.rx[i - 1] = Body(owed[s])[i]
        OBVIOUS
      <4>4. i - 1 \in 0 .. COMMAND_MAX_SIZE - 1
        BY <1>1, <3>2, SizeAssumption
      <4>5. CASE i = v.rxi + 1
        <5>1. i - 1 = v.rxi
          BY <1>1, <4>5
        <5> QED
          BY <4>2, <4>3, <4>4, <4>5, <5>1
      <4>6. CASE i # v.rxi + 1
        <5>1. i \in 1 .. v.rxi /\ i - 1 # v.rxi
          BY <1>1, <4>6
        <5> QED
          BY <4>1, <4>3, <4>4, <5>1
      <4> QED
        BY <4>5, <4>6
    <3> QED
      BY <1>1, <1>2, <1>3, <1>4, <1>5, <2>1, <3>3, SameMaster, NothingAssumption
         DEF SlaveInv, RxInv, SlaveStatuses
  <2>2. CASE v.pc = "recv"
    BY <1>1, <1>2, <1>3, <1>4, <1>5, <2>2, SameMaster DEF SlaveInv, RxInv
  <2> QED
    BY <1>3, <2>1, <2>2
<1>12. TxInv(s)'
  BY <1>1, <1>2, <1>3, <1>4, SameMaster DEF SlaveInv, TxInv
<1> QED
  BY <1>8, <1>9, <1>10, <1>11, <1>12 DEF SlaveInv

LEMMA IsrTransmitStep ==
    ASSUME BusInv, NEW s \in Slave, UNCHANGED <<master, phase, linked, owed, credit>>,
           slave[s].twint \in {"ST_SLA_ACK", "ST_DATA_ACK"},
           slave' = [slave EXCEPT ![s] = IsrTransmit(slave[s])]
    PROVE  SlaveInv(s)'
<1> DEFINE v == slave[s]
           w == slave'[s]
<1>1. SlaveInv(s) /\ DOMAIN slave = Slave /\ DOMAIN v = Fields
  BY DEF BusInv, SlaveInv, SlaveTypes
<1>2. /\ DOMAIN w = Fields /\ w.pc = v.pc
      /\ w.mode = (IF v.twint = "ST_SLA_ACK" THEN "TRANSMITTING" ELSE v.mode)
      /\ w.new_addr = v.new_addr
      /\ w.rx = v.rx /\ w.rxi = v.rxi /\ w.tx = v.tx /\ w.txi = v.txi + 1
      /\ w.armed = TRUE /\ w.twint = Nothing /\ w.twdr = v.tx[v.txi]
      /\ w.twar = v.twar /\ w.eeprom = v.eeprom /\ w.response = v.response
  BY <1>1 DEF IsrTransmit, twi_ack, Fields
<1>3. /\ Read(s) /\ v.pc \in {"recv", "wait"} /\ v.twint # Nothing /\ owed[s] = Nothing
      /\ v.armed /\ v.txi = Fetched /\ ~Written(s)
  <2>1. Read(s) /\ v.twint # Nothing
    BY <1>1, NothingAssumption DEF SlaveInv, LinkInv, SlaveStatuses
  <2>2. v.armed /\ ~Written(s)
    BY <1>1, <2>1 DEF SlaveInv, LinkInv, Read, Written
  <2>3. v.pc \in {"recv", "wait"}
    BY <1>1, <2>2 DEF SlaveInv, SlaveTypes, LinkInv
  <2>4. owed[s] = Nothing /\ v.txi = Fetched
    BY <1>1, <2>1 DEF SlaveInv, TxInv
  <2> QED
    BY <2>1, <2>2, <2>3, <2>4
<1>4. Fetched \in 0 .. 1
  BY <1>3, FetchedRange DEF BusInv, Read
<1>5. Read(s)' /\ ~Written(s)' /\ ~Waiting(s)' /\ (Asks(s)' <=> Asks(s)) /\ ~Asked
  <2>1. ~Asked
    BY <1>3, FetchedRange, NothingAssumption
       DEF BusInv, MasterInv, MasterTypes, FetchingInv, Fetching, Asked, Opening, Read,
           Orders, MasterStatuses
  <2> QED
    BY <1>2, <1>3, <2>1, SameMaster DEF Written, Read, Waiting, Asks
<1>6. v.txi \in 0 .. TW_TX_MAX_LEN - 1
  BY <1>3, <1>4, SizeAssumption
<1>7. SlaveTypes(slave[s])'
  <2>1. w.twdr \in Int
    <3>1. v.tx \in [0 .. TW_TX_MAX_LEN - 1 -> Int]
      BY <1>1 DEF SlaveInv, SlaveTypes
    <3> QED
      BY <1>2, <1>6, <3>1
  <2>2. w.txi \in 0 .. 2
    BY <1>2, <1>3, <1>4
  <2>3. w.mode # "READY"
    BY <1>1, <1>2, <1>3 DEF SlaveInv, SlaveTypes
  <2> QED
    BY <1>1, <1>2, <2>1, <2>2, <2>3, ZenonT(40) DEF SlaveInv, SlaveTypes
<1>8. LinkInv(s)'
  BY <1>2, <1>3, NothingAssumption DEF LinkInv, SlaveStatuses
<1>9. OwedInv(s)'
  BY <1>3, <1>5 DEF OwedInv
<1>10. RxInv(s)'
  BY <1>1, <1>2, <1>3, <1>5 DEF SlaveInv, RxInv
<1>11. TxInv(s)'
  BY <1>1, <1>2, <1>3, <1>4, <1>5, SameMaster DEF SlaveInv, TxInv, Asks
<1> QED
  BY <1>7, <1>8, <1>9, <1>10, <1>11 DEF SlaveInv

LEMMA IsrEndStep ==
    ASSUME BusInv, NEW s \in Slave, UNCHANGED <<master, phase, linked, owed, credit>>,
           slave[s].twint \in {"SR_STOP", "ST_DATA_NACK"}, slave[s].armed,
           slave' = [slave EXCEPT ![s] = IsrEnd(slave[s])]
    PROVE  SlaveInv(s)'
<1> DEFINE v == slave[s]
           w == slave'[s]
<1>1. SlaveInv(s) /\ DOMAIN slave = Slave /\ DOMAIN v = Fields
  BY DEF BusInv, SlaveInv, SlaveTypes
<1>2. /\ DOMAIN w = Fields /\ w.pc = v.pc /\ w.mode = "READY"
      /\ w.new_addr = v.new_addr
      /\ w.rx = v.rx /\ w.rxi = v.rxi /\ w.tx = v.tx /\ w.txi = v.txi
      /\ w.armed = FALSE /\ w.twint = v.twint /\ w.twdr = v.twdr
      /\ w.twar = v.twar /\ w.eeprom = v.eeprom /\ w.response = v.response
  BY <1>1 DEF IsrEnd, twi_enable, Fields
<1>3. /\ s \notin linked /\ v.pc \in {"recv", "wait"} /\ v.twint # Nothing
  BY <1>1, NothingAssumption DEF SlaveInv, SlaveTypes, LinkInv, SlaveStatuses
<1>4. /\ ~Written(s) /\ ~Written(s)' /\ ~Read(s)' /\ ~Waiting(s)'
      /\ (Asks(s)' <=> Asks(s))
  BY <1>2, <1>3, SameMaster DEF Written, Read, Waiting, Asks
<1>5. SlaveTypes(slave[s])'
  BY <1>1, <1>2, ZenonT(40) DEF SlaveInv, SlaveTypes
<1>6. LinkInv(s)'
  BY <1>2, <1>3, NothingAssumption DEF LinkInv, SlaveStatuses
<1>7. OwedInv(s)'
  BY <1>1, <1>2, <1>4, SameMaster DEF SlaveInv, OwedInv
<1>8. RxInv(s)'
  BY <1>1, <1>2, <1>3, <1>4, SameMaster DEF SlaveInv, RxInv, Received
<1>9. TxInv(s)'
  BY <1>1, <1>2, <1>3, <1>4, SameMaster DEF SlaveInv, TxInv
<1> QED
  BY <1>5, <1>6, <1>7, <1>8, <1>9 DEF SlaveInv

LEMMA SlaveIsrStep == ASSUME BusInv, NEW s \in Slave, SlaveIsr(s) PROVE BusInv'
<1>1. UNCHANGED <<master, phase, linked, owed, credit>>
  BY DEF SlaveIsr, history
<1>2. \E w : slave' = [slave EXCEPT ![s] = w]
  BY DEF SlaveIsr
<1>3. SlaveInv(s)'
  BY <1>1, IsrAddressedStep, IsrStoreStep, IsrTransmitStep, IsrEndStep DEF SlaveIsr
<1> QED
  BY <1>1, <1>2, <1>3, OneSlaveStep DEF BusInv

-----------------------------------------------------------------------------
(* A slave's main loop *)

LEMMA ReadySlave ==
    ASSUME NEW s \in Slave, SlaveInv(s), ~slave[s].armed
    PROVE  /\ slave[s].twint \in {"SR_STOP", "ST_DATA_NACK", Nothing}
           /\ s \notin linked /\ ~Written(s) /\ ~Read(s)
           /\ slave[s].pc # "recv" => slave[s].twint # Nothing
           /\ owed[s] # Nothing => slave[s].twint = "SR_STOP"
           /\ Received(slave[s]) = slave[s].rxi
BY NothingAssumption
   DEF SlaveInv, LinkInv, OwedInv, Written, Read, Received, SlaveStatuses

LEMMA ReadyMeansOff ==
    ASSUME NEW s \in Slave, SlaveInv(s), SlaveReady(s) PROVE ~slave[s].armed
BY DEF SlaveInv, SlaveTypes, SlaveReady

\* The first byte tells the commands apart.
LEMMA BodyBytes ==
    ASSUME NEW c, c.op \in {"get", "set", "apply", "ping", "addr"}
    PROVE  /\ c.op = "get"   => Len(Body(c)) = 1 /\ Body(c)[1] = 0
           /\ c.op = "set"   => Len(Body(c)) = 3 /\ Body(c)[1] = 1
           /\ c.op = "apply" => Len(Body(c)) = 1 /\ Body(c)[1] = 2
           /\ c.op = "ping"  => Len(Body(c)) = 2 /\ Body(c)[1] = 3
           /\ c.op = "addr"  => Len(Body(c)) = 2 /\ Body(c)[1] = 4
BY BodyIs

\* A slave with nothing to lose has the whole command in its buffer.
LEMMA WholeCommand ==
    ASSUME NEW s \in Slave, SlaveInv(s), ~slave[s].armed, slave[s].pc = "wait",
           owed[s] # Nothing, ~credit[s] \/ Asked
    PROVE  /\ slave[s].rxi = Len(Body(owed[s])) /\ slave[s].rxi \in 1 .. 3
           /\ slave[s].rx[0] = Body(owed[s])[1]
           /\ \A i \in 1 .. slave[s].rxi : slave[s].rx[i - 1] = Body(owed[s])[i]
           /\ slave[s].rx[0] \in {0, 3} <=> Question(owed[s])
<1>1. /\ slave[s].rxi = Len(Body(owed[s]))
      /\ \A i \in 1 .. slave[s].rxi : slave[s].rx[i - 1] = Body(owed[s])[i]
  BY ReadySlave DEF SlaveInv, RxInv
<1>2. PICK n \in 1 .. 3 : Len(Body(owed[s])) = n
  BY OwedFacts DEF SlaveInv
<1>3. slave[s].rx[0] = Body(owed[s])[1]
  <2>1. 1 \in 1 .. slave[s].rxi /\ 1 - 1 = 0
    BY <1>1, <1>2
  <2> QED
    BY <1>1, <2>1
<1>4. Body(owed[s])[1] \in {0, 3} <=> Question(owed[s])
  BY OwedFacts, BodyBytes DEF SlaveInv, Question
<1> QED
  BY <1>1, <1>2, <1>3, <1>4

\* A slave that is about to be asked has been sent a question.
LEMMA AskedQuestion ==
    ASSUME BusInv, NEW s \in Slave, owed[s] # Nothing, Asked
    PROVE  Question(owed[s])
<1>1. master.cmd \in Request /\ Question(master.cmd) /\ owed[s] = Folded(master.cmd)
  BY DEF BusInv, MasterInv, MasterTypes, Asked, SlaveInv, OwedInv
<1> QED
  BY <1>1, RequestFacts DEF Question

LEMMA RecvStep == ASSUME BusInv, NEW s \in Slave, Recv(s) PROVE SlaveInv(s)'
<1> DEFINE v == slave[s]
           w == slave'[s]
<1>1. /\ SlaveInv(s) /\ DOMAIN slave = Slave /\ DOMAIN v = Fields
      /\ DOMAIN owed = Slave /\ DOMAIN credit = Slave
  BY DEF BusInv, SlaveInv, SlaveTypes
<1>2. /\ DOMAIN w = Fields /\ w.pc = "wait" /\ w.mode = "INITIALIZING"
      /\ w.new_addr = v.new_addr
      /\ w.rx = v.rx /\ w.rxi = 0 /\ w.tx = v.tx /\ w.txi = v.txi
      /\ w.armed = TRUE /\ w.twint = Nothing /\ w.twdr = v.twdr
      /\ w.twar = v.twar /\ w.eeprom = v.eeprom /\ w.response = v.response
  BY <1>1 DEF Recv, twi_ack, Fields
<1>3. /\ v.pc = "recv" /\ s \notin linked /\ ~v.armed
      /\ UNCHANGED <<master, phase, linked>>
  BY <1>1, ReadyMeansOff, ReadySlave DEF Recv
<1>4. owed'[s] = Nothing
  BY <1>1 DEF Recv, Forget
<1>5. /\ ~Written(s)' /\ ~Read(s)' /\ ~Waiting(s)' /\ (Asks(s)' <=> Asks(s))
  BY <1>2, <1>3, SameMaster DEF Written, Read, Waiting, Asks
<1>6. SlaveTypes(slave[s])'
  <2>1. w.rxi \in 0 .. 5
    BY <1>2
  <2>2. w.twar = w.eeprom /\ w.twar \in 1 .. 126
    BY <1>1, <1>2, <1>3 DEF SlaveInv, SlaveTypes
  <2> QED
    BY <1>1, <1>2, <2>1, <2>2, ZenonT(40) DEF SlaveInv, SlaveTypes
<1>7. LinkInv(s)'
  BY <1>2, <1>3, NothingAssumption DEF LinkInv, SlaveStatuses
<1>8. OwedInv(s)'
  BY <1>4, <1>5 DEF OwedInv
<1>9. RxInv(s)'
  BY <1>2, <1>4 DEF RxInv
<1>10. TxInv(s)'
  BY <1>1, <1>2, <1>3, <1>5 DEF SlaveInv, TxInv
<1> QED
  BY <1>6, <1>7, <1>8, <1>9, <1>10 DEF SlaveInv

LEMMA IgnoreStep == ASSUME BusInv, NEW s \in Slave, Ignore(s) PROVE SlaveInv(s)'
<1> DEFINE v == slave[s]
           w == slave'[s]
<1>1. /\ SlaveInv(s) /\ DOMAIN slave = Slave /\ DOMAIN v = Fields
      /\ DOMAIN owed = Slave /\ DOMAIN credit = Slave
  BY DEF BusInv, SlaveInv, SlaveTypes
<1>2. /\ DOMAIN w = Fields /\ w.pc = "recv" /\ w.mode = v.mode
      /\ w.new_addr = v.new_addr
      /\ w.rx = v.rx /\ w.rxi = v.rxi /\ w.tx = v.tx /\ w.txi = v.txi
      /\ w.armed = v.armed /\ w.twint = v.twint /\ w.twdr = v.twdr
      /\ w.twar = v.twar /\ w.eeprom = v.eeprom /\ w.response = v.response
  BY <1>1 DEF Ignore, Fields
<1>3. /\ v.pc = "wait" /\ s \notin linked /\ ~v.armed /\ v.twint # Nothing
      /\ UNCHANGED <<master, phase, linked>>
  BY <1>1, ReadyMeansOff, ReadySlave DEF Ignore
<1>4. owed'[s] = Nothing
  BY <1>1 DEF Ignore, Forget
<1>5. /\ ~Written(s)' /\ ~Read(s)' /\ ~Waiting(s)' /\ (Asks(s)' <=> Asks(s))
  BY <1>2, <1>3, SameMaster DEF Written, Read, Waiting, Asks
<1>6. Asks(s) => v.txi = 0
  <2> SUFFICES ASSUME Asks(s), owed[s] # Nothing PROVE FALSE
    BY <1>1, <1>3 DEF SlaveInv, TxInv
  <2>1. Asked /\ Question(owed[s])
    BY AskedQuestion DEF Asks
  <2>2. v.rxi = Len(Body(owed[s])) /\ v.rx[0] = Body(owed[s])[1]
    BY <1>1, <1>3, <2>1, WholeCommand
  <2>3. \/ Len(Body(owed[s])) = 1 /\ Body(owed[s])[1] = 0
        \/ Len(Body(owed[s])) = 2 /\ Body(owed[s])[1] = 3
    BY <2>1, BodyBytes DEF Question
  <2>4. command_isvalid(v)
    BY <2>2, <2>3 DEF command_isvalid
  <2> QED
    BY <2>4 DEF Ignore
<1>7. SlaveTypes(slave[s])'
  BY <1>1, <1>2, <1>3 DEF SlaveInv, SlaveTypes
<1>8. LinkInv(s)'
  BY <1>1, <1>2, <1>3 DEF SlaveInv, LinkInv
<1>9. OwedInv(s)'
  BY <1>4, <1>5 DEF OwedInv
<1>10. RxInv(s)'
  BY <1>2, <1>3, <1>4 DEF RxInv
<1>11. TxInv(s)'
  BY <1>2, <1>5, <1>6 DEF TxInv
<1> QED
  BY <1>7, <1>8, <1>9, <1>10, <1>11 DEF SlaveInv

LEMMA ExecuteFacts ==
    ASSUME BusInv, NEW s \in Slave, Execute(s)
    PROVE  /\ SlaveInv(s) /\ DOMAIN slave = Slave /\ DOMAIN slave[s] = Fields
           /\ slave[s].pc = "wait" /\ ~slave[s].armed /\ slave[s].twint = "SR_STOP"
           /\ s \notin linked /\ owed[s] # Nothing /\ owed'[s] = Nothing
           /\ UNCHANGED <<master, phase, linked, credit>>
           /\ slave[s].rx[0] \in {0, 3} => credit[s] \/ Asks(s)
           /\ slave[s].rx[0] \in {0, 3} => slave[s].rxi <= 2
           /\ slave[s].rx[0] \notin {0, 3} => ~Asked /\ master.pc # "wait"
<1>1. /\ SlaveInv(s) /\ DOMAIN slave = Slave /\ DOMAIN slave[s] = Fields
      /\ DOMAIN owed = Slave
      /\ slave[s].pc = "wait" /\ ~slave[s].armed /\ owed'[s] = Nothing
      /\ UNCHANGED <<master, phase, linked, credit>>
  BY ReadyMeansOff DEF BusInv, SlaveInv, SlaveTypes, Execute
<1>2. owed[s] # Nothing
  BY <1>1 DEF Execute, command_isvalid, SlaveInv, RxInv
<1>3. slave[s].twint = "SR_STOP" /\ s \notin linked
  BY <1>1, <1>2, ReadySlave
<1>4. slave[s].rx[0] \in {0, 3} => credit[s] \/ Asks(s)
  <2> SUFFICES ASSUME slave[s].rx[0] \in {0, 3}, ~credit[s] PROVE Asks(s)
    OBVIOUS
  <2>1. Question(owed[s])
    BY <1>1, <1>2, WholeCommand
  <2> QED
    BY <1>1, <1>2, <2>1 DEF SlaveInv, OwedInv
<1>5. slave[s].rx[0] \in {0, 3} => slave[s].rxi <= 2
  BY DEF Execute, command_isvalid
<1>6. slave[s].rx[0] \notin {0, 3} => ~Asked
  <2> SUFFICES ASSUME Asked PROVE slave[s].rx[0] \in {0, 3}
    OBVIOUS
  <2>1. Question(owed[s])
    BY <1>2, AskedQuestion
  <2> QED
    BY <1>1, <1>2, <2>1, WholeCommand
<1>7. master.pc = "wait" => Asked
  BY <1>1, <1>2 DEF SlaveInv, OwedInv
<1> QED
  BY <1>1, <1>2, <1>3, <1>4, <1>5, <1>6, <1>7

LEMMA AnswerStep ==
    ASSUME BusInv, NEW s \in Slave, Execute(s), slave[s].rx[0] \in {0, 3},
           NEW bytes \in Seq(Int), Len(bytes) \in 0 .. 2, Answer(s, bytes)
    PROVE  SlaveInv(s)'
<1> DEFINE v == slave[s]
           w == slave'[s]
<1>1. /\ SlaveInv(s) /\ DOMAIN slave = Slave /\ DOMAIN v = Fields
      /\ v.pc = "wait" /\ ~v.armed /\ v.twint = "SR_STOP" /\ s \notin linked
      /\ owed'[s] = Nothing /\ UNCHANGED <<master, phase, linked, credit>>
      /\ credit[s] \/ Asks(s)
      /\ v.rxi <= 2
  BY ExecuteFacts
<1>2. /\ DOMAIN w = Fields /\ w.pc = "respond" /\ w.mode = v.mode
      /\ w.new_addr = v.new_addr
      /\ w.rx = v.rx /\ w.rxi = v.rxi /\ w.tx = v.tx /\ w.txi = v.txi
      /\ w.armed = v.armed /\ w.twint = v.twint /\ w.twdr = v.twdr
      /\ w.twar = v.twar /\ w.eeprom = v.eeprom /\ w.response = bytes
  BY <1>1 DEF Answer, Fields
<1>3. /\ ~Written(s)' /\ ~Read(s)' /\ ~Waiting(s)' /\ (Asks(s)' <=> Asks(s))
  BY <1>1, <1>2, SameMaster DEF Written, Read, Waiting, Asks
<1>4. SlaveTypes(slave[s])'
  BY <1>1, <1>2 DEF SlaveInv, SlaveTypes
<1>5. LinkInv(s)'
  BY <1>1, <1>2, NothingAssumption DEF LinkInv, SlaveStatuses
<1>6. OwedInv(s)'
  BY <1>1, <1>3 DEF OwedInv
<1>7. RxInv(s)'
  BY <1>1, <1>2 DEF RxInv
<1>8. TxInv(s)'
  BY <1>1, <1>2, <1>3 DEF TxInv
<1> QED
  BY <1>4, <1>5, <1>6, <1>7, <1>8 DEF SlaveInv

LEMMA SpeedStep ==
    ASSUME BusInv, NEW s \in Slave, Execute(s), slave[s].rx[0] \in {1, 2},
           NEW n, NEW t,
           slave' = [slave EXCEPT ![s] = [@ EXCEPT !.pc = "recv", !.next = n, !.target = t]]
    PROVE  SlaveInv(s)'
<1> DEFINE v == slave[s]
           w == slave'[s]
<1>1. /\ SlaveInv(s) /\ DOMAIN slave = Slave /\ DOMAIN v = Fields
      /\ v.pc = "wait" /\ ~v.armed /\ v.twint = "SR_STOP" /\ s \notin linked
      /\ owed'[s] = Nothing /\ UNCHANGED <<master, phase, linked, credit>>
      /\ ~Asked
  BY ExecuteFacts
<1>2. /\ DOMAIN w = Fields /\ w.pc = "recv" /\ w.mode = v.mode
      /\ w.new_addr = v.new_addr
      /\ w.rx = v.rx /\ w.rxi = v.rxi /\ w.tx = v.tx /\ w.txi = v.txi
      /\ w.armed = v.armed /\ w.twint = v.twint /\ w.twdr = v.twdr
      /\ w.twar = v.twar /\ w.eeprom = v.eeprom /\ w.response = v.response
  BY <1>1 DEF Fields
<1>3. /\ ~Written(s)' /\ ~Read(s)' /\ ~Waiting(s)' /\ ~Asks(s)'
  BY <1>1, <1>2, SameMaster DEF Written, Read, Waiting, Asks
<1>4. SlaveTypes(slave[s])'
  BY <1>1, <1>2 DEF SlaveInv, SlaveTypes
<1>5. LinkInv(s)'
  BY <1>1, <1>2, NothingAssumption DEF LinkInv, SlaveStatuses
<1>6. OwedInv(s)'
  BY <1>1, <1>3 DEF OwedInv
<1>7. RxInv(s)'
  BY <1>1, <1>2 DEF RxInv
<1>8. TxInv(s)'
  BY <1>1, <1>2, <1>3 DEF TxInv
<1> QED
  BY <1>4, <1>5, <1>6, <1>7, <1>8 DEF SlaveInv

LEMMA AddrStep ==
    ASSUME BusInv, NEW s \in Slave, Execute(s), slave[s].rx[0] = 4,
           slave' = [slave EXCEPT ![s] = [@ EXCEPT !.pc = "init",
                         !.new_addr = slave[s].rx[1], !.eeprom = slave[s].rx[1]]]
    PROVE  SlaveInv(s)'
<1> DEFINE v == slave[s]
           w == slave'[s]
<1>1. /\ SlaveInv(s) /\ DOMAIN slave = Slave /\ DOMAIN v = Fields
      /\ v.pc = "wait" /\ ~v.armed /\ v.twint = "SR_STOP" /\ s \notin linked
      /\ owed'[s] = Nothing /\ UNCHANGED <<master, phase, linked, credit>>
      /\ ~Asked /\ master.pc # "wait"
  BY ExecuteFacts
<1>2. v.rx[1] \in 1 .. 126
  BY DEF Execute, command_isvalid
<1>3. /\ DOMAIN w = Fields /\ w.pc = "init" /\ w.mode = v.mode
      /\ w.new_addr = v.rx[1]
      /\ w.rx = v.rx /\ w.rxi = v.rxi /\ w.tx = v.tx /\ w.txi = v.txi
      /\ w.armed = v.armed /\ w.twint = v.twint /\ w.twdr = v.twdr
      /\ w.twar = v.twar /\ w.eeprom = v.rx[1] /\ w.response = v.response
  BY <1>1 DEF Fields
<1>4. /\ ~Written(s)' /\ ~Read(s)' /\ ~Waiting(s)' /\ ~Asks(s)' /\ ~Asked'
  BY <1>1, <1>3, SameMaster DEF Written, Read, Waiting, Asks
<1>5. SlaveTypes(slave[s])'
  BY <1>1, <1>2, <1>3 DEF SlaveInv, SlaveTypes
<1>6. LinkInv(s)'
  BY <1>1, <1>3, NothingAssumption DEF LinkInv, SlaveStatuses
<1>7. OwedInv(s)'
  BY <1>1, <1>4 DEF OwedInv
<1>8. RxInv(s)'
  BY <1>1, <1>3 DEF RxInv
<1>9. TxInv(s)'
  BY <1>1, <1>3, <1>4 DEF TxInv
<1> QED
  BY <1>5, <1>6, <1>7, <1>8, <1>9 DEF SlaveInv

LEMMA ExecuteStep == ASSUME BusInv, NEW s \in Slave, Execute(s) PROVE SlaveInv(s)'
<1> DEFINE v == slave[s]
<1>1. /\ DOMAIN slave = Slave /\ DOMAIN v = Fields
      /\ v.rx \in [0 .. COMMAND_MAX_SIZE - 1 -> Int] /\ v.rx[1] \in Int
  BY ExecuteFacts, SizeAssumption DEF SlaveInv, SlaveTypes
<1>2. ASSUME NEW a \in Int, NEW b \in Int
      PROVE  /\ <<a>> \in Seq(Int) /\ Len(<<a>>) \in 0 .. 2
             /\ <<a, b>> \in Seq(Int) /\ Len(<<a, b>>) \in 0 .. 2
  OBVIOUS
<1>3. ASSUME v.rx[0] = 0, NEW rpm \in Sample, Answer(s, <<Low(rpm), High(rpm)>>)
      PROVE  SlaveInv(s)'
  <2>1. Low(rpm) \in Int /\ High(rpm) \in Int
    BY SampleAssumption DEF dc_rpm_t, Low, High
  <2> QED
    BY <1>2, <1>3, <2>1, AnswerStep
<1>4. ASSUME v.rx[0] = 3, Answer(s, <<v.rx[1]>>) PROVE SlaveInv(s)'
  BY <1>1, <1>2, <1>4, AnswerStep
<1>5. ASSUME NEW n, v.rx[0] = 1,
             slave' = [slave EXCEPT ![s] = [@ EXCEPT !.pc = "recv", !.next = n]]
      PROVE  SlaveInv(s)'
  <2>1. slave' = [slave EXCEPT ![s] = [@ EXCEPT !.pc = "recv", !.next = n,
                                                 !.target = v.target]]
    BY <1>1, <1>5 DEF Fields
  <2> QED
    BY <1>5, <2>1, SpeedStep
<1>6. ASSUME v.rx[0] = 2,
             slave' = [slave EXCEPT ![s] = [@ EXCEPT !.pc = "recv", !.target = v.next]]
      PROVE  SlaveInv(s)'
  <2>1. slave' = [slave EXCEPT ![s] = [@ EXCEPT !.pc = "recv", !.next = v.next,
                                                 !.target = v.next]]
    BY <1>1, <1>6 DEF Fields
  <2> QED
    BY <1>6, <2>1, SpeedStep
<1>7. Effect(s)
  BY DEF Execute
<1> QED
  BY <1>3, <1>4, <1>5, <1>6, <1>7, AddrStep DEF Effect

LEMMA RespondStep == ASSUME BusInv, NEW s \in Slave, Respond(s) PROVE SlaveInv(s)'
<1> DEFINE v == slave[s]
           w == slave'[s]
<1>1. /\ SlaveInv(s) /\ DOMAIN slave = Slave /\ DOMAIN v = Fields
      /\ v.pc = "respond" /\ UNCHANGED <<master, phase, linked, owed, credit>>
  BY DEF BusInv, SlaveInv, SlaveTypes, Respond, history
<1>2. /\ DOMAIN w = Fields /\ w.pc = "recv" /\ w.mode = "INITIALIZING"
      /\ w.new_addr = v.new_addr
      /\ w.rx = v.rx /\ w.rxi = v.rxi /\ w.tx = Filled(v) /\ w.txi = 0
      /\ w.armed = TRUE /\ w.twint = Nothing /\ w.twdr = v.twdr
      /\ w.twar = v.twar /\ w.eeprom = v.eeprom /\ w.response = <<>>
  BY <1>1 DEF Respond, twi_ack, Fields
<1>3. /\ owed[s] = Nothing /\ s \notin linked /\ v.rxi <= 2
      /\ credit[s] \/ Asks(s)
      /\ v.twar = v.eeprom
  BY <1>1 DEF SlaveInv, SlaveTypes, LinkInv, OwedInv, RxInv, TxInv
<1>4. /\ ~Written(s)' /\ ~Read(s)' /\ (Asks(s)' <=> Asks(s))
  BY <1>1, <1>2, <1>3, SameMaster DEF Written, Read, Asks
<1>5. SlaveTypes(slave[s])'
  <2>1. 0 \in 0 .. 2 /\ <<>> \in Seq(Int) /\ Len(<<>>) \in 0 .. 2
    OBVIOUS
  <2>2. Filled(v) \in [0 .. TW_TX_MAX_LEN - 1 -> Int]
    BY <1>1, SizeAssumption DEF SlaveInv, SlaveTypes, Filled
  <2> QED
    BY <1>1, <1>2, <1>3, <2>1, <2>2, ZenonT(40) DEF SlaveInv, SlaveTypes
<1>6. LinkInv(s)'
  BY <1>2, <1>3, NothingAssumption DEF LinkInv, SlaveStatuses
<1>7. OwedInv(s)'
  BY <1>1, <1>3, <1>4 DEF OwedInv
<1>8. RxInv(s)'
  BY <1>1, <1>2, <1>3 DEF RxInv
<1>9. TxInv(s)'
  BY <1>1, <1>2, <1>3, <1>4 DEF TxInv
<1> QED
  BY <1>5, <1>6, <1>7, <1>8, <1>9 DEF SlaveInv

LEMMA ReaddressStep == ASSUME BusInv, NEW s \in Slave, Readdress(s) PROVE SlaveInv(s)'
<1> DEFINE v == slave[s]
           w == slave'[s]
<1>1. /\ SlaveInv(s) /\ DOMAIN slave = Slave /\ DOMAIN v = Fields
      /\ v.pc = "init" /\ UNCHANGED <<master, phase, linked, owed, credit>>
  BY DEF BusInv, SlaveInv, SlaveTypes, Readdress, history
<1>2. /\ DOMAIN w = Fields /\ w.pc = "recv" /\ w.mode = v.mode
      /\ w.rx = v.rx /\ w.rxi = v.rxi /\ w.tx = v.tx /\ w.txi = v.txi
      /\ w.armed = FALSE /\ w.twint = v.twint /\ w.twdr = v.twdr
      /\ w.twar = v.new_addr /\ w.eeprom = v.eeprom /\ w.response = v.response
  BY <1>1 DEF Readdress, twi_enable, Fields
<1>3. /\ ~v.armed /\ v.twint = "SR_STOP" /\ s \notin linked
      /\ owed[s] = Nothing /\ ~Asked
  BY <1>1 DEF SlaveInv, LinkInv, OwedInv, TxInv
<1>4. /\ ~Written(s)' /\ ~Read(s)' /\ ~Waiting(s)' /\ ~Asks(s)'
  BY <1>1, <1>2, <1>3, SameMaster DEF Written, Read, Waiting, Asks
<1>5. SlaveTypes(slave[s])'
  BY <1>1, <1>2, <1>3, ZenonT(40) DEF SlaveInv, SlaveTypes
<1>6. LinkInv(s)'
  BY <1>1, <1>2, <1>3, NothingAssumption DEF LinkInv, SlaveStatuses
<1>7. OwedInv(s)'
  BY <1>1, <1>3, <1>4 DEF OwedInv
<1>8. RxInv(s)'
  BY <1>1, <1>2, <1>3 DEF RxInv
<1>9. TxInv(s)'
  BY <1>2, <1>4 DEF TxInv
<1> QED
  BY <1>5, <1>6, <1>7, <1>8, <1>9 DEF SlaveInv

LEMMA SlaveMainStep == ASSUME BusInv, NEW s \in Slave, SlaveMain(s) PROVE BusInv'
<1>1. UNCHANGED <<master, phase, linked>>
  BY DEF SlaveMain, Recv, Ignore, Execute, Respond, Readdress
<1>2. DOMAIN owed = Slave /\ DOMAIN credit = Slave /\ credit \in [Slave -> BOOLEAN]
  BY DEF BusInv
<1>3. /\ DOMAIN owed' = Slave /\ credit' \in [Slave -> BOOLEAN]
      /\ \A t \in Slave \ {s} : owed'[t] = owed[t] /\ credit'[t] = credit[t]
  <2>1. CASE Forget(s)
    BY <1>2, <2>1 DEF Forget
  <2>2. CASE owed' = [owed EXCEPT ![s] = Nothing] /\ UNCHANGED credit
    BY <1>2, <2>2
  <2>3. CASE UNCHANGED <<owed, credit>>
    BY <1>2, <2>3
  <2> QED
    BY <2>1, <2>2, <2>3
       DEF SlaveMain, Recv, Ignore, Execute, Respond, Readdress, history
<1>4. \E w : slave' = [slave EXCEPT ![s] = w]
  <2>1. CASE Execute(s)
    BY <2>1 DEF Execute, Effect, Answer
  <2>2. CASE Recv(s) \/ Ignore(s) \/ Respond(s) \/ Readdress(s)
    BY <2>2 DEF Recv, Ignore, Respond, Readdress
  <2> QED
    BY <2>1, <2>2 DEF SlaveMain
<1>5. SlaveInv(s)'
  BY RecvStep, IgnoreStep, ExecuteStep, RespondStep, ReaddressStep DEF SlaveMain
<1> QED
  BY <1>1, <1>3, <1>4, <1>5, OneSlaveStep

LEMMA SlaveResetStep == ASSUME BusInv, NEW s \in Slave, SlaveReset(s) PROVE BusInv'
<1> DEFINE v == slave[s]
           w == slave'[s]
<1>1. /\ SlaveInv(s) /\ DOMAIN slave = Slave /\ DOMAIN v = Fields
      /\ DOMAIN owed = Slave /\ credit \in [Slave -> BOOLEAN]
      /\ slave' = [slave EXCEPT ![s] = NewSlave(v.eeprom)]
      /\ linked' = linked \ {s} /\ UNCHANGED <<master, phase, credit>>
      /\ owed' = [owed EXCEPT ![s] = Nothing]
  BY DEF BusInv, SlaveInv, SlaveTypes, SlaveReset
<1>2. /\ DOMAIN w = Fields /\ w.pc = "recv" /\ w.mode = "READY"
      /\ w.rx = [i \in 0 .. COMMAND_MAX_SIZE - 1 |-> 0] /\ w.rxi = 0
      /\ w.tx = [i \in 0 .. TW_TX_MAX_LEN - 1 |-> 0] /\ w.txi = 0
      /\ w.armed = FALSE /\ w.twint = Nothing /\ w.twdr = 0
      /\ w.twar = v.eeprom /\ w.eeprom = v.eeprom /\ w.response = <<>>
  BY <1>1 DEF NewSlave, Fields
<1>3. owed'[s] = Nothing /\ s \notin linked'
  BY <1>1
<1>4. /\ ~Written(s)' /\ ~Read(s)' /\ ~Waiting(s)'
  BY <1>1, <1>2 DEF Written, Read, Waiting
<1>5. SlaveTypes(slave[s])'
  <2>1. 0 \in 0 .. 2 /\ 0 \in 0 .. 5 /\ <<>> \in Seq(Int) /\ Len(<<>>) \in 0 .. 2
    OBVIOUS
  <2>2. v.eeprom \in 1 .. 126
    BY <1>1 DEF SlaveInv, SlaveTypes
  <2>3. /\ w.rx \in [0 .. COMMAND_MAX_SIZE - 1 -> Int]
        /\ w.tx \in [0 .. TW_TX_MAX_LEN - 1 -> Int]
    BY <1>2
  <2>4. /\ w.pc \in {"recv", "wait", "respond", "init"} /\ w.pc # "init"
        /\ w.mode \in {"READY", "INITIALIZING", "TRANSMITTING", "RECEIVING"}
        /\ w.armed \in BOOLEAN /\ (w.armed <=> w.mode # "READY")
        /\ w.twint \in SlaveStatuses \cup {Nothing}
    BY <1>2
  <2>5. w.response \in Seq(Int) /\ Len(w.response) \in 0 .. 2
    BY <1>2, <2>1
  <2> QED
    BY <1>2, <2>1, <2>2, <2>3, <2>4, <2>5 DEF SlaveTypes
<1>6. LinkInv(s)'
  BY <1>2, <1>3, NothingAssumption DEF LinkInv, SlaveStatuses
<1>7. OwedInv(s)'
  BY <1>3, <1>4 DEF OwedInv
<1>8. RxInv(s)'
  BY <1>2, <1>3 DEF RxInv
<1>9. TxInv(s)'
  BY <1>2, <1>4 DEF TxInv
<1>10. SlaveInv(s)'
  BY <1>5, <1>6, <1>7, <1>8, <1>9 DEF SlaveInv
<1>11. \A t \in Slave \ {s} : owed'[t] = owed[t] /\ credit'[t] = credit[t]
  BY <1>1
<1> QED
  BY <1>1, <1>10, <1>11, OneSlaveStep

-----------------------------------------------------------------------------
(* What the bus does to the slaves *)

LEMMA MasterViewStep ==
    ASSUME BusInv, MasterInv', SameView, UNCHANGED <<slave, owed, credit>> PROVE BusInv'
<1>1. ASSUME NEW s \in Slave PROVE SlaveInv(s)'
  BY SameForAll, Undisturbed DEF BusInv
<1> QED
  BY <1>1 DEF BusInv

LEMMA IsrSentStep ==
    ASSUME BusInv, IsrSent, UNCHANGED <<slave, phase, linked, owed, credit>> PROVE BusInv'
<1>1. /\ MasterInv' /\ ~Sending' /\ ~Fetching'
      /\ Sending /\ CommandOut /\ Sent = Len(Body(master.cmd))
      /\ master'.cmd = master.cmd /\ master'.pc = master.pc
      /\ Asked' <=> Asked
      /\ phase = "write"
  BY IsrSentMaster DEF BusInv, Sending
<1>2. ASSUME NEW s \in Slave PROVE SlaveInv(s)'
  <2> DEFINE v == slave[s]
  <2>1. SlaveInv(s)
    BY DEF BusInv
  <2>2. /\ (Written(s)' <=> Written(s)) /\ ~Read(s) /\ ~Read(s)'
        /\ (Waiting(s)' <=> Waiting(s))
        /\ (Asks(s)' <=> Asks(s))
    BY <1>1 DEF Written, Read, Waiting, Asks
  <2>3. Written(s) => /\ owed[s] # Nothing /\ owed[s] = Folded(master.cmd)
                      /\ Body(owed[s]) = Body(master.cmd)
    BY <1>1, <2>1, BodyFolded DEF SlaveInv, OwedInv, CommandOut
  <2>4. PICK n \in 1 .. 3 : Sent = n
    BY <1>1, BodyType DEF CommandOut
  <2>5. SlaveTypes(slave[s])' /\ LinkInv(s)'
    <3>1. SlaveTypes(slave[s])'
      BY <2>1 DEF SlaveInv, SlaveTypes
    <3>2. LinkInv(s)'
      BY <2>1, <2>2 DEF SlaveInv, LinkInv
    <3> QED
      BY <3>1, <3>2
  <2>6. OwedInv(s)'
    BY <1>1, <2>1, <2>2 DEF SlaveInv, OwedInv
  <2>7. RxInv(s)'
    <3>1. Received(v)' = Received(v)
      BY DEF Received
    <3>2. v.pc = "wait" /\ owed[s] # Nothing /\ Written(s) =>
              Received(v) = Len(Body(owed[s]))
      BY <1>1, <2>1, <2>3 DEF SlaveInv, RxInv
    <3>3. v.pc = "recv" /\ owed[s] # Nothing => Received(v) <= 5
      BY <2>1, <2>4 DEF SlaveInv, RxInv, SlaveTypes, Received
    <3> QED
      BY <1>1, <2>1, <2>2, <3>1, <3>2, <3>3 DEF SlaveInv, RxInv
  <2>8. TxInv(s)'
    BY <1>1, <2>1, <2>2 DEF SlaveInv, TxInv
  <2> QED
    BY <2>5, <2>6, <2>7, <2>8 DEF SlaveInv
<1> QED
  BY <1>1, <1>2 DEF BusInv

LEMMA MasterIsrStep == ASSUME BusInv, MasterIsr PROVE BusInv'
<1>1. UNCHANGED <<slave, phase, linked, owed, credit>>
  BY DEF MasterIsr, history
<1> QED
  BY <1>1, MasterViewStep, IsrSentStep, IsrSendMaster, IsrReceiveMaster,
     IsrReceivedMaster, IsrErrorMaster
     DEF MasterIsr, BusInv

\* The slaves are told that the transfer is over.
LEMMA EndedSlave ==
    ASSUME BusInv, NEW s \in linked, phase = "write", slave[s].twint = Nothing,
           slave'[s] = [slave[s] EXCEPT !.twint = "SR_STOP", !.twdr = 0],
           s \notin linked', owed'[s] = owed[s], credit'[s] = credit[s],
           ~Sending, ~Sending', Asked' <=> Asked,
           master'.pc = master.pc, master'.cmd = master.cmd
    PROVE  SlaveInv(s)'
<1> DEFINE v == slave[s]
           w == slave'[s]
<1>1. s \in Slave /\ SlaveInv(s) /\ DOMAIN v = Fields /\ v.armed
  BY DEF BusInv, MasterInv, PhaseInv, SlaveInv, SlaveTypes, LinkInv
<1>2. /\ DOMAIN w = Fields /\ w.pc = v.pc /\ w.mode = v.mode
      /\ w.new_addr = v.new_addr
      /\ w.rx = v.rx /\ w.rxi = v.rxi /\ w.tx = v.tx /\ w.txi = v.txi
      /\ w.armed = v.armed /\ w.twint = "SR_STOP" /\ w.twdr = 0
      /\ w.twar = v.twar /\ w.eeprom = v.eeprom /\ w.response = v.response
  <2>1. w = [v EXCEPT !.twint = "SR_STOP", !.twdr = 0] /\ DOMAIN v = Fields
    BY <1>1
  <2> HIDE DEF v, w
  <2> QED
    BY <2>1 DEF Fields
<1>3. "SR_STOP" # Nothing
  BY NothingAssumption DEF SlaveStatuses
<1>4. v.pc \in {"recv", "wait"}
  BY <1>1 DEF SlaveInv, SlaveTypes, LinkInv
<1>5. /\ ~Written(s)' /\ ~Read(s)' /\ ~Waiting(s)' /\ (Asks(s)' <=> Asks(s))
      /\ Written(s)
  BY <1>2, <1>3 DEF Written, Read, Waiting, Asks
<1>6. SlaveTypes(slave[s])'
  <2>1. w.twint \in SlaveStatuses /\ w.twdr \in Int
    BY <1>2 DEF SlaveStatuses
  <2> QED
    BY <1>1, <1>2, <2>1, ZenonT(40) DEF SlaveInv, SlaveTypes
<1>7. LinkInv(s)'
  BY <1>1, <1>2, <1>3, <1>4 DEF LinkInv
<1>8. OwedInv(s)'
  BY <1>1, <1>2, <1>5 DEF SlaveInv, OwedInv
<1>9. RxInv(s)'
  <2>1. Received(v) = v.rxi /\ Received(w) = v.rxi
    BY <1>2, NothingAssumption DEF Received, SlaveStatuses
  <2> QED
    BY <1>1, <1>2, <1>4, <1>5, <2>1 DEF SlaveInv, RxInv
<1>10. TxInv(s)'
  BY <1>1, <1>2, <1>4, <1>5 DEF SlaveInv, TxInv
<1> QED
  BY <1>6, <1>7, <1>8, <1>9, <1>10 DEF SlaveInv

\* What a start and a stop have in common.
LEMMA EndedStep ==
    ASSUME BusInv, linked # {} => phase = "write" /\ Released,
           slave' = Ended, linked' = {}, UNCHANGED <<owed, credit>>,
           MasterInv', ~Sending, ~Sending', Asked' <=> Asked,
           master'.pc = master.pc, master'.cmd = master.cmd
    PROVE  BusInv'
<1>1. DOMAIN slave = Slave /\ linked \subseteq Slave
  BY DEF BusInv, MasterInv, PhaseInv
<1>2. DOMAIN slave' = Slave
  BY <1>1 DEF Ended, Raise
<1>3. ASSUME NEW s \in Slave, s \in linked PROVE SlaveInv(s)'
  <2>1. phase = "write" /\ slave[s].twint = Nothing
    BY <1>3 DEF Released
  <2>2. slave'[s] = [slave[s] EXCEPT !.twint = "SR_STOP", !.twdr = 0]
    BY <1>3, <2>1 DEF Ended, Raise
  <2> QED
    BY <1>3, <2>1, <2>2, EndedSlave
<1>4. ASSUME NEW s \in Slave, s \notin linked PROVE SlaveInv(s)'
  <2>1. slave'[s] = slave[s]
    BY <1>1, <1>4 DEF Ended, Raise
  <2>2. ~Written(s) /\ ~Read(s)
    BY <1>4 DEF Written, Read
  <2>3. SameFor(s)
    BY <1>4, <2>1, <2>2 DEF SameFor
  <2> QED
    BY <2>3, Undisturbed DEF BusInv
<1> QED
  BY <1>2, <1>3, <1>4 DEF BusInv

LEMMA BusStartStep == ASSUME BusInv, BusStart PROVE BusInv'
<1>1. UNCHANGED <<owed, credit>> /\ slave' = Ended /\ linked' = {}
  BY DEF BusStart, history
<1>2. linked # {} => phase = "write" /\ Released
  BY BusStartMaster DEF BusStart, BusInv
<1> QED
  BY <1>1, <1>2, BusStartMaster, EndedStep DEF BusInv

LEMMA BusStopStep == ASSUME BusInv, BusStop PROVE BusInv'
<1>1. UNCHANGED <<owed, credit>> /\ slave' = Ended /\ linked' = {}
  BY DEF BusStop, history
<1>2. linked # {} => phase = "write" /\ Released
  BY BusStopMaster DEF BusStop, BusInv
<1> QED
  BY <1>1, <1>2, BusStopMaster, EndedStep DEF BusInv

\* Nobody owes anything when an address is sent.
LEMMA AllDoneThen ==
    ASSUME BusInv, linked = {}, Released, NEW s \in Slave
    PROVE  /\ SlaveInv(s) /\ slave[s].twint = Nothing /\ owed[s] = Nothing
           /\ slave[s].pc \in {"recv", "wait"}
           /\ ~slave[s].armed => slave[s].pc = "recv" /\ slave[s].txi = 0
           /\ slave[s].pc = "recv" /\ slave[s].armed => Waiting(s)
           /\ DOMAIN slave[s] = Fields /\ slave[s].armed \in BOOLEAN
<1>1. SlaveInv(s) /\ slave[s].twint = Nothing
  BY DEF BusInv, Released
<1>2. owed[s] = Nothing /\ slave[s].pc \in {"recv", "wait"}
  BY <1>1, NothingAssumption
     DEF SlaveInv, SlaveTypes, LinkInv, OwedInv, Written, SlaveStatuses
<1>3. ~slave[s].armed => slave[s].pc = "recv" /\ slave[s].txi = 0
  BY <1>1 DEF SlaveInv, LinkInv
<1> QED
  BY <1>1, <1>2, <1>3 DEF SlaveInv, SlaveTypes, Waiting

LEMMA AddressWriteStep == ASSUME BusInv, BusAddress, AddressWrite PROVE BusInv'
<1>1. /\ MasterInv' /\ ~Sending /\ ~Asked /\ CommandOut
      /\ master'.pc = master.pc /\ master'.cmd = master.cmd
      /\ Address = master.cmd.to % 128 /\ linked = {} /\ linked' \subseteq Slave
      /\ Asked' <=> master.pc = "answer"
      /\ Sent' = 0 /\ phase' = "write"
      /\ Sending' <=> linked' # {}
  BY AddressWriteMaster DEF BusInv
<1>2. /\ DOMAIN slave = Slave /\ DOMAIN owed = Slave /\ credit \in [Slave -> BOOLEAN]
      /\ Released
  BY DEF BusInv, BusAddress
<1>3. DOMAIN slave' = Slave /\ DOMAIN owed' = Slave
  BY DEF AddressWrite, Raise
<1>4. credit' \in [Slave -> BOOLEAN]
  BY <1>2 DEF AddressWrite
<1>5. /\ master.cmd \in Request
      /\ Question(Folded(master.cmd)) <=> Question(master.cmd)
      /\ Question(master.cmd) <=> master.pc = "answer"
      /\ master.cmd.op = "ping" => master.cmd.to \in 1 .. 127
      /\ Folded(master.cmd) # Nothing /\ master.cmd.to \in 0 .. 255
  <2>1. master.cmd \in Request
    BY <1>1 DEF CommandOut
  <2>2. /\ Folded(master.cmd).op = master.cmd.op /\ Folded(master.cmd) # Nothing
        /\ master.cmd.to \in 0 .. 255
    BY <2>1, RequestFacts
  <2>3. /\ master.cmd.op = "ping" => master.cmd.to \in 1 .. 127
        /\ Question(master.cmd) <=> master.pc = "answer"
    BY <1>1 DEF CommandOut
  <2> QED
    BY <2>1, <2>2, <2>3 DEF Question
<1>6. ASSUME NEW s \in Slave, s \in linked' PROVE SlaveInv(s)'
  <2> DEFINE v == slave[s]
             w == slave'[s]
             status == IF Address = 0 THEN "SR_GCALL_ACK" ELSE "SR_SLA_ACK"
  <2>1. /\ SlaveInv(s) /\ v.twint = Nothing /\ owed[s] = Nothing
        /\ v.pc \in {"recv", "wait"} /\ DOMAIN v = Fields
        /\ v.pc = "recv" /\ v.armed => Waiting(s)
    BY <1>1, <1>2, AllDoneThen
  <2>2. v.armed /\ (Address = 0 \/ v.twar = Address)
    BY <1>6 DEF AddressWrite, Listeners
  <2>3. w = [v EXCEPT !.twint = status, !.twdr = 0]
    BY <1>6 DEF AddressWrite, Raise
  <2>4. /\ DOMAIN w = Fields /\ w.pc = v.pc /\ w.mode = v.mode
        /\ w.new_addr = v.new_addr
        /\ w.rx = v.rx /\ w.rxi = v.rxi /\ w.tx = v.tx /\ w.txi = v.txi
        /\ w.armed = v.armed /\ w.twint = status /\ w.twdr = 0
        /\ w.twar = v.twar /\ w.eeprom = v.eeprom /\ w.response = v.response
    BY <2>1, <2>3 DEF Fields
  <2>5. status \in {"SR_GCALL_ACK", "SR_SLA_ACK"} /\ status # Nothing
    BY NothingAssumption DEF SlaveStatuses
  <2> HIDE DEF status
  <2>6. /\ owed'[s] = Folded(master.cmd)
        /\ credit[s] => credit'[s]
        /\ Address = 0 /\ master.cmd.op = "get" => credit'[s]
    BY <1>6 DEF AddressWrite
  <2>7. Written(s)' /\ ~Read(s)' /\ ~Waiting(s)' /\ Sending'
    BY <1>1, <1>6 DEF Written, Read, Waiting
  <2>8. SlaveTypes(slave[s])'
    BY <2>1, <2>4, <2>5 DEF SlaveInv, SlaveTypes, SlaveStatuses
  <2>9. LinkInv(s)'
    BY <2>1, <2>2, <2>4, <2>5, <2>7 DEF LinkInv
  <2>10. v.pc = "recv" => credit'[s] /\ v.txi = 0
    BY <1>1, <2>1, <2>2, <2>6 DEF SlaveInv, TxInv, Asks
  <2>11. Question(master.cmd) => credit'[s] \/ Asks(s)'
    <3> SUFFICES ASSUME Question(master.cmd), ~credit'[s] PROVE Asks(s)'
      OBVIOUS
    <3>1. Address # 0
      <4>1. master.cmd.op = "ping" => master.cmd.to % 128 # 0
        BY <1>5
      <4> QED
        BY <1>1, <2>6, <4>1 DEF Question
    <3> QED
      BY <1>1, <1>5, <2>2, <2>4, <3>1 DEF Asks
  <2>12. OwedInv(s)'
    <3>1. owed'[s] \in Sendable
      BY <1>5, <2>6 DEF Sendable
    <3>2. owed'[s] # Nothing /\ owed'[s] = Folded(master'.cmd)
      BY <1>1, <1>5, <2>6
    <3>3. Question(owed'[s]) => credit'[s] \/ Asks(s)'
      BY <1>5, <2>6, <2>11
    <3>4. master'.pc # "wait"
      BY <1>1 DEF CommandOut
    <3>5. /\ w.pc \in {"recv", "wait"}
          /\ w.pc = "recv" => credit'[s] /\ w.txi = 0
      BY <2>1, <2>4, <2>10
    <3> QED
      BY <2>7, <3>1, <3>2, <3>3, <3>4, <3>5 DEF OwedInv
  <2>13. RxInv(s)'
    <3>1. Received(w) = v.rxi /\ w.twint # "SR_DATA_ACK"
      BY <2>4, <2>5 DEF Received
    <3>2. v.pc = "wait" => v.rxi = 0
      BY <2>1 DEF SlaveInv, RxInv
    <3>3. v.pc = "recv" => v.rxi <= 2 + 0
      BY <2>1, <2>2 DEF SlaveInv, RxInv
    <3>4. 0 <= Len(Body(Folded(master.cmd)))
      <4>1. Len(Body(Folded(master.cmd))) \in 1 .. 3
        BY <1>5, BodyType, BodyFolded
      <4> QED
        BY <4>1
    <3> QED
      BY <1>1, <1>5, <2>1, <2>4, <2>6, <2>7, <3>1, <3>2, <3>3, <3>4, SMTT(120) DEF RxInv
  <2>14. TxInv(s)'
    BY <1>5, <2>1, <2>4, <2>6, <2>7, <2>10 DEF TxInv
  <2> QED
    BY <2>8, <2>9, <2>12, <2>13, <2>14 DEF SlaveInv
<1>7. ASSUME NEW s \in Slave, s \notin linked' PROVE SlaveInv(s)'
  <2> DEFINE v == slave[s]
  <2>1. /\ SlaveInv(s) /\ v.twint = Nothing /\ owed[s] = Nothing
        /\ v.pc \in {"recv", "wait"}
        /\ ~v.armed => v.pc = "recv" /\ v.txi = 0
        /\ v.armed \in BOOLEAN
    BY <1>1, <1>2, AllDoneThen
  <2>2. slave'[s] = v /\ owed'[s] = Nothing /\ (credit[s] => credit'[s])
    BY <1>7, <2>1 DEF AddressWrite, Raise
  <2>3. /\ ~Written(s) /\ ~Written(s)' /\ ~Read(s) /\ ~Read(s)'
        /\ Waiting(s)' <=> Waiting(s)
    BY <1>1, <1>7, <2>2 DEF Written, Read, Waiting
  <2>4. SlaveTypes(slave[s])' /\ LinkInv(s)'
    BY <1>1, <1>7, <2>1, <2>2, <2>3 DEF SlaveInv, SlaveTypes, LinkInv
  <2>5. OwedInv(s)'
    BY <2>2, <2>3 DEF OwedInv
  <2>6. RxInv(s)'
    BY <2>1, <2>2, <2>3 DEF SlaveInv, RxInv
  <2>7. Asks(s)' => v.txi = 0
    <3> SUFFICES ASSUME Asks(s)', v.armed PROVE FALSE
      BY <2>1
    <3>1. v.twar = Address
      BY <1>1, <2>2 DEF Asks
    <3>2. v.twar \in 1 .. 126
      BY <2>1 DEF SlaveInv, SlaveTypes
    <3> QED
      BY <1>7, <3>1, <3>2 DEF AddressWrite, Listeners
  <2>8. TxInv(s)'
    BY <1>1, <2>1, <2>2, <2>3, <2>7 DEF SlaveInv, TxInv, Asks
  <2> QED
    BY <2>4, <2>5, <2>6, <2>8 DEF SlaveInv
<1> QED
  BY <1>1, <1>3, <1>4, <1>6, <1>7 DEF BusInv

LEMMA AddressReadStep == ASSUME BusInv, BusAddress, AddressRead PROVE BusInv'
<1>1. /\ MasterInv' /\ ~Sending /\ ~Sending' /\ Asked /\ ~Asked'
      /\ master.pc = "wait"
      /\ master'.pc = master.pc /\ master'.cmd = master.cmd
      /\ Address = master.cmd.to % 128 /\ linked = {} /\ linked' \subseteq Slave
      /\ Fetched' = 0 /\ phase' = "read"
  BY AddressReadMaster DEF BusInv
<1>2. /\ DOMAIN slave = Slave /\ Released /\ UNCHANGED <<owed, credit>>
      /\ slave' = Raise(linked', "ST_SLA_ACK", 0) /\ linked' = Listeners
  BY DEF BusInv, BusAddress, AddressRead, history
<1>3. DOMAIN slave' = Slave
  BY <1>2 DEF Raise
<1>4. ASSUME NEW s \in Slave, s \in linked' PROVE SlaveInv(s)'
  <2> DEFINE v == slave[s]
             w == slave'[s]
  <2>1. /\ SlaveInv(s) /\ v.twint = Nothing /\ owed[s] = Nothing
        /\ v.pc \in {"recv", "wait"} /\ DOMAIN v = Fields
    BY <1>1, <1>2, AllDoneThen
  <2>2. v.armed /\ v.twar = Address
    BY <1>2, <1>4 DEF Listeners
  <2>3. w = [v EXCEPT !.twint = "ST_SLA_ACK", !.twdr = 0]
    BY <1>2, <1>4 DEF Raise
  <2>4. /\ DOMAIN w = Fields /\ w.pc = v.pc /\ w.mode = v.mode
        /\ w.new_addr = v.new_addr
        /\ w.rx = v.rx /\ w.rxi = v.rxi /\ w.tx = v.tx /\ w.txi = v.txi
        /\ w.armed = v.armed /\ w.twint = "ST_SLA_ACK" /\ w.twdr = 0
        /\ w.twar = v.twar /\ w.eeprom = v.eeprom /\ w.response = v.response
    BY <2>1, <2>3 DEF Fields
  <2>5. "ST_SLA_ACK" \in SlaveStatuses /\ "ST_SLA_ACK" # Nothing
    BY NothingAssumption DEF SlaveStatuses
  <2>6. ~Written(s)' /\ Read(s)' /\ ~Waiting(s)' /\ ~Asks(s)'
    BY <1>1, <1>4 DEF Written, Read, Waiting, Asks
  <2>7. SlaveTypes(slave[s])'
    BY <2>1, <2>4, <2>5 DEF SlaveInv, SlaveTypes
  <2>8. LinkInv(s)'
    BY <2>1, <2>2, <2>4, <2>5, <2>6 DEF LinkInv
  <2>9. OwedInv(s)'
    BY <1>2, <2>1, <2>6 DEF OwedInv
  <2>10. RxInv(s)'
    BY <1>2, <2>1, <2>2, <2>4 DEF SlaveInv, RxInv
  <2>11. v.txi = 0
    BY <1>1, <2>1, <2>2 DEF SlaveInv, TxInv, Asks
  <2>12. TxInv(s)'
    BY <1>1, <1>2, <2>1, <2>4, <2>5, <2>6, <2>11 DEF TxInv
  <2> QED
    BY <2>7, <2>8, <2>9, <2>10, <2>12 DEF SlaveInv
<1>5. ASSUME NEW s \in Slave, s \notin linked' PROVE SlaveInv(s)'
  <2> DEFINE v == slave[s]
  <2>1. /\ SlaveInv(s) /\ v.twint = Nothing /\ owed[s] = Nothing
        /\ v.pc \in {"recv", "wait"}
    BY <1>1, <1>2, AllDoneThen
  <2>2. slave'[s] = v
    BY <1>2, <1>5 DEF Raise
  <2>3. /\ ~Written(s) /\ ~Written(s)' /\ ~Read(s) /\ ~Read(s)'
        /\ Waiting(s)' <=> Waiting(s)
    BY <1>1, <1>5, <2>2 DEF Written, Read, Waiting
  <2>4. SlaveTypes(slave[s])'
    BY <2>1, <2>2 DEF SlaveInv, SlaveTypes
  <2>5. LinkInv(s)'
    BY <1>1, <1>5, <2>1, <2>2, <2>3 DEF SlaveInv, LinkInv
  <2>6. OwedInv(s)'
    BY <1>2, <2>1, <2>3 DEF OwedInv
  <2>7. RxInv(s)'
    BY <1>2, <2>1, <2>2, <2>3 DEF SlaveInv, RxInv
  <2>8. Waiting(s) => credit[s]
    <3> SUFFICES ASSUME Waiting(s), Asks(s) PROVE FALSE
      BY <2>1 DEF SlaveInv, TxInv
    <3> QED
      BY <1>1, <1>2, <1>5 DEF Asks, Waiting, Listeners
  <2>9. TxInv(s)'
    BY <1>1, <1>2, <2>1, <2>2, <2>3, <2>8 DEF SlaveInv, TxInv, Asks
  <2> QED
    BY <2>4, <2>5, <2>6, <2>7, <2>9 DEF SlaveInv
<1>6. DOMAIN owed' = Slave /\ DOMAIN credit' = Slave /\ credit' \in [Slave -> BOOLEAN]
  BY <1>2 DEF BusInv
<1> QED
  BY <1>1, <1>3, <1>4, <1>5, <1>6 DEF BusInv

LEMMA BusWriteStep == ASSUME BusInv, BusWrite PROVE BusInv'
<1>1. /\ MasterInv' /\ Sending /\ UNCHANGED <<phase, linked>>
      /\ Asked' <=> Asked
      /\ master'.pc = master.pc /\ master'.cmd = master.cmd
      /\ Sending' <=> linked # {}
      /\ Sent \in 0 .. Len(Body(master.cmd)) - 1 /\ Sent' = Sent + 1
      /\ master.twdr = Body(master.cmd)[Sent + 1]
  BY BusWriteMaster DEF BusInv
<1>2. /\ DOMAIN slave = Slave /\ Released /\ UNCHANGED <<owed, credit>>
      /\ slave' = Raise(linked, "SR_DATA_ACK", master.twdr) /\ phase = "write"
  BY DEF BusInv, BusWrite, history
<1>3. DOMAIN slave' = Slave
  BY <1>2 DEF Raise
<1>4. ASSUME NEW s \in Slave, s \in linked PROVE SlaveInv(s)'
  <2> DEFINE v == slave[s]
             w == slave'[s]
  <2>1. /\ SlaveInv(s) /\ v.twint = Nothing /\ DOMAIN v = Fields
        /\ Written(s) /\ Sending' /\ v.armed
    BY <1>1, <1>2, <1>4 DEF BusInv, SlaveInv, SlaveTypes, LinkInv, Released, Written
  <2>2. w = [v EXCEPT !.twint = "SR_DATA_ACK", !.twdr = master.twdr] /\ DOMAIN v = Fields
    BY <1>2, <1>4, <2>1 DEF Raise
  <2>3. /\ DOMAIN w = Fields /\ w.pc = v.pc /\ w.mode = v.mode
        /\ w.new_addr = v.new_addr
        /\ w.rx = v.rx /\ w.rxi = v.rxi /\ w.tx = v.tx /\ w.txi = v.txi
        /\ w.armed = v.armed /\ w.twint = "SR_DATA_ACK" /\ w.twdr = master.twdr
        /\ w.twar = v.twar /\ w.eeprom = v.eeprom /\ w.response = v.response
    <3> HIDE DEF v, w
    <3> QED
      BY <2>2 DEF Fields
  <2>4. "SR_DATA_ACK" \in SlaveStatuses /\ "SR_DATA_ACK" # Nothing
    BY NothingAssumption DEF SlaveStatuses
  <2>5. /\ owed[s] # Nothing /\ v.pc \in {"recv", "wait"}
        /\ owed[s] = Folded(master.cmd) /\ Body(owed[s]) = Body(master.cmd)
    <3>1. owed[s] # Nothing /\ owed[s] = Folded(master.cmd) /\ v.pc \in {"recv", "wait"}
      BY <1>1, <2>1 DEF SlaveInv, OwedInv
    <3>2. Body(Folded(master.cmd)) = Body(master.cmd)
      BY <1>1, BodyFolded DEF BusInv, MasterInv, SendingInv, CommandOut
    <3> QED
      BY <3>1, <3>2
  <2>6. /\ Written(s)' /\ ~Read(s)' /\ ~Waiting(s)' /\ (Asks(s)' <=> Asks(s))
    BY <1>1, <1>2, <2>1, <2>3 DEF Written, Read, Waiting, Asks
  <2>7. SlaveTypes(slave[s])'
    <3>1. w.twdr \in Int
      BY <2>3 DEF BusInv, MasterInv, MasterTypes
    <3> QED
      BY <2>1, <2>3, <2>4, <3>1 DEF SlaveInv, SlaveTypes
  <2>8. LinkInv(s)'
    BY <2>1, <2>3, <2>4, <2>5, <2>6 DEF LinkInv
  <2>9. OwedInv(s)'
    BY <1>1, <1>2, <2>1, <2>3, <2>6 DEF SlaveInv, OwedInv
  <2>10. RxInv(s)'
    <3>1. Received(v) = v.rxi /\ Received(w) = v.rxi + 1
      BY <2>1, <2>3, NothingAssumption DEF Received, SlaveStatuses
    <3>2. PICK n \in 1 .. 3 : Len(Body(master.cmd)) = n
      BY <1>1, BodyType DEF BusInv, MasterInv, SendingInv, CommandOut
    <3>3. PICK r \in 0 .. 5 : v.rxi = r
      BY <2>1 DEF SlaveInv, SlaveTypes
    <3>4. PICK k \in 0 .. n - 1 : Sent = k
      BY <1>1, <3>2
    <3>5. CASE v.pc = "wait"
      <4>1. v.rxi = Sent /\ \A i \in 1 .. v.rxi : v.rx[i - 1] = Body(owed[s])[i]
        BY <1>1, <2>1, <2>5, <3>1, <3>5 DEF SlaveInv, RxInv
      <4>2. Received(w) = Sent' /\ Received(w) <= Len(Body(owed[s]))
        BY <1>1, <2>5, <3>1, <3>2, <3>4, <4>1
      <4>3. w.twdr = Body(owed[s])[w.rxi + 1]
        BY <1>1, <2>3, <2>5, <4>1
      <4> QED
        BY <1>2, <2>1, <2>3, <2>5, <2>6, <3>5, <4>1, <4>2, <4>3, ZenonT(40) DEF RxInv
    <3>6. CASE v.pc = "recv"
      <4>1. v.rxi <= 2 + Sent
        BY <1>1, <2>1, <2>5, <3>1, <3>6 DEF SlaveInv, RxInv
      <4>2. Received(w) <= 2 + Sent'
        BY <1>1, <3>1, <3>3, <3>4, <4>1
      <4> QED
        BY <1>2, <2>1, <2>3, <2>5, <2>6, <3>6, <4>2 DEF RxInv
    <3> QED
      BY <2>5, <3>5, <3>6
  <2>11. TxInv(s)'
    BY <1>1, <1>2, <2>1, <2>3, <2>5, <2>6 DEF SlaveInv, TxInv
  <2> QED
    BY <2>7, <2>8, <2>9, <2>10, <2>11 DEF SlaveInv
<1>5. ASSUME NEW s \in Slave, s \notin linked PROVE SlaveInv(s)'
  <2>1. slave'[s] = slave[s]
    BY <1>2, <1>5 DEF Raise
  <2>2. ~Written(s) /\ ~Read(s)
    BY <1>5 DEF Written, Read
  <2>3. SameFor(s)
    BY <1>1, <1>2, <1>5, <2>1, <2>2 DEF SameFor
  <2> QED
    BY <2>3, Undisturbed DEF BusInv
<1>6. DOMAIN owed' = Slave /\ DOMAIN credit' = Slave /\ credit' \in [Slave -> BOOLEAN]
  BY <1>2 DEF BusInv
<1> QED
  BY <1>1, <1>3, <1>4, <1>5, <1>6 DEF BusInv

LEMMA BusReadStep == ASSUME BusInv, BusRead PROVE BusInv'
<1>1. \A s \in linked : slave[s].twdr \in Int
  BY DEF BusInv, SlaveInv, SlaveTypes, MasterInv, PhaseInv
<1>2. /\ MasterInv' /\ ~Sending /\ ~Sending' /\ ~Asked /\ ~Asked' /\ phase = "read"
      /\ master.pc = "wait" /\ UNCHANGED phase
      /\ master'.pc = master.pc /\ master'.cmd = master.cmd
      /\ Fetched = master.rxi
      /\ \/ /\ master.order = "ack" /\ linked' = linked /\ Fetched' = Fetched + 1
         \/ /\ master.order = "nak" /\ linked' = {}
  BY <1>1, BusReadMaster DEF BusInv
<1>3. /\ DOMAIN slave = Slave /\ Released /\ UNCHANGED <<owed, credit>>
      /\ \/ master.order = "ack" /\ slave' = Raise(linked, "ST_DATA_ACK", 0)
         \/ master.order = "nak" /\ slave' = Raise(linked, "ST_DATA_NACK", 0)
  BY DEF BusInv, BusRead, history
<1>4. DOMAIN slave' = Slave
  BY <1>3 DEF Raise
<1>5. ASSUME NEW s \in Slave, s \in linked PROVE SlaveInv(s)'
  <2> DEFINE v == slave[s]
             w == slave'[s]
  <2>1. /\ SlaveInv(s) /\ v.twint = Nothing /\ DOMAIN v = Fields
        /\ Read(s) /\ v.armed /\ owed[s] = Nothing
        /\ v.txi = Fetched + 1
        /\ v.pc \in {"recv", "wait"}
    <3>1. SlaveInv(s) /\ v.twint = Nothing /\ Read(s)
      BY <1>2, <1>3, <1>5 DEF BusInv, Released, Read
    <3> QED
      BY <1>5, <3>1 DEF SlaveInv, SlaveTypes, LinkInv, TxInv
  <2>2. PICK status \in {"ST_DATA_ACK", "ST_DATA_NACK"} :
            /\ w = [v EXCEPT !.twint = status, !.twdr = 0]
            /\ IF status = "ST_DATA_ACK" THEN linked' = linked /\ Fetched' = Fetched + 1
                                         ELSE linked' = {}
    BY <1>2, <1>3, <1>5 DEF Raise
  <2>3. /\ DOMAIN w = Fields /\ w.pc = v.pc /\ w.mode = v.mode
        /\ w.new_addr = v.new_addr
        /\ w.rx = v.rx /\ w.rxi = v.rxi /\ w.tx = v.tx /\ w.txi = v.txi
        /\ w.armed = v.armed /\ w.twint = status /\ w.twdr = 0
        /\ w.twar = v.twar /\ w.eeprom = v.eeprom /\ w.response = v.response
    <3>1. w = [v EXCEPT !.twint = status, !.twdr = 0] /\ DOMAIN v = Fields
      BY <2>1, <2>2
    <3> HIDE DEF v, w
    <3> QED
      BY <3>1 DEF Fields
  <2>4. status \in SlaveStatuses /\ status # Nothing
    BY NothingAssumption DEF SlaveStatuses
  <2>5. /\ ~Written(s)' /\ ~Waiting(s)' /\ ~Asks(s)'
        /\ Read(s)' <=> status = "ST_DATA_ACK"
    BY <1>2, <1>5, <2>2, <2>3, <2>4 DEF Written, Read, Waiting, Asks
  <2>6. SlaveTypes(slave[s])'
    BY <2>1, <2>3, <2>4 DEF SlaveInv, SlaveTypes
  <2>7. LinkInv(s)'
    BY <1>5, <2>1, <2>2, <2>3, <2>4, <2>5 DEF LinkInv
  <2>8. OwedInv(s)'
    BY <1>3, <2>1, <2>5 DEF OwedInv
  <2>9. RxInv(s)'
    BY <1>3, <2>1, <2>3 DEF SlaveInv, RxInv
  <2>10. TxInv(s)'
    BY <1>2, <1>3, <2>1, <2>2, <2>3, <2>4, <2>5 DEF TxInv
  <2> QED
    BY <2>6, <2>7, <2>8, <2>9, <2>10 DEF SlaveInv
<1>6. ASSUME NEW s \in Slave, s \notin linked PROVE SlaveInv(s)'
  <2>1. slave'[s] = slave[s]
    BY <1>3, <1>6 DEF Raise
  <2>2. ~Written(s) /\ ~Read(s) /\ s \notin linked'
    BY <1>2, <1>6 DEF Written, Read
  <2>3. SameFor(s)
    BY <1>2, <1>3, <1>6, <2>1, <2>2 DEF SameFor
  <2> QED
    BY <2>3, Undisturbed DEF BusInv
<1>7. DOMAIN owed' = Slave /\ DOMAIN credit' = Slave /\ credit' \in [Slave -> BOOLEAN]
  BY <1>3 DEF BusInv
<1> QED
  BY <1>2, <1>4, <1>5, <1>6, <1>7 DEF BusInv

LEMMA BusStep == ASSUME BusInv, Bus PROVE BusInv'
BY BusStartStep, BusStopStep, AddressWriteStep, AddressReadStep, BusWriteStep,
   BusReadStep DEF Bus, BusAddress

LEMMA MasterResetStep == ASSUME BusInv, MasterReset PROVE BusInv'
<1>1. /\ master' = NewMaster /\ UNCHANGED <<slave, linked, owed>>
      /\ phase = "read" => linked = {}
      /\ phase' = IF linked = {} THEN "free" ELSE phase
      /\ credit' = [s \in Slave |-> TRUE]
  BY DEF MasterReset
<1>2. linked \subseteq Slave /\ (linked # {} => phase = "write")
  BY <1>1 DEF BusInv, MasterInv, PhaseInv
<1>3. /\ MasterInv' /\ ~Opening' /\ ~Sending' /\ ~Fetching' /\ ~Asked'
      /\ master'.pc = "idle"
  BY <1>1, <1>2, ResetMasterFacts
<1>4. ASSUME NEW s \in Slave PROVE SlaveInv(s)'
  <2> DEFINE v == slave[s]
  <2>1. SlaveInv(s) /\ credit'[s]
    BY <1>1 DEF BusInv
  <2>2. /\ Written(s)' <=> Written(s)
        /\ ~Read(s) /\ ~Read(s)' /\ ~Asks(s)'
        /\ Waiting(s)' <=> Waiting(s)
    BY <1>1, <1>2, <1>3 DEF Written, Read, Waiting, Asks
  <2>3. SlaveTypes(slave[s])'
    BY <1>1, <2>1 DEF SlaveInv, SlaveTypes
  <2>4. LinkInv(s)'
    BY <1>1, <2>1, <2>2 DEF SlaveInv, LinkInv
  <2>5. OwedInv(s)'
    BY <1>1, <1>3, <2>1, <2>2 DEF SlaveInv, OwedInv
  <2>6. RxInv(s)'
    <3>1. Received(v)' = Received(v)
      BY <1>1 DEF Received
    <3>2. v.pc = "recv" /\ owed[s] # Nothing => Received(v) <= 5
      <4>1. Sending => Sent \in 0 .. 3
        BY SentRange DEF BusInv
      <4>2. Received(v) \in Int
        BY <2>1 DEF SlaveInv, SlaveTypes, Received
      <4> QED
        BY <2>1, <4>1, <4>2 DEF SlaveInv, RxInv
    <3> QED
      BY <1>1, <1>3, <2>1, <2>2, <3>1, <3>2 DEF SlaveInv, RxInv
  <2>7. TxInv(s)'
    BY <1>1, <1>3, <2>1, <2>2 DEF SlaveInv, TxInv
  <2> QED
    BY <2>3, <2>4, <2>5, <2>6, <2>7 DEF SlaveInv
<1>5. /\ DOMAIN slave' = Slave /\ DOMAIN owed' = Slave /\ DOMAIN credit' = Slave
      /\ credit' \in [Slave -> BOOLEAN]
  BY <1>1 DEF BusInv
<1> QED
  BY <1>3, <1>4, <1>5 DEF BusInv

-----------------------------------------------------------------------------
(* The invariant *)

LEMMA InitBus == Init => BusInv
<1> SUFFICES ASSUME Init PROVE BusInv
  OBVIOUS
<1>1. /\ master = NewMaster /\ phase = "free" /\ linked = {}
      /\ slave = [s \in Slave |-> NewSlave(FirstAddr[s])]
      /\ owed = [s \in Slave |-> Nothing] /\ credit = [s \in Slave |-> FALSE]
  BY DEF Init
<1>2. MasterInv /\ ~Sending /\ ~Asked
  BY <1>1, NewMasterFacts
<1>3. ASSUME NEW s \in Slave PROVE SlaveInv(s)
  <2> DEFINE v == slave[s]
  <2>1. /\ DOMAIN v = Fields /\ v.pc = "recv" /\ v.mode = "READY"
        /\ v.rx = [i \in 0 .. COMMAND_MAX_SIZE - 1 |-> 0] /\ v.rxi = 0
        /\ v.tx = [i \in 0 .. TW_TX_MAX_LEN - 1 |-> 0] /\ v.txi = 0
        /\ v.armed = FALSE /\ v.twint = Nothing /\ v.twdr = 0
        /\ v.twar = FirstAddr[s] /\ v.eeprom = FirstAddr[s] /\ v.response = <<>>
    BY <1>1 DEF NewSlave, Fields
  <2>2. owed[s] = Nothing /\ s \notin linked
    BY <1>1
  <2>3. ~Written(s) /\ ~Read(s) /\ ~Waiting(s) /\ ~Asks(s)
    BY <1>1, <1>2, <2>1 DEF Written, Read, Waiting, Asks
  <2>4. SlaveTypes(slave[s])
    <3>1. 0 \in 0 .. 2 /\ 0 \in 0 .. 5 /\ <<>> \in Seq(Int) /\ Len(<<>>) \in 0 .. 2
      OBVIOUS
    <3>2. FirstAddr[s] \in 1 .. 126
      BY SlaveAssumption
    <3>3. /\ v.rx \in [0 .. COMMAND_MAX_SIZE - 1 -> Int]
          /\ v.tx \in [0 .. TW_TX_MAX_LEN - 1 -> Int]
      BY <2>1
    <3>4. /\ v.pc \in {"recv", "wait", "respond", "init"} /\ v.pc # "init"
          /\ v.mode \in {"READY", "INITIALIZING", "TRANSMITTING", "RECEIVING"}
          /\ v.armed \in BOOLEAN /\ (v.armed <=> v.mode # "READY")
          /\ v.twint \in SlaveStatuses \cup {Nothing}
      BY <2>1
    <3> QED
      BY <2>1, <3>1, <3>2, <3>3, <3>4 DEF SlaveTypes
  <2>5. LinkInv(s)
    BY <2>1, <2>2, NothingAssumption DEF LinkInv, SlaveStatuses
  <2>6. OwedInv(s) /\ RxInv(s)
    BY <2>1, <2>2, <2>3 DEF OwedInv, RxInv
  <2>7. TxInv(s)
    BY <2>1, <2>3 DEF TxInv
  <2> QED
    BY <2>4, <2>5, <2>6, <2>7 DEF SlaveInv
<1>4. /\ DOMAIN slave = Slave /\ DOMAIN owed = Slave /\ DOMAIN credit = Slave
      /\ credit \in [Slave -> BOOLEAN]
  BY <1>1
<1> QED
  BY <1>2, <1>3, <1>4 DEF BusInv

LEMMA NextBus == BusInv /\ [Next]_vars => BusInv'
<1> SUFFICES ASSUME BusInv, [Next]_vars PROVE BusInv'
  OBVIOUS
<1>1. ASSUME NEW c \in Request, SendCommand(c) PROVE BusInv'
  BY <1>1, SendCommandMaster, MasterViewStep DEF BusInv, SendCommand, history
<1>2. CASE MasterMain
  BY <1>2, RecvResponseMaster, ReturnMaster, MasterViewStep
     DEF BusInv, MasterMain, RecvResponse, Return, history
<1>3. CASE MasterIsr
  BY <1>3, MasterIsrStep
<1>4. CASE Bus
  BY <1>4, BusStep
<1>5. ASSUME NEW s \in Slave, SlaveIsr(s) \/ SlaveMain(s) \/ SlaveReset(s) PROVE BusInv'
  BY <1>5, SlaveIsrStep, SlaveMainStep, SlaveResetStep
<1>6. CASE MasterReset
  BY <1>6, MasterResetStep
<1>7. CASE UNCHANGED vars
  <2>1. SameView /\ UNCHANGED <<slave, owed, credit, master>>
    BY <1>7, SameMaster DEF vars, history, SameView
  <2>2. MasterInv'
    BY <1>7, SameMaster
       DEF BusInv, MasterInv, MasterTypes, OpeningInv, SendingInv, FetchingInv, CommandOut,
           PhaseInv, vars
  <2> QED
    BY <2>1, <2>2, MasterViewStep
<1> QED
  BY <1>1, <1>2, <1>3, <1>4, <1>5, <1>6, <1>7 DEF Next

LEMMA BusAlways == Spec => []BusInv
BY InitBus, NextBus, PTL DEF Spec

LEMMA BusTypes == BusInv => TypeOK
<1> SUFFICES ASSUME BusInv PROVE TypeOK
  OBVIOUS
<1>1. ASSUME NEW s \in Slave
      PROVE  /\ slave[s].pc \in {"recv", "wait", "respond", "init"}
             /\ slave[s].twar \in 1 .. 126 /\ slave[s].eeprom \in 1 .. 126
             /\ slave[s].rxi \in 0 .. COMMAND_MAX_SIZE
             /\ slave[s].txi \in 0 .. TW_TX_MAX_LEN
  <2>1. SlaveTypes(slave[s])
    BY DEF BusInv, SlaveInv
  <2>2. PICK i \in 0 .. 5, j \in 0 .. 2 : slave[s].rxi = i /\ slave[s].txi = j
    BY <2>1 DEF SlaveTypes
  <2>3. i \in 0 .. COMMAND_MAX_SIZE /\ j \in 0 .. TW_TX_MAX_LEN
    BY SizeAssumption
  <2> QED
    BY <2>1, <2>2, <2>3 DEF SlaveTypes
<1> QED
  BY <1>1 DEF BusInv, MasterInv, MasterTypes, PhaseInv, TypeOK

\* The variables keep their types; no handler reaches outside its buffer.
THEOREM TypeCorrect == Spec => []TypeOK
BY BusAlways, BusTypes, PTL

\* Whatever the main loop does, it does while the handler is off.
LEMMA MainLoopAlone == ASSUME BusInv, NEW s \in Slave, SlaveMain(s) PROVE ~slave[s].armed
<1>1. SlaveInv(s) /\ (SlaveReady(s) \/ slave[s].pc = "init")
  BY DEF BusInv, SlaveMain, Recv, Ignore, Execute, Respond, Readdress
<1> QED
  BY <1>1, ReadyMeansOff DEF SlaveInv, LinkInv

\* For any number of slaves and any commands, answers and resets, a slave's main loop
\* touches what its handler shares only while the handler cannot run.
THEOREM DriverExclusive == Spec => HandlerOff
<1>1. BusInv /\ [Next]_vars => [\A s \in Slave : SlaveMain(s) => ~slave[s].armed]_vars
  BY MainLoopAlone
<1> QED
  BY <1>1, InitBus, NextBus, PTL DEF Spec, HandlerOff

-----------------------------------------------------------------------------
(* The bus implements a bank of motors *)

\* The client refuses other addresses before they reach the master.
ValidAddresses == \A c \in Request : c.op = "addr" => c.arg \in 1 .. 126

\* What the bank sees of slave s does not change.
SameMotor(s) == /\ slave'[s].eeprom = slave[s].eeprom
                /\ slave'[s].next = slave[s].next /\ slave'[s].target = slave[s].target
                /\ slave'[s].armed \/ slave'[s].twint # Nothing
                   <=> slave[s].armed \/ slave[s].twint # Nothing

LEMMA BankStutters ==
    ASSUME UNCHANGED <<owed, credit>>, \A s \in Slave : SameMotor(s)
    PROVE  UNCHANGED Bank!vars
BY DEF Bank!vars, SameMotor

LEMMA RaiseSameMotor ==
    ASSUME BusInv, NEW receivers, NEW status, NEW byte, status # Nothing,
           \A s \in receivers \cap Slave : slave[s].armed,
           slave' = Raise(receivers, status, byte), NEW s \in Slave
    PROVE  SameMotor(s)
<1>1. DOMAIN slave[s] = Fields
  BY DEF BusInv, SlaveInv, SlaveTypes
<1>2. CASE s \in receivers
  <2>1. slave'[s] = [slave[s] EXCEPT !.twint = status, !.twdr = byte] /\ slave[s].armed
    BY <1>2 DEF Raise
  <2>2. /\ slave'[s].eeprom = slave[s].eeprom
        /\ slave'[s].next = slave[s].next /\ slave'[s].target = slave[s].target
        /\ slave'[s].armed = slave[s].armed
    BY <1>1, <2>1, ZenonT(40) DEF Fields
  <2> QED
    BY <2>1, <2>2 DEF SameMotor
<1>3. CASE s \notin receivers
  BY <1>3 DEF Raise, SameMotor
<1> QED
  BY <1>2, <1>3

LEMMA BusBank ==
    ASSUME BusInv, BusStart \/ BusStop \/ (BusAddress /\ AddressRead) \/ BusWrite \/ BusRead
    PROVE  UNCHANGED Bank!vars
<1>1. UNCHANGED <<owed, credit>>
  BY DEF BusStart, BusStop, BusAddress, AddressRead, BusWrite, BusRead, history
<1>2. \A s \in linked : s \in Slave /\ slave[s].armed
  BY DEF BusInv, MasterInv, PhaseInv, SlaveInv, LinkInv
<1>3. CASE UNCHANGED slave
  <2>1. \A s \in Slave : SameMotor(s)
    BY <1>3 DEF SameMotor
  <2> QED
    BY <1>1, <2>1, BankStutters
<1>4. CASE \E receivers, status, byte :
             /\ status \in SlaveStatuses
             /\ \A s \in receivers \cap Slave : slave[s].armed
             /\ slave' = Raise(receivers, status, byte)
  <2>1. \A s \in Slave : SameMotor(s)
    BY <1>4, RaiseSameMotor, NothingAssumption
  <2> QED
    BY <1>1, <2>1, BankStutters
<1>5. CASE BusStart \/ BusStop
  <2>1. slave' = Ended
    BY <1>5 DEF BusStart, BusStop
  <2> QED
    BY <1>2, <1>3, <1>4, <2>1 DEF Ended, SlaveStatuses
<1>6. CASE BusAddress /\ AddressRead
  <2>1. slave' = Raise(Listeners, "ST_SLA_ACK", 0)
    BY <1>6 DEF AddressRead
  <2>2. \A s \in Listeners \cap Slave : slave[s].armed
    BY DEF Listeners
  <2>3. "ST_SLA_ACK" \in SlaveStatuses
    BY DEF SlaveStatuses
  <2> QED
    BY <1>4, <2>1, <2>2, <2>3
<1>7. CASE BusWrite
  BY <1>2, <1>4, <1>7 DEF BusWrite, SlaveStatuses
<1>8. CASE BusRead
  BY <1>2, <1>4, <1>8 DEF BusRead, SlaveStatuses
<1> QED
  BY <1>5, <1>6, <1>7, <1>8

\* The address byte of a command issues it to all the slaves it names.
LEMMA IssueBank ==
    ASSUME BusInv, BusAddress, AddressWrite
    PROVE  Bank!Issue(Folded(master.cmd)) /\ master.cmd \in Request
<1> DEFINE c == Folded(master.cmd)
<1>1. /\ master.cmd \in Request /\ Address = master.cmd.to % 128 /\ linked = {}
  BY AddressWriteMaster DEF BusInv, CommandOut
<1>2. c.op = master.cmd.op /\ c.to = Address
  BY <1>1, RequestFacts
<1>3. /\ DOMAIN slave = Slave /\ credit \in [Slave -> BOOLEAN] /\ Released
  BY DEF BusInv, BusAddress
<1>4. \A s \in Slave : owed[s] = Nothing
  BY <1>1, <1>3, AllDoneThen
<1>5. ASSUME NEW s \in Slave
      PROVE  /\ slave[s].twint = Nothing /\ slave[s].twar = slave[s].eeprom
             /\ slave[s].twar # 0
  <2>1. /\ SlaveTypes(slave[s]) /\ slave[s].twint = Nothing /\ slave[s].pc # "init"
    BY <1>1, <1>3, AllDoneThen DEF SlaveInv
  <2>2. slave[s].twar = slave[s].eeprom /\ slave[s].twar \in 1 .. 126
    BY <2>1 DEF SlaveTypes
  <2> QED
    BY <2>1, <2>2
<1>6. \A s \in Slave : s \in linked' <=> s \in Bank!Reached(c)
  BY <1>2, <1>5 DEF AddressWrite, Listeners, Bank!Reached, Bank!Broadcast
<1>7. owed' = [s \in Slave |-> IF s \in Bank!Reached(c) THEN c ELSE Nothing]
  BY <1>4, <1>6 DEF AddressWrite
<1>8. credit' = [s \in Slave |-> credit[s] \/ (/\ s \in Bank!Reached(c)
                                               /\ Bank!Broadcast(c) /\ c.op = "get")]
  BY <1>2, <1>6 DEF AddressWrite, Bank!Broadcast
<1>9. \A s \in Slave : SameMotor(s)
  <2>1. \E status : /\ status \in SlaveStatuses /\ slave' = Raise(linked', status, 0)
    BY DEF AddressWrite, SlaveStatuses
  <2>2. \A s \in linked' \cap Slave : slave[s].armed
    BY DEF AddressWrite, Listeners
  <2> QED
    BY <2>1, <2>2, RaiseSameMotor, NothingAssumption
<1> QED
  BY <1>1, <1>4, <1>7, <1>8, <1>9 DEF Bank!Issue, SameMotor

LEMMA IsrBank == ASSUME BusInv, NEW s \in Slave, SlaveIsr(s) PROVE UNCHANGED Bank!vars
<1> DEFINE v == slave[s]
<1>1. /\ UNCHANGED <<owed, credit>> /\ DOMAIN slave = Slave /\ DOMAIN v = Fields
      /\ v.armed
  BY DEF BusInv, SlaveInv, SlaveTypes, SlaveIsr, history
<1>2. PICK w : /\ slave' = [slave EXCEPT ![s] = w]
               /\ w.eeprom = v.eeprom /\ w.next = v.next /\ w.target = v.target
               /\ w.armed \/ w.twint # Nothing
  <2>1. ASSUME NEW w \in {IsrAddressed(v), IsrStore(v), IsrTransmit(v)}
        PROVE  /\ w.eeprom = v.eeprom /\ w.next = v.next /\ w.target = v.target
               /\ w.armed
    BY <1>1 DEF IsrAddressed, IsrStore, IsrTransmit, twi_ack, Fields
  <2>2. /\ IsrEnd(v).eeprom = v.eeprom /\ IsrEnd(v).next = v.next
        /\ IsrEnd(v).target = v.target /\ IsrEnd(v).twint = v.twint
    BY <1>1 DEF IsrEnd, twi_enable, Fields
  <2>3. v.twint \in {"SR_STOP", "ST_DATA_NACK"} => v.twint # Nothing
    BY NothingAssumption DEF SlaveStatuses
  <2> QED
    BY <2>1, <2>2, <2>3 DEF SlaveIsr
<1>3. \A t \in Slave : SameMotor(t)
  BY <1>1, <1>2 DEF SameMotor
<1> QED
  BY <1>1, <1>3, BankStutters

LEMMA OwedFunction == ASSUME BusInv, owed = [s \in Slave |-> owed[s]], NEW s \in Slave
    PROVE  /\ owed[s] = Nothing => [owed EXCEPT ![s] = Nothing] = owed
           /\ owed[s] = Nothing => [credit EXCEPT ![s] = credit[s] /\ owed[s] = Nothing]
                                   = credit
           /\ owed[s] # Nothing => [credit EXCEPT ![s] = credit[s] /\ owed[s] = Nothing]
                                   = [credit EXCEPT ![s] = FALSE]
<1>1. credit \in [Slave -> BOOLEAN]
  BY DEF BusInv
<1> QED
  BY <1>1

\* What a slave does when it passes over a command.
LEMMA ForgetBank ==
    ASSUME BusInv, owed = [s \in Slave |-> owed[s]], NEW s \in Slave, Forget(s),
           owed[s] # Nothing => credit[s],
           \A t \in Slave : SameMotor(t)
    PROVE  Bank!Lose(s) \/ UNCHANGED Bank!vars
<1>1. CASE owed[s] = Nothing
  <2>1. UNCHANGED <<owed, credit>>
    BY <1>1, OwedFunction DEF Forget
  <2> QED
    BY <2>1, BankStutters
<1>2. CASE owed[s] # Nothing
  <2>1. /\ owed' = [owed EXCEPT ![s] = Nothing]
        /\ credit' = [credit EXCEPT ![s] = FALSE]
    BY <1>2, OwedFunction DEF Forget
  <2> QED
    BY <1>2, <2>1 DEF Bank!Lose, SameMotor
<1> QED
  BY <1>1, <1>2

LEMMA RecvBank ==
    ASSUME BusInv, owed = [s \in Slave |-> owed[s]], NEW s \in Slave, Recv(s)
    PROVE  Bank!Join(s) \/ Bank!Lose(s) \/ UNCHANGED Bank!vars
<1> DEFINE v == slave[s]
           w == slave'[s]
<1>1. /\ DOMAIN slave = Slave /\ DOMAIN v = Fields /\ SlaveInv(s) /\ v.pc = "recv"
      /\ ~v.armed /\ Forget(s)
  BY ReadyMeansOff DEF BusInv, SlaveInv, SlaveTypes, Recv
<1>2. /\ w.eeprom = v.eeprom /\ w.next = v.next /\ w.target = v.target /\ w.armed
      /\ \A t \in Slave \ {s} : slave'[t] = slave[t]
  BY <1>1 DEF Recv, twi_ack, Fields
<1>3. CASE v.twint # Nothing
  <2>1. \A t \in Slave : SameMotor(t)
    BY <1>2, <1>3 DEF SameMotor
  <2>2. owed[s] # Nothing => credit[s]
    BY <1>1 DEF SlaveInv, OwedInv
  <2> QED
    BY <1>1, <2>1, <2>2, ForgetBank
<1>4. CASE v.twint = Nothing
  <2>1. owed[s] = Nothing
    BY <1>1, <1>4, ReadySlave, NothingAssumption DEF SlaveStatuses
  <2>2. UNCHANGED <<owed, credit>>
    BY <1>1, <2>1, OwedFunction DEF Forget
  <2> QED
    BY <1>2, <2>2 DEF Bank!Join
<1> QED
  BY <1>3, <1>4

\* Of a command that is not lost every byte counts.
LEMMA WholeIsValid ==
    ASSUME BusInv, ValidAddresses, NEW s \in Slave, slave[s].pc = "wait", ~slave[s].armed,
           owed[s] # Nothing, ~command_isvalid(slave[s])
    PROVE  credit[s]
<1> SUFFICES ASSUME ~credit[s] PROVE FALSE
  OBVIOUS
<1> DEFINE v == slave[s]
           c == owed[s]
<1>1. SlaveInv(s)
  BY DEF BusInv
<1>2. /\ v.rxi = Len(Body(c)) /\ v.rx[0] = Body(c)[1]
      /\ \A i \in 1 .. v.rxi : v.rx[i - 1] = Body(c)[i]
  BY <1>1, WholeCommand
<1>3. /\ c.op \in {"get", "set", "apply", "ping", "addr"}
      /\ c.op = "addr" => c.arg \in 1 .. 126
  <2>1. PICK r \in Request : c = Folded(r)
    BY <1>1 DEF SlaveInv, OwedInv, Sendable
  <2> QED
    BY <2>1, RequestFacts DEF ValidAddresses
<1>4. c.op # "addr"
  <2> SUFFICES ASSUME c.op = "addr" PROVE FALSE
    OBVIOUS
  <2>1. Body(c) = <<4, c.arg>>
    BY BodyIs
  <2>2. v.rxi = 2 /\ v.rx[0] = 4 /\ v.rx[1] = c.arg
    <3>1. v.rxi = 2 /\ v.rx[0] = 4 /\ Body(c)[2] = c.arg
      BY <1>2, <2>1
    <3>2. 2 \in 1 .. v.rxi /\ 2 - 1 = 1
      BY <3>1
    <3> QED
      BY <1>2, <3>1, <3>2
  <2> QED
    BY <1>3, <2>2 DEF command_isvalid
<1> QED
  BY <1>2, <1>3, <1>4, BodyBytes DEF command_isvalid

LEMMA IgnoreBank ==
    ASSUME BusInv, ValidAddresses, owed = [s \in Slave |-> owed[s]],
           NEW s \in Slave, Ignore(s)
    PROVE  Bank!Lose(s) \/ UNCHANGED Bank!vars
<1> DEFINE v == slave[s]
           w == slave'[s]
<1>1. /\ DOMAIN slave = Slave /\ DOMAIN v = Fields /\ SlaveInv(s) /\ v.pc = "wait"
      /\ ~v.armed /\ Forget(s) /\ ~command_isvalid(v)
  BY ReadyMeansOff DEF BusInv, SlaveInv, SlaveTypes, Ignore
<1>2. /\ w.eeprom = v.eeprom /\ w.next = v.next /\ w.target = v.target
      /\ w.armed = v.armed /\ w.twint = v.twint
      /\ \A t \in Slave \ {s} : slave'[t] = slave[t]
  BY <1>1 DEF Ignore, Fields
<1>3. \A t \in Slave : SameMotor(t)
  BY <1>2 DEF SameMotor
<1>4. owed[s] # Nothing => credit[s]
  BY <1>1, WholeIsValid
<1> QED
  BY <1>1, <1>3, <1>4, ForgetBank

\* The two bytes of a speed give the speed back.
LEMMA BytesOfSpeed == ASSUME NEW rpm \in dc_rpm_t PROVE Rpm(Low(rpm), High(rpm)) = rpm
<1>1. rpm \in Int /\ -32768 <= rpm /\ rpm <= 32767
  <2>1. INT16_MIN = -32768 /\ INT16_MAX = 32767
    BY DEF INT16_MIN, INT16_MAX
  <2>2. INT16_MIN \in Int /\ INT16_MAX \in Int
    BY <2>1
  <2>3. rpm \in Int /\ INT16_MIN <= rpm /\ rpm <= INT16_MAX
    BY <2>2 DEF dc_rpm_t
  <2> QED
    BY <2>1, <2>3
<1>2. (rpm % 256) + 256 * ((rpm \div 256) % 256) = IF rpm >= 0 THEN rpm ELSE rpm + 65536
  BY <1>1
<1>3. Wrap16(IF rpm >= 0 THEN rpm ELSE rpm + 65536) = rpm
  BY <1>1 DEF Wrap16
<1> QED
  BY <1>2, <1>3 DEF Rpm, Low, High

\* A valid command is the one that is owed, to its last byte.
LEMMA ValidIsWhole ==
    ASSUME BusInv, NEW s \in Slave, Execute(s)
    PROVE  LET v == slave[s]
               c == owed[s]
           IN /\ c.op = "get" => v.rx[0] = 0
              /\ c.op = "set" => /\ v.rx[0] = 1 /\ v.rx[1] = Low(c.arg)
                                 /\ v.rx[2] = High(c.arg)
              /\ c.op = "apply" => v.rx[0] = 2
              /\ c.op = "ping" => v.rx[0] = 3
              /\ c.op = "addr" => v.rx[0] = 4 /\ v.rx[1] = c.arg
              /\ c.op \in {"get", "set", "apply", "ping", "addr"}
<1> DEFINE v == slave[s]
           c == owed[s]
<1>1. SlaveInv(s) /\ v.pc = "wait" /\ ~v.armed /\ c # Nothing
  BY ExecuteFacts
<1>2. v.rxi \in 1 .. 3 /\ command_isvalid(v)
  BY DEF Execute, command_isvalid
<1>3. /\ v.rxi <= Len(Body(c))
      /\ \A i \in 1 .. v.rxi : v.rx[i - 1] = Body(c)[i]
  BY <1>1, ReadySlave DEF SlaveInv, RxInv
<1>4. v.rx[0] = Body(c)[1]
  <2>1. 1 \in 1 .. v.rxi /\ 1 - 1 = 0
    BY <1>2
  <2> QED
    BY <1>3, <2>1
<1>5. c.op \in {"get", "set", "apply", "ping", "addr"}
  BY <1>1, OwedFacts DEF SlaveInv
<1>6. c.op = "set" => v.rx[1] = Low(c.arg) /\ v.rx[2] = High(c.arg)
  <2> SUFFICES ASSUME c.op = "set" PROVE v.rx[1] = Low(c.arg) /\ v.rx[2] = High(c.arg)
    OBVIOUS
  <2>1. Body(c) = <<1, Low(c.arg), High(c.arg)>>
    BY BodyIs
  <2>2. v.rx[0] = 1 /\ Body(c)[2] = Low(c.arg) /\ Body(c)[3] = High(c.arg)
    BY <1>4, <2>1
  <2>3. v.rxi = 3
    BY <1>2, <2>2 DEF command_isvalid
  <2>4. 2 \in 1 .. v.rxi /\ 3 \in 1 .. v.rxi /\ 2 - 1 = 1 /\ 3 - 1 = 2
    BY <2>3
  <2> QED
    BY <1>3, <2>2, <2>4
<1>7. c.op = "addr" => v.rx[1] = c.arg
  <2> SUFFICES ASSUME c.op = "addr" PROVE v.rx[1] = c.arg
    OBVIOUS
  <2>1. Body(c) = <<4, c.arg>>
    BY BodyIs
  <2>2. v.rx[0] = 4 /\ Body(c)[2] = c.arg
    BY <1>4, <2>1
  <2>3. v.rxi = 2
    BY <1>2, <2>2 DEF command_isvalid
  <2>4. 2 \in 1 .. v.rxi /\ 2 - 1 = 1
    BY <2>3
  <2> QED
    BY <1>3, <2>2, <2>4
<1> QED
  BY <1>4, <1>5, <1>6, <1>7, BodyBytes

LEMMA ExecuteBank == ASSUME BusInv, NEW s \in Slave, Execute(s) PROVE Bank!Perform(s)
<1> DEFINE v == slave[s]
           w == slave'[s]
           c == owed[s]
<1>1. /\ DOMAIN slave = Slave /\ DOMAIN v = Fields /\ SlaveInv(s) /\ v.pc = "wait"
      /\ ~v.armed /\ v.twint = "SR_STOP" /\ c # Nothing /\ Effect(s)
      /\ owed' = [owed EXCEPT ![s] = Nothing] /\ UNCHANGED credit
  BY ExecuteFacts DEF Execute
<1>2. c.arg \in dc_rpm_t
  <2>1. PICK r \in Request : c = Folded(r)
    BY <1>1 DEF SlaveInv, OwedInv, Sendable
  <2>2. r.arg \in dc_rpm_t
    BY RequestAssumption
  <2> QED
    BY <2>1, <2>2, RequestFacts
<1>3. /\ w.eeprom = (IF c.op = "addr" THEN c.arg ELSE v.eeprom)
      /\ w.next = (IF c.op = "set" THEN compute_limited_speed(c.arg) ELSE v.next)
      /\ w.target = (IF c.op = "apply" THEN v.next ELSE v.target)
      /\ w.armed = v.armed /\ w.twint = v.twint
      /\ \A t \in Slave \ {s} : slave'[t] = slave[t]
  <2>1. CASE c.op = "get" \/ c.op = "ping"
    <3>1. v.rx[0] \in {0, 3}
      BY <2>1, ValidIsWhole
    <3>2. \E bytes : slave' = [slave EXCEPT ![s] =
                                  [v EXCEPT !.pc = "respond", !.response = bytes]]
      <4>1. CASE v.rx[0] = 0
        <5>1. PICK rpm \in Sample : Answer(s, <<Low(rpm), High(rpm)>>)
          BY <1>1, <4>1 DEF Effect
        <5> QED
          BY <5>1 DEF Answer
      <4>2. CASE v.rx[0] = 3
        <5>1. Answer(s, <<v.rx[1]>>)
          BY <1>1, <4>2 DEF Effect
        <5> QED
          BY <5>1 DEF Answer
      <4> QED
        BY <3>1, <4>1, <4>2
    <3> QED
      BY <1>1, <2>1, <3>2 DEF Fields
  <2>2. CASE c.op = "set"
    <3>1. v.rx[0] = 1 /\ v.rx[1] = Low(c.arg) /\ v.rx[2] = High(c.arg)
      BY <2>2, ValidIsWhole
    <3>2. slave' = [slave EXCEPT ![s] = [v EXCEPT !.pc = "recv",
                                             !.next = compute_limited_speed(c.arg)]]
      <4>1. Rpm(v.rx[1], v.rx[2]) = c.arg
        BY <1>2, <3>1, BytesOfSpeed
      <4>2. slave' = [slave EXCEPT ![s] = [v EXCEPT !.pc = "recv",
                          !.next = compute_limited_speed(Rpm(v.rx[1], v.rx[2]))]]
        BY <1>1, <3>1 DEF Effect
      <4> QED
        BY <4>1, <4>2
    <3> QED
      BY <1>1, <2>2, <3>2 DEF Fields
  <2>3. CASE c.op = "apply"
    <3>1. v.rx[0] = 2
      BY <2>3, ValidIsWhole
    <3>2. slave' = [slave EXCEPT ![s] = [v EXCEPT !.pc = "recv", !.target = v.next]]
      BY <1>1, <3>1 DEF Effect
    <3> QED
      BY <1>1, <2>3, <3>2 DEF Fields
  <2>4. CASE c.op = "addr"
    <3>1. v.rx[0] = 4 /\ v.rx[1] = c.arg
      BY <2>4, ValidIsWhole
    <3>2. slave' = [slave EXCEPT ![s] = [v EXCEPT !.pc = "init", !.new_addr = c.arg,
                                                  !.eeprom = c.arg]]
      BY <1>1, <3>1 DEF Effect
    <3> QED
      BY <1>1, <2>4, <3>2 DEF Fields
  <2> QED
    BY <2>1, <2>2, <2>3, <2>4, ValidIsWhole
<1> HIDE DEF w
<1>4. [t \in Slave |-> slave'[t].eeprom]
      = [[t \in Slave |-> slave[t].eeprom] EXCEPT ![s] = IF c.op = "addr" THEN c.arg ELSE @]
  BY <1>3 DEF w
<1>5. [t \in Slave |-> slave'[t].next]
      = [[t \in Slave |-> slave[t].next] EXCEPT ![s] =
            IF c.op = "set" THEN compute_limited_speed(c.arg) ELSE @]
  BY <1>3 DEF w
<1>6. [t \in Slave |-> slave'[t].target]
      = [[t \in Slave |-> slave[t].target] EXCEPT ![s] =
            IF c.op = "apply" THEN [t \in Slave |-> slave[t].next][s] ELSE @]
  BY <1>3 DEF w
<1>7. [t \in Slave |-> slave'[t].armed \/ slave'[t].twint # Nothing]
      = [t \in Slave |-> slave[t].armed \/ slave[t].twint # Nothing]
  BY <1>3 DEF w
<1> HIDE DEF c, v
<1>8. owed[s] # Nothing /\ owed' = [owed EXCEPT ![s] = Nothing] /\ UNCHANGED credit
  BY <1>1 DEF c
<1>9. Bank!compute_limited_speed(c.arg) = compute_limited_speed(c.arg)
  BY DEF compute_limited_speed, Bank!compute_limited_speed, DC_MOTOR_MAX_RPM_SPEED,
         Bank!DC_MOTOR_MAX_RPM_SPEED
<1> QED
  BY <1>4, <1>5, <1>6, <1>7, <1>8, <1>9 DEF Bank!Perform, c

LEMMA RespondBank ==
    ASSUME BusInv, NEW s \in Slave, Respond(s) \/ Readdress(s) PROVE UNCHANGED Bank!vars
<1> DEFINE v == slave[s]
           w == slave'[s]
<1>1. /\ DOMAIN slave = Slave /\ DOMAIN v = Fields /\ SlaveInv(s)
      /\ v.twint = "SR_STOP" /\ UNCHANGED <<owed, credit>>
  BY DEF BusInv, SlaveInv, SlaveTypes, LinkInv, Respond, Readdress, history
<1>2. v.twint # Nothing
  BY <1>1, NothingAssumption DEF SlaveStatuses
<1>3. /\ w.eeprom = v.eeprom /\ w.next = v.next /\ w.target = v.target
      /\ w.armed \/ w.twint = v.twint
      /\ \A t \in Slave \ {s} : slave'[t] = slave[t]
  <2>1. CASE Respond(s)
    BY <1>1, <2>1 DEF Respond, twi_ack, Fields
  <2>2. CASE Readdress(s)
    BY <1>1, <2>2 DEF Readdress, twi_enable, Fields
  <2> QED
    BY <2>1, <2>2
<1>4. \A t \in Slave : SameMotor(t)
  BY <1>2, <1>3 DEF SameMotor
<1> QED
  BY <1>1, <1>4, BankStutters

LEMMA SlaveResetBank ==
    ASSUME BusInv, NEW s \in Slave, SlaveReset(s) PROVE Bank!Restart(s)
<1> DEFINE v == slave[s]
           w == slave'[s]
<1>1. /\ DOMAIN slave = Slave /\ slave' = [slave EXCEPT ![s] = NewSlave(v.eeprom)]
      /\ owed' = [owed EXCEPT ![s] = Nothing] /\ UNCHANGED credit
  BY DEF BusInv, SlaveReset
<1>2. /\ w.eeprom = v.eeprom /\ w.next = 0 /\ w.target = 0
      /\ ~w.armed /\ w.twint = Nothing
      /\ \A t \in Slave \ {s} : slave'[t] = slave[t]
  BY <1>1 DEF NewSlave
<1> QED
  BY <1>1, <1>2 DEF Bank!Restart

LEMMA MasterResetBank == ASSUME MasterReset PROVE Bank!MasterRestart
BY DEF MasterReset, Bank!MasterRestart

-----------------------------------------------------------------------------
OwedFun == owed = [s \in Slave |-> owed[s]]

LEMMA OwedFunStep == ASSUME OwedFun, [Next]_vars PROVE OwedFun'
<1>1. \/ UNCHANGED owed
      \/ \E s \in Slave : owed' = [owed EXCEPT ![s] = Nothing]
      \/ AddressWrite
  BY DEF Next, SendCommand, MasterMain, RecvResponse, Return, MasterIsr, Bus, BusStart,
         BusStop, BusAddress, AddressRead, BusWrite, BusRead, SlaveIsr, SlaveMain, Recv,
         Ignore, Forget, Execute, Respond, Readdress, SlaveReset, MasterReset, vars, history
<1>2. CASE AddressWrite
  BY <1>2 DEF AddressWrite, OwedFun
<1> QED
  BY <1>1, <1>2 DEF OwedFun

LEMMA InitBank == ASSUME Init PROVE Bank!Init
<1>1. \A s \in Slave : /\ slave[s].eeprom = FirstAddr[s] /\ slave[s].next = 0
                       /\ slave[s].target = 0 /\ ~slave[s].armed
                       /\ slave[s].twint = Nothing
  BY DEF Init, NewSlave
<1>2. FirstAddr = [s \in Slave |-> FirstAddr[s]]
  BY SlaveAssumption
<1> QED
  BY <1>1, <1>2 DEF Init, Bank!Init

LEMMA StepBank ==
    ASSUME BusInv, OwedFun, ValidAddresses, [Next]_vars PROVE [Bank!Next]_(Bank!vars)
<1>1. CASE UNCHANGED <<slave, owed, credit>>
  BY <1>1 DEF Bank!vars
<1>2. CASE Bus
  <2>1. CASE BusAddress /\ AddressWrite
    BY <2>1, IssueBank DEF Bank!Next
  <2>2. CASE BusStart \/ BusStop \/ (BusAddress /\ AddressRead) \/ BusWrite \/ BusRead
    BY <2>2, BusBank
  <2> QED
    BY <1>2, <2>1, <2>2 DEF Bus, BusAddress
<1>3. ASSUME NEW s \in Slave, SlaveIsr(s) \/ SlaveMain(s) \/ SlaveReset(s)
      PROVE  [Bank!Next]_(Bank!vars)
  BY <1>3, IsrBank, RecvBank, IgnoreBank, ExecuteBank, RespondBank, SlaveResetBank
     DEF SlaveMain, OwedFun, Bank!Next
<1>4. CASE MasterReset
  BY <1>4, MasterResetBank DEF Bank!Next
<1> QED
  BY <1>1, <1>2, <1>3, <1>4
     DEF Next, SendCommand, MasterMain, RecvResponse, Return, MasterIsr, vars, history

\* Every command is carried out whole, once and by all the slaves it names before the
\* next one is issued; only a restart or an answer nobody fetched costs a slave one.
THEOREM BusIsBank == ASSUME ValidAddresses PROVE Spec => ImplementsBank
<1>1. Init => OwedFun
  BY DEF Init, OwedFun
<1>2. Init => Bank!Init
  BY InitBank
<1>3. OwedFun /\ [Next]_vars => OwedFun'
  BY OwedFunStep
<1>4. BusInv /\ OwedFun /\ [Next]_vars => [Bank!Next]_(Bank!vars)
  BY StepBank
<1> QED
  BY <1>1, <1>2, <1>3, <1>4, InitBus, NextBus, PTL DEF Spec, ImplementsBank, Bank!Spec

-----------------------------------------------------------------------------
(* The answer that is returned is the one that was asked for *)

\* The answer is in the transmit buffer.
Prepared(s) == \A i \in 1 .. Len(answer[s]) : slave[s].tx[i - 1] = answer[s][i]

\* The slave has still to work out its answer, has worked it out, or has prepared it.
AnswerComes(s) ==
    \/ slave[s].pc = "wait" /\ owed[s] # Nothing
    \/ /\ slave[s].pc = "respond" /\ slave[s].response = answer[s]
       /\ Len(answer[s]) = AnswerSize(master.cmd)
    \/ Waiting(s) /\ Prepared(s) /\ Len(answer[s]) = AnswerSize(master.cmd)

\* The bytes that have been fetched are the first ones of the answer; the one the slave
\* offers and the one on its way are the next.
FetchedFrom(s) ==
    /\ Fetching \/ master.rxi = Len(master.rx)
    /\ \A i \in 1 .. master.rxi : master.rx[i] = answer[s][i]
    /\ Fetching =>
           /\ linked = IF master.twint = "MR_DATA_NACK" THEN {} ELSE {s}
           /\ s \in linked =>
                  /\ Prepared(s)
                  /\ slave[s].twint = Nothing => slave[s].twdr = answer[s][slave[s].txi]
           /\ master.twint \in {"MR_DATA_ACK", "MR_DATA_NACK"} =>
                  master.twdr = answer[s][master.rxi + 1]

\* What a trusted slave does for the master, before and while the answer is fetched.
AskedTrust(s) == Asked => Asks(s) /\ AnswerComes(s)
FetchedTrust(s) == master.pc = "wait" /\ ~Opening =>
                       /\ Len(answer[s]) = AnswerSize(master.cmd)
                       /\ HasOwnAddress(s) => FetchedFrom(s)
TrustInv(s) == AskedTrust(s) /\ FetchedTrust(s)

Trusted == /\ trusted \subseteq Slave
           /\ DOMAIN answer = Slave /\ \A s \in Slave : answer[s] \in Seq(Int)
           /\ \A s \in trusted : TrustInv(s)

\* Nothing is asked and nothing is fetched.
LEMMA NothingAsked ==
    ASSUME NEW s, ~Asked', master'.pc # "wait" \/ Opening' PROVE TrustInv(s)'
BY DEF TrustInv, AskedTrust, FetchedTrust

LEMMA SameAddresses ==
    ASSUME NEW s \in Slave, \A t \in Slave : slave'[t].twar = slave[t].twar
    PROVE  HasOwnAddress(s)' <=> HasOwnAddress(s)
BY DEF HasOwnAddress

-----------------------------------------------------------------------------
(* The master's steps *)

LEMMA MasterAsked ==
    ASSUME NEW s \in Slave, AskedTrust(s), UNCHANGED <<slave, linked, owed, answer>>,
           Asked' => Asked /\ master'.cmd = master.cmd
    PROVE  AskedTrust(s)'
BY DEF AskedTrust, Asks, AnswerComes, Waiting, Prepared

LEMMA SendCommandTrust ==
    ASSUME NEW s \in Slave, NEW c \in Request, BusInv, SendCommand(c)
    PROVE  TrustInv(s)'
<1>1. DOMAIN master = MasterFields
  BY DEF BusInv, MasterInv, MasterTypes
<1>2. master'.order = "start" /\ master'.pc # "wait"
  BY <1>1 DEF SendCommand, _twi_send, MasterFields
<1> QED
  BY <1>2, NothingAsked DEF Asked, Opening

LEMMA RecvResponseTrust ==
    ASSUME NEW s \in Slave, BusInv, TrustInv(s), RecvResponse PROVE TrustInv(s)'
<1>1. DOMAIN master = MasterFields /\ master.pc = "answer" /\ ~Opening
  BY ReadyFacts DEF BusInv, MasterInv, MasterTypes, RecvResponse
<1>2. master'.order = "start" /\ master'.cmd = master.cmd
  BY <1>1 DEF RecvResponse, _twi_send, MasterFields
<1>3. AskedTrust(s)'
  BY <1>1, <1>2, MasterAsked DEF TrustInv, Asked, RecvResponse, history
<1> QED
  BY <1>2, <1>3 DEF TrustInv, FetchedTrust, Opening

LEMMA ReturnTrust == ASSUME NEW s \in Slave, BusInv, Return PROVE TrustInv(s)'
<1>1. master'.pc = "idle"
  BY DEF Return, BusInv, MasterInv, MasterTypes, MasterFields
<1> QED
  BY <1>1, NothingAsked DEF Asked

\* The commands' transfers: the answer is not being fetched.
LEMMA SendTrust ==
    ASSUME NEW s \in Slave, BusInv, TrustInv(s), IsrSend \/ IsrSent,
           UNCHANGED <<slave, phase, linked, owed, answer>>
    PROVE  TrustInv(s)'
<1>1. DOMAIN master = MasterFields /\ MasterInv
  BY DEF BusInv, MasterInv, MasterTypes
<1>2. master'.pc = master.pc /\ master'.cmd = master.cmd
  BY <1>1, StopFacts, ZenonT(40) DEF IsrSend, IsrSent, MasterFields
<1>3. Asked' <=> Asked
  BY <1>1, IsrSendMaster, IsrSentMaster DEF SameView
<1>4. master'.pc # "wait" \/ Opening'
  <2>1. CASE IsrSent
    BY <1>1, <1>2, <2>1, IsrSentMaster DEF CommandOut
  <2>2. CASE IsrSend /\ master.twint = "START"
    <3>1. phase = "sla" /\ master'.order = "send"
      BY <1>1, <2>2 DEF IsrSend, MasterInv, PhaseInv, MasterFields
    <3> QED
      BY <3>1 DEF Opening
  <2>3. CASE IsrSend /\ master.twint # "START"
    <3>1. Sending
      BY <1>1, <2>3 DEF IsrSend, Sending, MasterInv, PhaseInv
    <3> QED
      BY <1>1, <1>2, <3>1 DEF MasterInv, SendingInv, CommandOut
  <2> QED
    BY <2>1, <2>2, <2>3
<1>5. AskedTrust(s)'
  BY <1>2, <1>3, MasterAsked DEF TrustInv
<1> QED
  BY <1>4, <1>5 DEF TrustInv, FetchedTrust

\* The byte that is stored is the next one of the answer.
LEMMA StoredTrust ==
    ASSUME NEW s \in Slave, BusInv, FetchedFrom(s), Fetching,
           master.twint \in {"MR_DATA_ACK", "MR_DATA_NACK"}
    PROVE  /\ Stored(master).rxi = master.rxi + 1
           /\ Len(Stored(master).rx) = Len(master.rx)
           /\ \A i \in 1 .. master.rxi + 1 : Stored(master).rx[i] = answer[s][i]
<1>1. /\ DOMAIN master = MasterFields /\ master.rx \in Seq(Int) /\ master.rxi \in Nat
      /\ master.twdr \in Int /\ master.rxi < Len(master.rx)
  BY NothingAssumption
     DEF BusInv, MasterInv, MasterTypes, FetchingInv, Orders, MasterStatuses
<1>2. /\ Stored(master).rx = [master.rx EXCEPT ![master.rxi + 1] = master.twdr]
      /\ Stored(master).rxi = master.rxi + 1 /\ Len(Stored(master).rx) = Len(master.rx)
  BY <1>1, StoredFacts
<1>3. DOMAIN master.rx = 1 .. Len(master.rx)
  BY <1>1
<1>4. \A i \in 1 .. master.rxi + 1 : Stored(master).rx[i] = answer[s][i]
  BY <1>1, <1>2, <1>3, SMTT(40) DEF FetchedFrom
<1> QED
  BY <1>2, <1>4

LEMMA ReceiveTrust ==
    ASSUME NEW s \in Slave, BusInv, TrustInv(s), IsrReceive,
           UNCHANGED <<slave, phase, linked, owed, answer>>
    PROVE  TrustInv(s)'
<1> DEFINE m == IF master.twint = "MR_DATA_ACK" THEN Stored(master) ELSE master
<1>1. /\ DOMAIN master = MasterFields /\ MasterInv /\ master.pc = "wait" /\ Fetching
      /\ ~Opening /\ master.order = Nothing
      /\ master.twint = "MR_SLA_ACK" => master.rxi = 0
      /\ master.rx \in Seq(Int) /\ master.rxi \in Nat /\ master.twdr \in Int
      /\ master.twint = "MR_DATA_ACK" => master.rxi < Len(master.rx)
  BY NothingAssumption
     DEF IsrReceive, BusInv, MasterInv, MasterTypes, FetchingInv, Fetching, Opening, Orders,
         MasterStatuses
<1>2. /\ DOMAIN m = MasterFields /\ m.pc = "wait" /\ m.cmd = master.cmd
  BY <1>1, StoredFacts
<1>3. master' = [m EXCEPT !.mode = "RECEIVING", !.twint = Nothing,
                          !.order = IF m.rxi < Len(m.rx) - 1 THEN "ack" ELSE "nak"]
  BY DEF IsrReceive
<1>4. HasOwnAddress(s) => \A i \in 1 .. m.rxi : m.rx[i] = answer[s][i]
  <2> SUFFICES ASSUME HasOwnAddress(s) PROVE \A i \in 1 .. m.rxi : m.rx[i] = answer[s][i]
    OBVIOUS
  <2>1. FetchedFrom(s)
    BY <1>1 DEF TrustInv, FetchedTrust
  <2>2. CASE master.twint = "MR_DATA_ACK"
    BY <1>1, <2>1, <2>2, StoredTrust
  <2>3. CASE master.twint # "MR_DATA_ACK"
    BY <2>1, <2>3 DEF FetchedFrom
  <2> QED
    BY <2>2, <2>3
<1>5. master.twint # "MR_DATA_NACK"
  BY DEF IsrReceive
<1> HIDE DEF m
<1>6. /\ master'.pc = "wait" /\ master'.cmd = master.cmd
      /\ master'.rx = m.rx /\ master'.rxi = m.rxi
      /\ master'.order \in {"ack", "nak"} /\ master'.twint = Nothing
  BY <1>2, <1>3 DEF MasterFields
<1>7. ~Opening' /\ Fetching' /\ ~Asked'
  BY <1>1, <1>6, NothingAssumption DEF Opening, Fetching, Asked, Orders, MasterStatuses
<1>8. ASSUME HasOwnAddress(s) PROVE FetchedFrom(s)'
  <2>1. FetchedFrom(s)
    BY <1>1, <1>8 DEF TrustInv, FetchedTrust
  <2>2. linked = {s} /\ Prepared(s)
        /\ (slave[s].twint = Nothing => slave[s].twdr = answer[s][slave[s].txi])
    BY <1>1, <1>5, <2>1 DEF FetchedFrom
  <2>3. linked' = {s} /\ Prepared(s)'
        /\ (slave'[s].twint = Nothing => slave'[s].twdr = answer'[s][slave'[s].txi])
    BY <2>2 DEF Prepared
  <2>4. master'.twint \notin {"MR_DATA_ACK", "MR_DATA_NACK"}
    BY <1>6, NothingAssumption DEF MasterStatuses
  <2> QED
    BY <1>4, <1>6, <1>7, <1>8, <2>3, <2>4 DEF FetchedFrom
<1>9. Len(answer[s]) = AnswerSize(master.cmd)
  BY <1>1 DEF TrustInv, FetchedTrust
<1> QED
  BY <1>6, <1>7, <1>8, <1>9, SameAddresses DEF TrustInv, AskedTrust, FetchedTrust

LEMMA ReceivedTrust ==
    ASSUME NEW s \in Slave, BusInv, TrustInv(s), IsrReceived,
           UNCHANGED <<slave, phase, linked, owed, answer>>
    PROVE  TrustInv(s)'
<1>1. /\ DOMAIN master = MasterFields /\ MasterInv /\ master.pc = "wait" /\ Fetching
      /\ ~Opening /\ master.order = Nothing /\ master.twint = "MR_DATA_NACK"
      /\ master.rx \in Seq(Int) /\ master.rxi \in Nat /\ master.twdr \in Int
      /\ master.rxi = Len(master.rx) - 1
  BY NothingAssumption
     DEF IsrReceived, BusInv, MasterInv, MasterTypes, FetchingInv, Fetching, Opening,
         Orders, MasterStatuses
<1>2. master.rxi < Len(master.rx)
  BY <1>1
<1>3. /\ DOMAIN Stored(master) = MasterFields
      /\ Stored(master).pc = "wait" /\ Stored(master).cmd = master.cmd
      /\ Stored(master).rxi = master.rxi + 1 /\ Len(Stored(master).rx) = Len(master.rx)
  BY <1>1, <1>2, StoredFacts
<1>4. /\ master'.pc = "wait" /\ master'.cmd = master.cmd
      /\ master'.rx = Stored(master).rx /\ master'.rxi = master.rxi + 1
      /\ master'.order = "stop" /\ master'.twint = Nothing
  BY <1>3, StopFacts DEF IsrReceived
<1>5. ~Opening' /\ ~Fetching' /\ ~Asked'
  BY <1>1, <1>4, NothingAssumption DEF Opening, Fetching, Asked, Orders, MasterStatuses
<1>6. master'.rxi = Len(master'.rx)
  BY <1>1, <1>3, <1>4
<1>7. ASSUME HasOwnAddress(s) PROVE FetchedFrom(s)'
  <2>1. FetchedFrom(s)
    BY <1>1, <1>7 DEF TrustInv, FetchedTrust
  <2>2. \A i \in 1 .. master.rxi + 1 : Stored(master).rx[i] = answer[s][i]
    BY <1>1, <2>1, StoredTrust
  <2> QED
    BY <1>4, <1>5, <1>6, <2>2 DEF FetchedFrom
<1>8. Len(answer[s]) = AnswerSize(master.cmd)
  BY <1>1 DEF TrustInv, FetchedTrust
<1> QED
  BY <1>4, <1>5, <1>7, <1>8, SameAddresses DEF TrustInv, AskedTrust, FetchedTrust

\* The end of a transfer in which nothing is fetched.
LEMMA ErrorTrust ==
    ASSUME NEW s \in Slave, BusInv, TrustInv(s), IsrError,
           UNCHANGED <<slave, phase, linked, owed, answer>>
    PROVE  TrustInv(s)'
<1>1. /\ DOMAIN master = MasterFields /\ MasterInv /\ master.order = Nothing
      /\ master.twint \in {"MR_SLA_NACK", "MT_SLA_NACK", "MT_DATA_NACK"}
  BY NothingAssumption
     DEF IsrError, BusInv, MasterInv, MasterTypes, Orders, MasterStatuses
<1>2. /\ master'.pc = master.pc /\ master'.cmd = master.cmd
      /\ master'.rx = master.rx /\ master'.rxi = master.rxi
      /\ master'.order = "stop" /\ master'.twint = Nothing
  BY <1>1, StopFacts DEF IsrError
<1>3. ~Opening /\ ~Opening' /\ ~Fetching /\ ~Fetching'
  BY <1>1, <1>2, NothingAssumption DEF Opening, Fetching, Orders, MasterStatuses
<1>4. AskedTrust(s)'
  BY <1>2, <1>3, MasterAsked DEF TrustInv, Asked
<1>5. FetchedFrom(s) => FetchedFrom(s)'
  BY <1>2, <1>3 DEF FetchedFrom
<1> QED
  BY <1>2, <1>3, <1>4, <1>5, SameAddresses DEF TrustInv, FetchedTrust

LEMMA MasterIsrTrust ==
    ASSUME NEW s \in Slave, BusInv, TrustInv(s), MasterIsr PROVE TrustInv(s)'
BY SendTrust, ReceiveTrust, ReceivedTrust, ErrorTrust DEF MasterIsr, history

-----------------------------------------------------------------------------
(* The bus's steps *)

\* What a step of the bus does to slave s: at most a status and a byte, if it is linked.
Raised(s) == \/ slave'[s] = slave[s]
             \/ /\ s \in linked
                /\ \E status, byte :
                       slave'[s] = [slave[s] EXCEPT !.twint = status, !.twdr = byte]

LEMMA RaisedKeeps ==
    ASSUME BusInv, NEW s \in Slave, Raised(s)
    PROVE  /\ slave'[s].pc = slave[s].pc /\ slave'[s].twar = slave[s].twar
           /\ slave'[s].tx = slave[s].tx /\ slave'[s].txi = slave[s].txi
           /\ slave'[s].response = slave[s].response
           /\ s \notin linked => slave'[s] = slave[s]
<1>1. DOMAIN slave[s] = Fields
  BY DEF BusInv, SlaveInv, SlaveTypes
<1> QED
  BY <1>1 DEF Raised, Fields

LEMMA RaisedAsked ==
    ASSUME BusInv, NEW s \in Slave, AskedTrust(s), Raised(s), linked' \subseteq linked,
           Asked' => Asked, master'.cmd = master.cmd, UNCHANGED <<owed, answer>>
    PROVE  AskedTrust(s)'
<1>1. LinkInv(s)
  BY DEF BusInv, SlaveInv
<1>2. Prepared(s) => Prepared(s)'
  BY RaisedKeeps DEF Prepared
<1>3. Waiting(s) => Waiting(s)'
  BY RaisedKeeps DEF Waiting
<1>4. Asks(s) /\ Asked' => Asks(s)'
  BY RaisedKeeps DEF Asks
<1>5. AnswerComes(s) => AnswerComes(s)'
  BY <1>2, <1>3, RaisedKeeps DEF AnswerComes
<1> QED
  BY <1>4, <1>5 DEF AskedTrust

LEMMA EndedRaises ==
    ASSUME NEW s \in Slave, slave' = Ended PROVE Raised(s)
BY DEF Ended, Raise, Raised

LEMMA BusStartTrust ==
    ASSUME NEW s \in Slave, BusInv, TrustInv(s), BusStart PROVE TrustInv(s)'
<1>1. MasterInv
  BY DEF BusInv
<1>2. Opening' /\ (Asked' <=> Asked) /\ master'.cmd = master.cmd
  BY <1>1, BusStartMaster
<1>3. slave' = Ended /\ linked' = {} /\ UNCHANGED <<owed, answer>>
  BY DEF BusStart, history
<1>4. AskedTrust(s)'
  BY <1>2, <1>3, EndedRaises, RaisedAsked DEF TrustInv
<1> QED
  BY <1>2, <1>4 DEF TrustInv, FetchedTrust

LEMMA BusStopTrust ==
    ASSUME NEW s \in Slave, BusInv, TrustInv(s), BusStop PROVE TrustInv(s)'
<1>1. /\ DOMAIN master = MasterFields /\ master.order = "stop"
      /\ master.twint = Nothing
  BY NothingAssumption DEF BusStop, BusInv, MasterInv, MasterTypes, Orders
<1>2. /\ master'.pc = master.pc /\ master'.cmd = master.cmd
      /\ master'.rx = master.rx /\ master'.rxi = master.rxi
      /\ master'.order = Nothing /\ master'.twint = Nothing
  BY <1>1, DoneFacts DEF BusStop
<1>3. ~Opening /\ ~Opening' /\ ~Fetching /\ ~Fetching'
  BY <1>1, <1>2, NothingAssumption DEF Opening, Fetching, Orders, MasterStatuses
<1>4. slave' = Ended /\ linked' = {} /\ UNCHANGED <<owed, answer>>
  BY DEF BusStop, history
<1>5. AskedTrust(s)'
  BY <1>2, <1>3, <1>4, EndedRaises, RaisedAsked DEF TrustInv, Asked
<1>6. FetchedFrom(s) => FetchedFrom(s)'
  BY <1>2, <1>3, <1>4 DEF FetchedFrom
<1>7. \A t \in Slave : slave'[t].twar = slave[t].twar
  BY <1>4, EndedRaises, RaisedKeeps
<1> QED
  BY <1>2, <1>3, <1>4, <1>5, <1>6, <1>7, SameAddresses DEF TrustInv, FetchedTrust

LEMMA BusWriteTrust ==
    ASSUME NEW s \in Slave, BusInv, TrustInv(s), BusWrite PROVE TrustInv(s)'
<1>1. /\ Sending /\ CommandOut /\ (Asked' <=> Asked)
      /\ master'.pc = master.pc /\ master'.cmd = master.cmd /\ linked' = linked
  BY BusWriteMaster DEF BusInv, MasterInv, SendingInv
<1>2. master'.pc # "wait"
  BY <1>1 DEF CommandOut
<1>3. Raised(s) /\ UNCHANGED <<owed, answer>>
  BY DEF BusWrite, Raise, Raised, history
<1>4. AskedTrust(s)'
  BY <1>1, <1>3, RaisedAsked DEF TrustInv
<1> QED
  BY <1>2, <1>4 DEF TrustInv, FetchedTrust

\* Whoever is trusted with a command is the one to be asked, and will carry it out.
LEMMA AddressWriteTrust ==
    ASSUME NEW s \in trusted', BusInv, BusInv', BusAddress, AddressWrite
    PROVE  TrustInv(s)'
<1>1. /\ CommandOut /\ master'.pc = master.pc /\ master'.cmd = master.cmd
      /\ Address = master.cmd.to % 128 /\ linked' \subseteq Slave
  BY AddressWriteMaster DEF BusInv
<1>2. s \in linked' /\ Address # 0 /\ ~credit[s] /\ s \in Slave
  BY <1>1 DEF AddressWrite
<1>3. owed'[s] = Folded(master.cmd) /\ ~credit'[s]
  BY <1>2 DEF AddressWrite
<1>4. owed'[s] # Nothing
  BY <1>1, <1>3, RequestFacts DEF CommandOut
<1>5. slave'[s].pc = "wait"
  <2>1. OwedInv(s)'
    BY <1>2 DEF BusInv, SlaveInv
  <2> QED
    BY <1>3, <1>4, <2>1 DEF OwedInv
<1>6. slave'[s].twar = Address
  <2>1. DOMAIN slave[s] = Fields /\ slave[s].twar = Address
    BY <1>2 DEF BusInv, SlaveInv, SlaveTypes, AddressWrite, Listeners
  <2>2. slave'[s] = [slave[s] EXCEPT !.twint = IF Address = 0 THEN "SR_GCALL_ACK"
                                               ELSE "SR_SLA_ACK", !.twdr = 0]
    BY <1>2 DEF AddressWrite, Raise
  <2> QED
    BY <2>1, <2>2 DEF Fields
<1>7. master'.pc # "wait"
  BY <1>1 DEF CommandOut
<1> QED
  BY <1>1, <1>4, <1>5, <1>6, <1>7
     DEF TrustInv, AskedTrust, FetchedTrust, Asks, AnswerComes

\* The slave that is asked for its answer has prepared it.
LEMMA AddressReadTrust ==
    ASSUME NEW s \in Slave, BusInv, TrustInv(s), BusAddress, AddressRead
    PROVE  TrustInv(s)'
<1>1. /\ Asked /\ ~Asked' /\ master'.pc = "wait" /\ master'.cmd = master.cmd
      /\ Address = master.cmd.to % 128 /\ linked = {}
      /\ master'.rx = master.rx /\ master'.rxi = 0
      /\ master'.twint = (IF linked' = {} THEN "MR_SLA_NACK" ELSE "MR_SLA_ACK")
      /\ (Fetching' <=> linked' # {})
  BY AddressReadMaster DEF BusInv
<1>2. /\ linked' = Listeners /\ slave' = Raise(linked', "ST_SLA_ACK", 0)
      /\ UNCHANGED <<owed, answer>> /\ Released
  BY DEF BusAddress, AddressRead, history
<1>3. ASSUME NEW t \in Slave
      PROVE  /\ slave'[t].twar = slave[t].twar /\ slave'[t].tx = slave[t].tx
             /\ t \in linked' => slave'[t].twint = "ST_SLA_ACK"
  <2>1. DOMAIN slave[t] = Fields
    BY DEF BusInv, SlaveInv, SlaveTypes
  <2>2. slave'[t] = IF t \in linked'
                    THEN [slave[t] EXCEPT !.twint = "ST_SLA_ACK", !.twdr = 0]
                    ELSE slave[t]
    BY <1>2 DEF Raise
  <2> QED
    BY <2>1, <2>2 DEF Fields
<1>4. Asks(s) /\ Waiting(s) /\ Prepared(s) /\ Len(answer[s]) = AnswerSize(master.cmd)
  <2>1. Asks(s) /\ AnswerComes(s)
    BY <1>1 DEF TrustInv, AskedTrust
  <2>2. owed[s] = Nothing /\ slave[s].pc \in {"recv", "wait"}
    BY <1>1, <1>2, AllDoneThen
  <2> QED
    BY <2>1, <2>2 DEF AnswerComes
<1>5. ASSUME HasOwnAddress(s) PROVE FetchedFrom(s)'
  <2>1. linked' = {s}
    BY <1>1, <1>2, <1>4, <1>5 DEF Listeners, Asks, Waiting, HasOwnAddress
  <2>2. Prepared(s)'
    BY <1>2, <1>3, <1>4 DEF Prepared
  <2>3. slave'[s].twint # Nothing
    BY <1>3, <2>1, NothingAssumption DEF SlaveStatuses
  <2>4. Fetching' /\ master'.twint = "MR_SLA_ACK"
    BY <1>1, <2>1
  <2>5. 1 .. master'.rxi = {}
    BY <1>1
  <2> QED
    BY <2>1, <2>2, <2>3, <2>4, <2>5 DEF FetchedFrom
<1>6. HasOwnAddress(s)' <=> HasOwnAddress(s)
  BY <1>3, SameAddresses
<1> QED
  BY <1>1, <1>2, <1>4, <1>5, <1>6 DEF TrustInv, AskedTrust, FetchedTrust

\* The byte that is taken is the one the slave offers.
LEMMA BusReadTrust ==
    ASSUME NEW s \in Slave, BusInv, TrustInv(s), BusRead PROVE TrustInv(s)'
<1>1. /\ DOMAIN master = MasterFields /\ MasterInv /\ phase = "read" /\ Released
      /\ master.order \in {"ack", "nak"} /\ master.twint = Nothing
      /\ UNCHANGED <<owed, answer>>
  BY NothingAssumption DEF BusRead, BusInv, MasterInv, MasterTypes, Orders, history
<1>2. Fetching /\ ~Opening /\ master.pc = "wait" /\ Fetched = master.rxi
  BY <1>1, NothingAssumption
     DEF Fetching, Opening, Fetched, MasterInv, FetchingInv, Orders, MasterStatuses
<1>3. /\ master'.pc = "wait" /\ master'.cmd = master.cmd
      /\ master'.rx = master.rx /\ master'.rxi = master.rxi
      /\ master'.order = Nothing /\ master'.twdr = Driven
      /\ \/ /\ master'.twint = "MR_DATA_ACK" /\ linked' = linked
            /\ slave' = Raise(linked, "ST_DATA_ACK", 0)
         \/ /\ master'.twint = "MR_DATA_NACK" /\ linked' = {}
            /\ slave' = Raise(linked, "ST_DATA_NACK", 0)
  <2>1. \E status \in {"MR_DATA_ACK", "MR_DATA_NACK"} :
            /\ master' = [Done(status) EXCEPT !.twdr = Driven]
            /\ \/ /\ status = "MR_DATA_ACK" /\ linked' = linked
                  /\ slave' = Raise(linked, "ST_DATA_ACK", 0)
               \/ /\ status = "MR_DATA_NACK" /\ linked' = {}
                  /\ slave' = Raise(linked, "ST_DATA_NACK", 0)
    BY DEF BusRead
  <2>2. \A status : LET d == Done(status) IN
            /\ DOMAIN d = MasterFields /\ d.pc = master.pc /\ d.cmd = master.cmd
            /\ d.rx = master.rx /\ d.rxi = master.rxi /\ d.order = Nothing
            /\ d.twint = status
    BY <1>1, DoneFacts
  <2> QED
    BY <1>2, <2>1, <2>2 DEF MasterFields
<1>4. ~Opening' /\ Fetching' /\ ~Asked'
  BY <1>3, NothingAssumption DEF Opening, Fetching, Asked, Orders, MasterStatuses
<1>5. ASSUME NEW t \in Slave PROVE Raised(t)
  <2>1. PICK status : slave' = Raise(linked, status, 0)
    BY <1>3
  <2> QED
    BY <2>1 DEF Raise, Raised
<1>6. HasOwnAddress(s)' <=> HasOwnAddress(s)
  BY <1>5, RaisedKeeps, SameAddresses
<1>7. ASSUME HasOwnAddress(s) PROVE FetchedFrom(s)'
  <2>1. FetchedFrom(s)
    BY <1>2, <1>7 DEF TrustInv, FetchedTrust
  <2>2. linked = {s} /\ Prepared(s) /\ slave[s].twdr = answer[s][slave[s].txi]
    BY <1>1, <1>2, <2>1, NothingAssumption DEF FetchedFrom, Released, MasterStatuses
  <2>3. slave[s].txi = master.rxi + 1
    BY <1>1, <1>2, <2>2 DEF BusInv, SlaveInv, TxInv, Read, Released
  <2>4. Driven = slave[s].twdr
    <3>1. {slave[t].twdr : t \in linked} = {slave[s].twdr}
      BY <2>2
    <3> QED
      BY <3>1 DEF Driven
  <2>5. Prepared(s)'
    BY <1>1, <1>5, <2>2, RaisedKeeps DEF Prepared
  <2>6. s \in linked' => slave'[s].twint # Nothing
    <3>1. DOMAIN slave[s] = Fields
      BY DEF BusInv, SlaveInv, SlaveTypes
    <3>2. s \in linked' => slave'[s] = [slave[s] EXCEPT !.twint = "ST_DATA_ACK", !.twdr = 0]
      BY <1>3, <2>2 DEF Raise
    <3> QED
      BY <3>1, <3>2, NothingAssumption DEF Fields, SlaveStatuses
  <2>7. linked' = IF master'.twint = "MR_DATA_NACK" THEN {} ELSE {s}
    BY <1>3, <2>2
  <2>8. master'.twdr = answer'[s][master'.rxi + 1]
    BY <1>1, <1>3, <2>2, <2>3, <2>4
  <2>9. \A i \in 1 .. master'.rxi : master'.rx[i] = answer'[s][i]
    BY <1>1, <1>3, <2>1 DEF FetchedFrom
  <2> QED
    BY <1>4, <2>5, <2>6, <2>7, <2>8, <2>9 DEF FetchedFrom
<1>8. Len(answer[s]) = AnswerSize(master.cmd)
  BY <1>2 DEF TrustInv, FetchedTrust
<1> QED
  BY <1>1, <1>3, <1>4, <1>6, <1>7, <1>8 DEF TrustInv, AskedTrust, FetchedTrust

-----------------------------------------------------------------------------
(* The slaves' steps *)

\* While an answer is asked for or fetched, no slave changes its address.
LEMMA SteadyAddresses ==
    ASSUME BusInv, Asked \/ master.pc = "wait",
           \A t \in Slave : slave'[t].twar = slave[t].twar \/ slave[t].pc = "init"
                            \/ slave'[t].twar = slave[t].eeprom
    PROVE  \A t \in Slave : slave'[t].twar = slave[t].twar
BY DEF BusInv, SlaveInv, SlaveTypes, TxInv

\* A step of another slave.
LEMMA OtherTrust ==
    ASSUME BusInv, NEW t \in Slave, NEW s \in Slave \ {t}, TrustInv(s),
           UNCHANGED <<master, phase>>, linked' = linked \/ linked' = linked \ {t},
           slave'[s] = slave[s], owed'[s] = owed[s], answer'[s] = answer[s],
           \A u \in Slave : slave'[u].twar = slave[u].twar \/ slave[u].pc = "init"
                            \/ slave'[u].twar = slave[u].eeprom
    PROVE  TrustInv(s)'
<1>1. /\ (Opening' <=> Opening) /\ (Fetching' <=> Fetching) /\ (Asked' <=> Asked)
  BY SameMaster
<1>2. s \in linked' <=> s \in linked
  OBVIOUS
<1>3. Prepared(s)' <=> Prepared(s)
  BY DEF Prepared
<1>4. AskedTrust(s)'
  BY <1>1, <1>2, <1>3 DEF TrustInv, AskedTrust, Asks, AnswerComes, Waiting
<1>5. ASSUME master.pc = "wait", ~Opening, HasOwnAddress(s)' PROVE FetchedFrom(s)'
  <2>1. HasOwnAddress(s)
    BY <1>5, SteadyAddresses, SameAddresses
  <2>2. FetchedFrom(s)
    BY <1>5, <2>1 DEF TrustInv, FetchedTrust
  <2>3. linked = {} \/ linked = {s} => linked' = linked
    OBVIOUS
  <2> QED
    BY <1>1, <1>2, <1>3, <2>2, <2>3 DEF FetchedFrom
<1> QED
  BY <1>1, <1>4, <1>5 DEF TrustInv, FetchedTrust

\* A step of the slave itself: what is still to be shown of it.
LEMMA OwnTrust ==
    ASSUME BusInv, NEW s \in Slave, TrustInv(s), AskedTrust(s)',
           UNCHANGED <<master, phase, linked>>,
           \A u \in Slave : slave'[u].twar = slave[u].twar \/ slave[u].pc = "init",
           master.pc = "wait" /\ ~Opening => answer'[s] = answer[s],
           s \in linked /\ Fetching /\ FetchedFrom(s) =>
               /\ slave'[s].tx = slave[s].tx
               /\ slave'[s].twint = Nothing => slave'[s].twdr = answer[s][slave'[s].txi]
    PROVE  TrustInv(s)'
<1>1. (Opening' <=> Opening) /\ (Fetching' <=> Fetching)
  BY SameMaster
<1>2. ASSUME master.pc = "wait", ~Opening, HasOwnAddress(s)' PROVE FetchedFrom(s)'
  <2>1. HasOwnAddress(s)
    BY <1>2, SteadyAddresses, SameAddresses
  <2>2. FetchedFrom(s)
    BY <1>2, <2>1 DEF TrustInv, FetchedTrust
  <2> QED
    BY <1>1, <1>2, <2>2 DEF FetchedFrom, Prepared
<1> QED
  BY <1>1, <1>2 DEF TrustInv, FetchedTrust

LEMMA SlaveIsrTrust ==
    ASSUME NEW s \in Slave, BusInv, TrustInv(s), SlaveIsr(s) PROVE TrustInv(s)'
<1> DEFINE v == slave[s]
           w == slave'[s]
<1>1. /\ DOMAIN slave = Slave /\ DOMAIN v = Fields /\ SlaveInv(s) /\ v.armed
      /\ UNCHANGED <<master, phase, linked, owed, answer>>
  BY DEF BusInv, SlaveInv, SlaveTypes, SlaveIsr, history
<1>2. \A t \in Slave \ {s} : slave'[t] = slave[t]
  BY <1>1 DEF SlaveIsr
<1>3. v.twint # Nothing
  BY NothingAssumption DEF SlaveIsr, SlaveStatuses
<1>4. w.pc = v.pc /\ w.twar = v.twar /\ w.tx = v.tx
  <2>1. ASSUME NEW u \in {IsrAddressed(v), IsrStore(v), IsrTransmit(v), IsrEnd(v)}
        PROVE  u.pc = v.pc /\ u.twar = v.twar /\ u.tx = v.tx
    BY <1>1 DEF IsrAddressed, IsrStore, IsrTransmit, IsrEnd, twi_ack, twi_enable, Fields
  <2>2. w \in {IsrAddressed(v), IsrStore(v), IsrTransmit(v), IsrEnd(v)}
    BY <1>1 DEF SlaveIsr
  <2> QED
    BY <2>1, <2>2
<1>5. AskedTrust(s)'
  <2>1. (Asked' <=> Asked) /\ (Asks(s) => Asks(s)')
    BY <1>1, <1>4, SameMaster DEF Asks
  <2>2. Asked => v.pc = "wait" /\ owed[s] # Nothing
    BY <1>1, <1>3 DEF TrustInv, AskedTrust, AnswerComes, Waiting, SlaveInv, LinkInv
  <2> QED
    BY <1>1, <1>4, <2>1, <2>2 DEF TrustInv, AskedTrust, AnswerComes
<1>6. ASSUME s \in linked, Fetching, FetchedFrom(s) PROVE w.twdr = answer[s][w.txi]
  <2>1. phase = "read" /\ master.pc = "wait" /\ ~Opening /\ MasterInv
    BY <1>6, NothingAssumption
       DEF BusInv, MasterInv, MasterTypes, FetchingInv, Fetching, Opening, Orders,
           MasterStatuses
  <2>2. v.twint \in {"ST_SLA_ACK", "ST_DATA_ACK"}
    BY <1>1, <1>3, <1>6, <2>1 DEF SlaveInv, SlaveTypes, LinkInv, Written, SlaveStatuses
  <2>3. w.twdr = v.tx[v.txi] /\ w.txi = v.txi + 1
    <3>1. w = IsrTransmit(v)
      BY <1>1, <2>2 DEF SlaveIsr
    <3>2. IsrTransmit(v).twdr = v.tx[v.txi] /\ IsrTransmit(v).txi = v.txi + 1
      BY <1>1 DEF IsrTransmit, twi_ack, Fields
    <3> QED
      BY <3>1, <3>2
  <2>4. v.txi = Fetched /\ Fetched \in 0 .. 1
    BY <1>1, <1>3, <1>6, <2>1, FetchedRange DEF SlaveInv, TxInv, Read
  <2>5. Fetched + 1 <= Len(answer[s])
    <3>1. Len(answer[s]) = Len(master.rx) /\ master.rx \in Seq(Int) /\ master.rxi \in 0 .. 2
      BY <2>1 DEF TrustInv, FetchedTrust, MasterInv, MasterTypes
    <3>2. master.twint # "MR_DATA_NACK"
      BY <1>6, <2>1, FetchedRange
    <3>3. /\ master.order = "ack" \/ master.twint = "MR_DATA_ACK"
                 => master.rxi < Len(master.rx) - 1
          /\ master.order = "nak" => master.rxi = Len(master.rx) - 1
          /\ master.twint = "MR_SLA_ACK" => master.rxi = 0
      BY <1>6, <2>1 DEF MasterInv, FetchingInv
    <3>4. Len(master.rx) \in 1 .. 2
      <4>1. Len(master.rx) = AnswerSize(master.cmd)
        BY <2>1 DEF MasterInv, MasterTypes
      <4> QED
        BY <4>1 DEF AnswerSize
    <3>5. CASE master.twint = "MR_DATA_ACK"
      BY <3>1, <3>3, <3>4, <3>5 DEF Fetched
    <3>6. CASE master.twint # "MR_DATA_ACK"
      <4>1. Fetched = master.rxi
        BY <3>6 DEF Fetched
      <4>2. master.order \in {"ack", "nak"} \/ master.twint = "MR_SLA_ACK"
        BY <1>6, <3>2, <3>6 DEF Fetching
      <4>3. PICK size \in 1 .. 2 : Len(master.rx) = size /\ Len(answer[s]) = size
        BY <3>1, <3>4
      <4>4. master.rxi + 1 <= size
        BY <3>1, <3>3, <4>2, <4>3
      <4> QED
        BY <4>1, <4>3, <4>4
    <3> QED
      BY <3>5, <3>6
  <2>6. /\ v.txi + 1 \in 1 .. Len(answer[s]) /\ (v.txi + 1) - 1 = v.txi
    <3>1. Len(answer[s]) = Len(master.rx) /\ master.rx \in Seq(Int)
      BY <2>1 DEF TrustInv, FetchedTrust, MasterInv, MasterTypes
    <3> QED
      BY <2>4, <2>5, <3>1
  <2> QED
    BY <1>6, <2>3, <2>6 DEF FetchedFrom, Prepared
<1>7. \A u \in Slave : slave'[u].twar = slave[u].twar \/ slave[u].pc = "init"
  BY <1>2, <1>4
<1> QED
  BY <1>1, <1>4, <1>5, <1>6, <1>7, OwnTrust

LEMMA RecvTrust ==
    ASSUME NEW s \in Slave, BusInv, TrustInv(s), Recv(s) PROVE AskedTrust(s)'
<1>1. slave[s].pc = "recv" /\ ~slave[s].armed /\ UNCHANGED <<master, phase>>
  BY ReadyMeansOff DEF BusInv, Recv
<1>2. ~Asked
  BY <1>1 DEF TrustInv, AskedTrust, AnswerComes, Waiting
<1> QED
  BY <1>1, <1>2, SameMaster DEF AskedTrust

LEMMA IgnoreTrust ==
    ASSUME NEW s \in Slave, BusInv, TrustInv(s), Ignore(s) PROVE AskedTrust(s)'
<1> DEFINE v == slave[s]
<1>1. /\ v.pc = "wait" /\ ~v.armed /\ UNCHANGED <<master, phase>> /\ ~command_isvalid(v)
      /\ SlaveInv(s)
  BY ReadyMeansOff DEF BusInv, Ignore
<1>2. ASSUME Asked PROVE FALSE
  <2>1. owed[s] # Nothing
    BY <1>1, <1>2 DEF TrustInv, AskedTrust, AnswerComes, Waiting
  <2>2. v.rxi = Len(Body(owed[s])) /\ v.rx[0] = Body(owed[s])[1] /\ Question(owed[s])
    BY <1>1, <1>2, <2>1, WholeCommand, AskedQuestion
  <2>3. command_isvalid(v)
    BY <2>2, BodyBytes DEF Question, command_isvalid
  <2> QED
    BY <1>1, <2>3
<1> QED
  BY <1>1, <1>2, SameMaster DEF AskedTrust

LEMMA ExecuteTrust ==
    ASSUME NEW s \in Slave, BusInv, TrustInv(s), Execute(s), DOMAIN answer = Slave
    PROVE  AskedTrust(s)'
<1> DEFINE v == slave[s]
           w == slave'[s]
           c == owed[s]
<1>1. /\ SlaveInv(s) /\ DOMAIN slave = Slave /\ DOMAIN v = Fields /\ c # Nothing
      /\ UNCHANGED <<master, phase, linked>> /\ Effect(s)
  BY ExecuteFacts DEF Execute
<1> SUFFICES ASSUME Asked PROVE Asks(s)' /\ AnswerComes(s)'
  BY <1>1, SameMaster DEF AskedTrust
<1>2. /\ master.cmd \in Request /\ Question(master.cmd) /\ c = Folded(master.cmd)
  BY <1>1 DEF BusInv, MasterInv, MasterTypes, Asked, SlaveInv, OwedInv
<1>3. c.op = master.cmd.op
  BY <1>2, RequestFacts
<1>4. PICK bytes : Answer(s, bytes) /\ Len(bytes) = AnswerSize(master.cmd)
  <2>1. CASE master.cmd.op = "get"
    <3>1. v.rx[0] = 0
      BY <1>3, <2>1, ValidIsWhole
    <3>2. PICK rpm \in Sample : Answer(s, <<Low(rpm), High(rpm)>>)
      BY <1>1, <3>1 DEF Effect
    <3>3. Len(<<Low(rpm), High(rpm)>>) = AnswerSize(master.cmd)
      BY <2>1 DEF AnswerSize
    <3> QED
      BY <3>2, <3>3
  <2>2. CASE master.cmd.op = "ping"
    <3>1. v.rx[0] = 3
      BY <1>3, <2>2, ValidIsWhole
    <3>2. Answer(s, <<v.rx[1]>>)
      BY <1>1, <3>1 DEF Effect
    <3>3. Len(<<v.rx[1]>>) = AnswerSize(master.cmd)
      BY <2>2 DEF AnswerSize
    <3> QED
      BY <3>2, <3>3
  <2> QED
    BY <1>2, <2>1, <2>2 DEF Question
<1>5. /\ slave' = [slave EXCEPT ![s] = [v EXCEPT !.pc = "respond", !.response = bytes]]
      /\ answer' = [answer EXCEPT ![s] = bytes]
  BY <1>4 DEF Answer
<1>6. w.pc = "respond" /\ w.response = bytes /\ w.twar = v.twar /\ answer'[s] = bytes
  BY <1>1, <1>5 DEF Fields
<1>7. Asks(s)
  BY DEF TrustInv, AskedTrust
<1> QED
  BY <1>1, <1>4, <1>6, <1>7, SameMaster DEF Asks, AnswerComes

LEMMA RespondTrust ==
    ASSUME NEW s \in Slave, BusInv, TrustInv(s), Respond(s), answer[s] \in Seq(Int)
    PROVE  AskedTrust(s)'
<1> DEFINE v == slave[s]
           w == slave'[s]
<1>1. /\ SlaveInv(s) /\ DOMAIN slave = Slave /\ DOMAIN v = Fields /\ v.pc = "respond"
      /\ ~v.armed /\ UNCHANGED <<master, phase, linked, owed, answer>>
  BY ReadyMeansOff DEF BusInv, SlaveInv, SlaveTypes, Respond, history
<1> SUFFICES ASSUME Asked PROVE Asks(s)' /\ AnswerComes(s)'
  BY <1>1, SameMaster DEF AskedTrust
<1>2. /\ Asks(s) /\ v.response = answer[s] /\ Len(answer[s]) = AnswerSize(master.cmd)
  BY <1>1 DEF TrustInv, AskedTrust, AnswerComes, Waiting
<1>3. /\ w.pc = "recv" /\ w.armed /\ w.twint = Nothing /\ w.twar = v.twar
      /\ w.tx = Filled(v)
  BY <1>1 DEF Respond, twi_ack, Fields
<1>4. Waiting(s)'
  BY <1>1, <1>3, ReadySlave DEF Waiting
<1>5. Prepared(s)'
  <2>1. DOMAIN v.tx = 0 .. TW_TX_MAX_LEN - 1 /\ TW_TX_MAX_LEN \in Nat /\ TW_TX_MAX_LEN >= 2
    BY <1>1, SizeAssumption DEF SlaveInv, SlaveTypes
  <2>2. Len(answer[s]) \in 1 .. 2
    BY <1>2 DEF AnswerSize
  <2>3. ASSUME NEW i \in 1 .. Len(answer[s]) PROVE Filled(v)[i - 1] = answer[s][i]
    <3>1. PICK n \in 1 .. 2 : Len(answer[s]) = n
      BY <2>2
    <3>2. i - 1 \in 0 .. TW_TX_MAX_LEN - 1 /\ i - 1 < n /\ (i - 1) + 1 = i
      BY <2>1, <3>1
    <3>3. i - 1 \in DOMAIN v.tx /\ i - 1 < Len(v.response)
      BY <1>2, <2>1, <3>1, <3>2
    <3> QED
      BY <1>2, <3>2, <3>3 DEF Filled
  <2> QED
    BY <1>1, <1>3, <2>3 DEF Prepared
<1> QED
  BY <1>1, <1>2, <1>3, <1>4, <1>5, SameMaster DEF Asks, AnswerComes

\* Even a new address is not used before twi_init().
LEMMA ExecuteAddresses ==
    ASSUME BusInv, NEW s \in Slave, Execute(s)
    PROVE  \A u \in Slave : slave'[u].twar = slave[u].twar
<1> DEFINE v == slave[s]
<1>1. DOMAIN slave = Slave /\ DOMAIN v = Fields /\ Effect(s)
  BY ExecuteFacts DEF Execute
<1>2. ASSUME NEW w, slave' = [slave EXCEPT ![s] = w], w.twar = v.twar
      PROVE  \A u \in Slave : slave'[u].twar = slave[u].twar
  BY <1>1, <1>2
<1>3. ASSUME NEW bytes, Answer(s, bytes)
      PROVE  \A u \in Slave : slave'[u].twar = slave[u].twar
  BY <1>1, <1>3 DEF Answer, Fields
<1>4. CASE \E rpm \in Sample : Answer(s, <<Low(rpm), High(rpm)>>)
  BY <1>3, <1>4
<1>5. CASE slave' = [slave EXCEPT ![s] =
           [v EXCEPT !.pc = "recv", !.next = compute_limited_speed(Rpm(v.rx[1], v.rx[2]))]]
  BY <1>1, <1>5 DEF Fields
<1>6. CASE slave' = [slave EXCEPT ![s] = [v EXCEPT !.pc = "recv", !.target = v.next]]
  BY <1>1, <1>6 DEF Fields
<1>7. CASE Answer(s, <<v.rx[1]>>)
  BY <1>3, <1>7
<1>8. CASE slave' = [slave EXCEPT ![s] =
           [v EXCEPT !.pc = "init", !.new_addr = v.rx[1], !.eeprom = v.rx[1]]]
  BY <1>1, <1>8 DEF Fields
<1> QED
  BY <1>1, <1>4, <1>5, <1>6, <1>7, <1>8 DEF Effect

LEMMA ReaddressTrust ==
    ASSUME NEW s \in Slave, BusInv, Readdress(s) PROVE TrustInv(s)'
<1>1. ~Asked /\ master.pc # "wait" /\ UNCHANGED <<master, phase>>
  BY DEF Readdress, BusInv, SlaveInv, TxInv
<1> QED
  BY <1>1, SameMaster, NothingAsked

LEMMA SlaveMainTrust ==
    ASSUME NEW s \in Slave, BusInv, TrustInv(s), SlaveMain(s), DOMAIN answer = Slave,
           answer[s] \in Seq(Int)
    PROVE  TrustInv(s)'
<1>1. CASE Readdress(s)
  BY <1>1, ReaddressTrust
<1>2. CASE Recv(s) \/ Ignore(s) \/ Execute(s) \/ Respond(s)
  <2>1. /\ SlaveInv(s) /\ DOMAIN slave = Slave /\ DOMAIN slave[s] = Fields
        /\ ~slave[s].armed /\ UNCHANGED <<master, phase, linked>>
    BY <1>2, MainLoopAlone, ZenonT(40)
       DEF SlaveMain, BusInv, SlaveInv, SlaveTypes, Recv, Ignore, Execute, Respond
  <2>2. s \notin linked
    BY <2>1, ReadySlave
  <2>3. \A u \in Slave : slave'[u].twar = slave[u].twar
    <3>1. CASE Recv(s)
      BY <2>1, <3>1 DEF Recv, twi_ack, Fields
    <3>2. CASE Ignore(s)
      BY <2>1, <3>2 DEF Ignore, Fields
    <3>3. CASE Execute(s)
      BY <3>3, ExecuteAddresses
    <3>4. CASE Respond(s)
      BY <2>1, <3>4 DEF Respond, twi_ack, Fields
    <3> QED
      BY <1>2, <3>1, <3>2, <3>3, <3>4
  <2>4. master.pc = "wait" /\ ~Opening => answer'[s] = answer[s]
    <3>1. CASE Execute(s)
      <4>1. master.pc = "wait" => Asked
        BY <3>1, ExecuteFacts DEF SlaveInv, OwedInv
      <4> QED
        BY <4>1 DEF Asked
    <3>2. CASE Recv(s) \/ Ignore(s) \/ Respond(s)
      BY <3>2 DEF Recv, Ignore, Forget, Respond, history
    <3> QED
      BY <1>2, <3>1, <3>2
  <2>5. AskedTrust(s)'
    BY <1>2, RecvTrust, IgnoreTrust, ExecuteTrust, RespondTrust
  <2> QED
    BY <2>1, <2>2, <2>3, <2>4, <2>5, OwnTrust
<1> QED
  BY <1>1, <1>2 DEF SlaveMain

LEMMA SlaveResetTrust ==
    ASSUME NEW t \in Slave, NEW s \in Slave \ {t}, BusInv, TrustInv(s), SlaveReset(t),
           DOMAIN answer = Slave
    PROVE  TrustInv(s)'
<1>1. /\ UNCHANGED <<master, phase>> /\ linked' = linked \ {t}
      /\ slave'[s] = slave[s] /\ owed'[s] = owed[s] /\ answer'[s] = answer[s]
  BY DEF SlaveReset, BusInv
<1>2. ASSUME NEW u \in Slave
      PROVE  \/ slave'[u].twar = slave[u].twar \/ slave[u].pc = "init"
             \/ slave'[u].twar = slave[u].eeprom
  <2>1. slave'[u] = IF u = t THEN NewSlave(slave[t].eeprom) ELSE slave[u]
    BY DEF SlaveReset, BusInv
  <2> QED
    BY <2>1 DEF NewSlave
<1> QED
  BY <1>1, <1>2, OtherTrust

\* A step of one slave.
LEMMA SlaveTrust ==
    ASSUME BusInv, Trusted, NEW t \in Slave, SlaveIsr(t) \/ SlaveMain(t) \/ SlaveReset(t)
    PROVE  \A s \in trusted' : TrustInv(s)'
<1>1. trusted' \subseteq trusted /\ trusted \subseteq Slave /\ DOMAIN slave = Slave
  BY DEF SlaveIsr, SlaveMain, Recv, Ignore, Forget, Execute, Respond, Readdress, SlaveReset,
         history, Trusted, BusInv
<1> SUFFICES ASSUME NEW s \in trusted' PROVE TrustInv(s)'
  OBVIOUS
<1>2. s \in Slave /\ TrustInv(s) /\ DOMAIN answer = Slave /\ answer[s] \in Seq(Int)
  BY <1>1 DEF Trusted
<1>3. CASE SlaveReset(t)
  <2>1. s # t
    BY <1>3 DEF SlaveReset
  <2> QED
    BY <1>2, <1>3, <2>1, SlaveResetTrust
<1>4. CASE s = t /\ ~SlaveReset(t)
  BY <1>2, <1>4, SlaveIsrTrust, SlaveMainTrust
<1>5. CASE s # t /\ (SlaveIsr(t) \/ SlaveMain(t))
  <2>1. /\ UNCHANGED <<master, phase, linked>>
        /\ owed'[s] = owed[s] /\ answer'[s] = answer[s]
    <3>1. CASE Execute(t)
      BY <1>2, <1>5, <3>1 DEF Execute, Effect, Answer, BusInv
    <3>2. CASE SlaveIsr(t) \/ Respond(t) \/ Readdress(t)
      BY <3>2 DEF SlaveIsr, Respond, Readdress, history
    <3>3. CASE Recv(t) \/ Ignore(t)
      BY <1>2, <1>5, <3>3 DEF Recv, Ignore, Forget, BusInv
    <3> QED
      BY <1>5, <3>1, <3>2, <3>3 DEF SlaveMain
  <2>2. PICK w : slave' = [slave EXCEPT ![t] = w]
    <3>1. CASE Execute(t)
      BY <3>1 DEF Execute, Effect, Answer
    <3>2. CASE SlaveIsr(t) \/ Recv(t) \/ Ignore(t) \/ Respond(t) \/ Readdress(t)
      BY <3>2 DEF SlaveIsr, Recv, Ignore, Respond, Readdress
    <3> QED
      BY <1>5, <3>1, <3>2 DEF SlaveMain
  <2>3. w.twar = slave[t].twar \/ slave[t].pc = "init"
    <3>1. DOMAIN slave[t] = Fields /\ slave'[t] = w
      BY <1>1, <2>2 DEF BusInv, SlaveInv, SlaveTypes
    <3>2. CASE SlaveIsr(t)
      <4>1. w \in {IsrAddressed(slave[t]), IsrStore(slave[t]), IsrTransmit(slave[t]),
                   IsrEnd(slave[t])}
        BY <1>1, <3>1, <3>2 DEF SlaveIsr
      <4> QED
        BY <3>1, <4>1
           DEF IsrAddressed, IsrStore, IsrTransmit, IsrEnd, twi_ack, twi_enable, Fields
    <3>3. CASE Execute(t)
      BY <3>1, <3>3, ExecuteAddresses
    <3>4. CASE Recv(t)
      BY <1>1, <3>1, <3>4 DEF Recv, twi_ack, Fields
    <3>5. CASE Ignore(t)
      BY <1>1, <3>1, <3>5 DEF Ignore, Fields
    <3>6. CASE Respond(t)
      BY <1>1, <3>1, <3>6 DEF Respond, twi_ack, Fields
    <3>7. CASE Readdress(t)
      BY <3>7 DEF Readdress
    <3> QED
      BY <1>5, <3>2, <3>3, <3>4, <3>5, <3>6, <3>7 DEF SlaveMain
  <2>4. \A u \in Slave : slave'[u].twar = slave[u].twar \/ slave[u].pc = "init"
    BY <1>1, <2>2, <2>3
  <2>5. slave'[s] = slave[s]
    BY <1>1, <1>2, <1>5, <2>2
  <2> QED
    BY <1>2, <1>5, <2>1, <2>4, <2>5, OtherTrust
<1> QED
  BY <1>3, <1>4, <1>5

\* The history variables keep their types.
LEMMA AnswerTypes ==
    ASSUME BusInv, Trusted, [Next]_vars
    PROVE  DOMAIN answer' = Slave /\ \A s \in Slave : answer'[s] \in Seq(Int)
<1>1. DOMAIN answer = Slave /\ \A s \in Slave : answer[s] \in Seq(Int)
  BY DEF Trusted
<1>2. ASSUME NEW t \in Slave, NEW bytes \in Seq(Int), answer' = [answer EXCEPT ![t] = bytes]
      PROVE  DOMAIN answer' = Slave /\ \A s \in Slave : answer'[s] \in Seq(Int)
  BY <1>1, <1>2
<1>3. ASSUME NEW t \in Slave, Execute(t)
      PROVE  DOMAIN answer' = Slave /\ \A s \in Slave : answer'[s] \in Seq(Int)
  <2>1. Effect(t) /\ slave[t].rx[1] \in Int
    <3>1. slave[t].rx \in [0 .. COMMAND_MAX_SIZE - 1 -> Int]
      BY DEF BusInv, SlaveInv, SlaveTypes
    <3>2. 1 \in 0 .. COMMAND_MAX_SIZE - 1
      BY SizeAssumption
    <3> QED
      BY <1>3, <3>1, <3>2 DEF Execute
  <2>2. \/ \E rpm \in Sample : answer' = [answer EXCEPT ![t] = <<Low(rpm), High(rpm)>>]
        \/ answer' = [answer EXCEPT ![t] = <<slave[t].rx[1]>>]
        \/ answer' = answer
    BY <2>1 DEF Effect, Answer
  <2>3. ASSUME NEW rpm \in Sample PROVE <<Low(rpm), High(rpm)>> \in Seq(Int)
    BY SampleAssumption DEF dc_rpm_t, Low, High
  <2>4. <<slave[t].rx[1]>> \in Seq(Int)
    BY <2>1
  <2> QED
    BY <1>1, <1>2, <2>2, <2>3, <2>4
<1>4. CASE UNCHANGED answer
  BY <1>1, <1>4
<1>5. CASE BusAddress /\ AddressWrite
  <2>1. answer' = [s \in Slave |-> <<>>] /\ <<>> \in Seq(Int)
    BY <1>5 DEF AddressWrite
  <2> QED
    BY <2>1
<1>6. ASSUME NEW t \in Slave, SlaveReset(t)
      PROVE  DOMAIN answer' = Slave /\ \A s \in Slave : answer'[s] \in Seq(Int)
  <2>1. answer' = [answer EXCEPT ![t] = <<>>] /\ <<>> \in Seq(Int)
    BY <1>6 DEF SlaveReset
  <2> QED
    BY <1>2, <2>1
<1>7. \/ UNCHANGED answer \/ (BusAddress /\ AddressWrite)
      \/ \E t \in Slave : Execute(t) \/ SlaveReset(t)
  BY DEF Next, SendCommand, MasterMain, RecvResponse, Return, MasterIsr, Bus, BusStart,
         BusStop, BusAddress, AddressRead, BusWrite, BusRead, SlaveIsr, SlaveMain, Recv,
         Ignore, Forget, Respond, Readdress, MasterReset, vars, history
<1> QED
  BY <1>3, <1>4, <1>5, <1>6, <1>7

LEMMA TrustStep ==
    ASSUME BusInv, BusInv', Trusted, [Next]_vars, NEW s \in trusted'
    PROVE  TrustInv(s)'
<1> DEFINE kept == s \in Slave /\ TrustInv(s)
<1>1. trusted' \subseteq trusted => kept
  BY DEF Trusted
<1> HIDE DEF kept
<1>2. ASSUME NEW c \in Request, SendCommand(c) PROVE TrustInv(s)'
  <2>1. kept
    BY <1>1, <1>2 DEF SendCommand, history
  <2> QED
    BY <1>2, <2>1, SendCommandTrust DEF kept
<1>3. CASE MasterMain \/ MasterIsr
  <2>1. kept
    BY <1>1, <1>3 DEF MasterMain, RecvResponse, Return, MasterIsr, history
  <2> QED
    BY <1>3, <2>1, RecvResponseTrust, ReturnTrust, MasterIsrTrust DEF kept, MasterMain
<1>4. CASE BusAddress /\ AddressWrite
  BY <1>4, AddressWriteTrust
<1>5. CASE BusStart \/ BusStop \/ (BusAddress /\ AddressRead) \/ BusWrite \/ BusRead
  <2>1. kept
    BY <1>1, <1>5 DEF BusStart, BusStop, AddressRead, BusWrite, BusRead, history
  <2> QED
    BY <1>5, <2>1, BusStartTrust, BusStopTrust, AddressReadTrust, BusWriteTrust,
       BusReadTrust DEF kept
<1>6. ASSUME NEW t \in Slave, SlaveIsr(t) \/ SlaveMain(t) \/ SlaveReset(t)
      PROVE  TrustInv(s)'
  BY <1>6, SlaveTrust
<1>7. CASE MasterReset
  BY <1>7 DEF MasterReset
<1>8. CASE UNCHANGED vars
  <2>1. kept
    BY <1>1, <1>8 DEF vars, history
  <2> QED
    BY <1>8, <2>1
       DEF kept, vars, history, TrustInv, AskedTrust, FetchedTrust, FetchedFrom, Prepared,
           AnswerComes, Waiting, Asks, Asked, Opening, Fetching, HasOwnAddress
<1> QED
  BY <1>2, <1>3, <1>4, <1>5, <1>6, <1>7, <1>8 DEF Next, Bus, BusAddress

LEMMA NextTrusted == BusInv /\ Trusted /\ [Next]_vars => Trusted'
<1> SUFFICES ASSUME BusInv, Trusted, [Next]_vars PROVE Trusted'
  OBVIOUS
<1>1. BusInv'
  BY NextBus
<1>2. trusted' \subseteq Slave
  <2>1. CASE AddressWrite
    BY <1>1, <2>1 DEF AddressWrite, BusInv, MasterInv, PhaseInv
  <2>2. CASE trusted' \subseteq trusted
    BY <2>2 DEF Trusted
  <2>3. AddressWrite \/ trusted' \subseteq trusted
    BY DEF Next, SendCommand, MasterMain, RecvResponse, Return, MasterIsr, Bus, BusStart,
           BusStop, BusAddress, AddressRead, BusWrite, BusRead, SlaveIsr, SlaveMain, Recv,
           Ignore, Forget, Execute, Respond, Readdress, SlaveReset, MasterReset, vars,
           history
  <2> QED
    BY <2>1, <2>2, <2>3
<1> QED
  BY <1>1, <1>2, AnswerTypes, TrustStep DEF Trusted

LEMMA TrustedIsOwn == ASSUME BusInv, Trusted PROVE AnswerIsOwn
<1> SUFFICES ASSUME master.pc = "wait", twi_isready, NEW s \in trusted, HasOwnAddress(s)
             PROVE  SubSeq(master.rx, 1, master.rxi) = answer[s] /\ answer[s] # <<>>
  BY DEF AnswerIsOwn
<1>1. /\ ~Opening /\ ~Fetching /\ master.rx \in Seq(Int) /\ master.rxi \in Nat
      /\ Len(master.rx) = AnswerSize(master.cmd)
  BY ReadyFacts DEF BusInv, MasterInv, MasterTypes
<1>2. /\ answer[s] \in Seq(Int) /\ Len(answer[s]) = AnswerSize(master.cmd)
      /\ master.rxi = Len(master.rx)
      /\ \A i \in 1 .. master.rxi : master.rx[i] = answer[s][i]
  BY <1>1 DEF Trusted, TrustInv, FetchedTrust, FetchedFrom
<1>3. AnswerSize(master.cmd) \in 1 .. 2
  BY DEF AnswerSize
<1>4. master.rx = answer[s]
  BY <1>1, <1>2, SeqEqual
<1>5. SubSeq(master.rx, 1, Len(master.rx)) = master.rx
  <2> DEFINE q == master.rx
  <2>1. q \in Seq(Int)
    BY <1>1
  <2> HIDE DEF q
  <2>2. SubSeq(q, 1, Len(q)) = q
    BY <2>1
  <2> QED
    BY <2>2 DEF q
<1>6. answer[s] # <<>>
  BY <1>2, <1>3
<1> QED
  BY <1>2, <1>4, <1>5, <1>6

\* What a caller of the master gets for get-speed and ping is the answer to that very
\* command, whatever was sent, read, lost or reset before.
THEOREM AnswersAreOwn == Spec => []AnswerIsOwn
<1>1. Init => Trusted
  <2> SUFFICES ASSUME Init PROVE Trusted
    OBVIOUS
  <2>1. answer = [s \in Slave |-> <<>>] /\ trusted = {} /\ <<>> \in Seq(Int)
    BY DEF Init
  <2> QED
    BY <2>1 DEF Trusted
<1>2. BusInv /\ Trusted => AnswerIsOwn
  BY TrustedIsOwn
<1> QED
  BY <1>1, <1>2, InitBus, NextBus, NextTrusted, PTL DEF Spec
====

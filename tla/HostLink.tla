---- MODULE HostLink ----
(***************************************************************************)
(* The packet protocol between the client on the PC and the master board:  *)
(* communication.c and packet.c of both sides, and the calls the shell's   *)
(* commands make on them.                                                  *)
(*                                                                         *)
(* The two directions are sequences of bytes, because packets have no      *)
(* delimiter: a side that abandons a packet after its header leaves the    *)
(* rest in the stream, where it is read as the next header.  Both sides    *)
(* read with a blocking serial_rx(), so a read is one action, enabled once *)
(* all its bytes are there.  The master's state is the one its handler     *)
(* switches on.                                                            *)
(***************************************************************************)
EXTENDS Integers, Sequences, SequencesExt

CONSTANTS
    Crc(_),          \* the checksum of a sequence of bytes
    ID_MOD,          \* packet ids are counted modulo this (0xFF)
    BODY_MAX_LEN,
    TX_BUFFER_SIZE,  \* the longest packet the master's serial_tx() takes
    Commands,        \* what the user may ask for: [type, sel, body]
    EAGER,           \* the user does not wait until the line is quiet (a script)
    NOISE,           \* what may be added to a byte on the line, modulo 256
    MAX_COMMANDS,    \* bound: commands per behaviour, handshakes included
    MAX_FAULTS       \* bound: resets, kills and damaged bytes per behaviour

Byte == 0 .. 255

HEADER_SIZE == 4
CRC_SIZE    == 1
PACKET_MAX_SIZE == HEADER_SIZE + BODY_MAX_LEN + CRC_SIZE

\* com_type_t
HND       == 1
ACK       == 2
NAK       == 3
ECHO      == 4
PING      == 5
GET_SPEED == 6
SET_SPEED == 7
APPLY     == 8
DAT       == 9
SET_SLAVE_ADDR == 10
TYPE_LIMIT     == 11

\* com_error_t
E_SUCCESS     == 0
E_ID_MISMATCH == 1
E_CORRUPTED_CHECKSUM == 2
E_WRONG_TYPE  == 3
E_TOO_BIG     == 4

ASSUME BoundsAssumption == MAX_COMMANDS \in Nat /\ MAX_FAULTS \in Nat
ASSUME SizesAssumption == /\ ID_MOD \in 2 .. 255
                          /\ BODY_MAX_LEN \in 0 .. 250
                          /\ TX_BUFFER_SIZE \in Nat
                          /\ TX_BUFFER_SIZE >= HEADER_SIZE + CRC_SIZE
ASSUME NoiseAssumption == NOISE \subseteq 1 .. 255
ASSUME CommandsAssumption ==
    \A c \in Commands :
        /\ c \in [type : ECHO .. APPLY \cup {SET_SLAVE_ADDR}, sel : Byte, body : Seq(Byte)]
        /\ Len(c.body) <= BODY_MAX_LEN

VARIABLES
    c2m, m2c,      \* bytes on their way to the master and to the client
    cpc,           \* client: "idle", or the packet it waits for: "ack", "dat"
    cid,           \* client: packet_global_id
    cmd,           \* client: the command in progress
    open,          \* client: the device is open
    state,         \* master: the handler's state
    mid,           \* master: packet_global_id
    rx,            \* master: the packet received last
    error,         \* master: what the receive attempt returned
    log,           \* history: the commands that ended and the faults, in order
    executed       \* history: the commands the master carried out

client == <<cpc, cid, cmd, open>>
master == <<state, mid, rx, error>>
vars == <<c2m, m2c, client, master, log, executed>>

-----------------------------------------------------------------------------
(* Packets *)

packet_craft(id, type, sel, body) ==
    LET m == <<id, type, sel, HEADER_SIZE + Len(body) + CRC_SIZE>> \o body
    IN  Append(m, Crc(m))

Id(p) == p[1]
Type(p) == p[2]
Selector(p) == p[3]
Size(p) == p[4]
Body(p) == SubSeq(p, HEADER_SIZE + 1, Size(p) - CRC_SIZE)

\* The division of a whole packet by the polynomial leaves no remainder.
crc_check(p) == Last(p) = Crc(Front(p))

\* Mutant: the id is not reduced.
next_id_unbounded(id) == id + 1

next_id(id) == (id + 1) % ID_MOD

Drop(s, k) == SubSeq(s, k + 1, Len(s))

Handshake == [type |-> HND, sel |-> 0, body |-> <<>>]

HasReply(type) == type \in {ECHO, PING, GET_SPEED}

-----------------------------------------------------------------------------
Init == /\ c2m = <<>> /\ m2c = <<>>
        /\ cpc = "idle" /\ cid = 0 /\ cmd = Handshake /\ open = FALSE
        /\ state = "RECEIVING" /\ mid = 0 /\ rx = <<>> /\ error = E_SUCCESS
        /\ log = <<>> /\ executed = <<>>

(***************************************************************************)
(* The master has nothing it could do with the bytes it holds.             *)
(***************************************************************************)
\* sizeof(header_t) is subtracted in eight bits.
body_size(p) == (Size(p) - HEADER_SIZE) % 256

\* Mutant: the id is not compared.
header_sanity_any_id(p) ==
    IF Size(p) > PACKET_MAX_SIZE THEN E_TOO_BIG ELSE E_SUCCESS

header_sanity(p) ==
    IF Id(p) # mid /\ (Type(p) # HND \/ Id(p) # 0) THEN E_ID_MISMATCH
    ELSE IF Size(p) > PACKET_MAX_SIZE THEN E_TOO_BIG
    ELSE E_SUCCESS

HeaderThere == Len(c2m) >= HEADER_SIZE
HeaderBad   == HeaderThere /\ header_sanity(c2m) # E_SUCCESS
PacketThere == /\ HeaderThere
               /\ header_sanity(c2m) = E_SUCCESS
               /\ Len(c2m) >= HEADER_SIZE + body_size(c2m)

Settled == state = "RECEIVING" /\ ~HeaderBad /\ ~PacketThere

-----------------------------------------------------------------------------
(* The client *)

\* _transmit_packet(): tcflush drops what has arrived, then the packet is written.
\* A patient user's next command finds the whole line quiet; a script's command
\* finds any part of the pending bytes still on the wire.
Transmit(p) ==
    /\ \E k \in IF EAGER THEN 0 .. Len(m2c) ELSE {Len(m2c)} : m2c' = Drop(m2c, k)
    /\ c2m' = c2m \o p

Start(c, id) ==
    /\ cpc = "idle"
    /\ EAGER \/ Settled
    /\ Len(log) < MAX_COMMANDS
    /\ cpc' = "ack" /\ cmd' = c /\ open' = TRUE /\ cid' = id
    /\ Transmit(packet_craft(id, c.type, c.sel, c.body))
    /\ UNCHANGED <<master, log, executed>>

\* The shell's "connect": opens the device unless it is open already (after a
\* failed handshake it still is), and sends the handshake.
Connect == Start(Handshake, 0)

\* The shell's "disconnect": closes the device; the board hears nothing of it.
Disconnect == /\ cpc = "idle" /\ open
              /\ EAGER \/ Settled
              /\ open' = FALSE
              /\ UNCHANGED <<c2m, m2c, cpc, cid, cmd, master, log, executed>>

Command == open /\ \E c \in Commands : Start(c, cid)

\* The command ends and the prompt returns.
Return(ok) == /\ cpc' = "idle"
              /\ log' = Append(log, [cmd |-> cmd, end |-> IF ok THEN "ok" ELSE "failed"])
              /\ UNCHANGED <<cmd, open, master, executed>>

\* _recv_attempt(): a foreign id is noticed before the rest of the packet is read,
\* and the rest stays in the stream.
ReplyHeader == Len(m2c) >= HEADER_SIZE
ForeignId   == ReplyHeader /\ Id(m2c) # cid
ReplyThere  == /\ ReplyHeader /\ ~ForeignId
               /\ Size(m2c) >= HEADER_SIZE /\ Len(m2c) >= Size(m2c)
Reply == SubSeq(m2c, 1, Size(m2c))

\* communication_send(): anything but an intact ACK is a failure.
SendFails == /\ cpc = "ack"
             /\ \/ ForeignId /\ m2c' = Drop(m2c, HEADER_SIZE)
                \/ /\ ReplyThere /\ ~(crc_check(Reply) /\ Type(Reply) = ACK)
                   /\ m2c' = Drop(m2c, Size(m2c))
             /\ cid' = 0
             /\ Return(FALSE)
             /\ UNCHANGED c2m

\* Mutant: every command waits for an answer.
SendSucceeds_then_waits ==
    /\ cpc = "ack"
    /\ ReplyThere /\ crc_check(Reply) /\ Type(Reply) = ACK
    /\ m2c' = Drop(m2c, Size(m2c))
    /\ cid' = next_id(cid)
    /\ cpc' = "dat"
    /\ UNCHANGED <<c2m, cmd, open, master, log, executed>>

SendSucceeds == /\ cpc = "ack"
                /\ ReplyThere /\ crc_check(Reply) /\ Type(Reply) = ACK
                /\ m2c' = Drop(m2c, Size(m2c))
                /\ cid' = next_id(cid)
                /\ UNCHANGED c2m
                /\ IF HasReply(cmd.type)
                   THEN /\ cpc' = "dat"
                        /\ UNCHANGED <<cmd, open, master, log, executed>>
                   ELSE Return(TRUE)

\* Mutant: the client's id does not follow the answer's.
RecvSucceeds_same_id ==
    /\ cpc = "dat"
    /\ ReplyThere /\ crc_check(Reply)
    /\ m2c' = Drop(m2c, Size(m2c))
    /\ c2m' = c2m \o packet_craft(Id(Reply), ACK, 0, <<>>)
    /\ UNCHANGED cid
    /\ Return(TRUE)

\* communication_recv(): the answer is acknowledged with its own id and its type
\* is not looked at; a bad one gets a NAK and leaves the client's id alone.
RecvSucceeds == /\ cpc = "dat"
                /\ ReplyThere /\ crc_check(Reply)
                /\ m2c' = Drop(m2c, Size(m2c))
                /\ c2m' = c2m \o packet_craft(Id(Reply), ACK, 0, <<>>)
                /\ cid' = next_id(cid)
                /\ Return(cmd.type = ECHO
                              => Size(Reply) = Len(cmd.body) + HEADER_SIZE + CRC_SIZE)

RecvFails == /\ cpc = "dat"
             /\ \/ ForeignId /\ m2c' = Drop(m2c, HEADER_SIZE)
                \/ ReplyThere /\ ~crc_check(Reply) /\ m2c' = Drop(m2c, Size(m2c))
             /\ c2m' = c2m \o packet_craft(Id(m2c), NAK, 0, <<>>)
             /\ UNCHANGED cid
             /\ Return(FALSE)

-----------------------------------------------------------------------------
(* The master: communication_handler(), one action per state *)

\* communication_recv(): with a bad header the body is not read.  A size below
\* that of a header passes, and the read then waits for 252 bytes or more, which
\* no behaviour within the bounds has: the handler is stuck there.
Receive ==
    /\ state = "RECEIVING"
    /\ \/ /\ HeaderBad
          /\ error' = header_sanity(c2m)
          /\ c2m' = Drop(c2m, HEADER_SIZE)
          /\ state' = "NAK"
          /\ UNCHANGED rx
       \/ /\ PacketThere
          /\ rx' = SubSeq(c2m, 1, HEADER_SIZE + body_size(c2m))
          /\ c2m' = Drop(c2m, HEADER_SIZE + body_size(c2m))
          /\ error' = IF Type(rx') >= TYPE_LIMIT THEN E_WRONG_TYPE
                      ELSE IF ~crc_check(rx') THEN E_CORRUPTED_CHECKSUM
                      ELSE E_SUCCESS
          /\ state' = IF error' # E_SUCCESS THEN "NAK"
                      ELSE IF Type(rx') = HND THEN "HND" ELSE "ACK"
    /\ UNCHANGED <<m2c, client, mid, log, executed>>

\* communication_send(): a packet longer than serial_tx()'s buffer is not sent,
\* and nobody looks at the result.
MasterSend(p) == m2c' = IF Len(p) <= TX_BUFFER_SIZE THEN m2c \o p ELSE m2c

\* Mutant: a handshake leaves the packet id alone.
Greet_same_id == /\ state = "HND"
                 /\ state' = "ACK"
                 /\ UNCHANGED <<c2m, m2c, client, mid, rx, error, log, executed>>

Greet == /\ state = "HND"
         /\ mid' = 0
         /\ state' = "ACK"
         /\ UNCHANGED <<c2m, m2c, client, rx, error, log, executed>>

Acknowledge == /\ state = "ACK"
               /\ MasterSend(packet_craft(mid, ACK, 0, <<>>))
               /\ mid' = next_id(mid)
               /\ state' = "EXECUTE"
               /\ UNCHANGED <<c2m, client, rx, error, log, executed>>

Refuse == /\ state = "NAK"
          /\ MasterSend(packet_craft(mid, NAK, error, <<>>))
          /\ mid' = 0
          /\ state' = "RECEIVING"
          /\ UNCHANGED <<c2m, client, rx, error, log, executed>>

\* What the operation table answers: an echo its body, a ping an error code and a
\* get-speed two bytes (their values are the slave's, here 0).
Answer(p) == CASE Type(p) = ECHO      -> packet_craft(mid, DAT, 0, Body(p))
               [] Type(p) = PING      -> packet_craft(mid, DAT, 0, <<>>)
               [] Type(p) = GET_SPEED -> packet_craft(mid, DAT, Selector(p), <<0, 0>>)

\* The command that a packet carries, if the operation table has it.
Order(p) == [type |-> Type(p), sel |-> Selector(p), body |-> Body(p)]
IsOrder(p) == Type(p) \in ECHO .. APPLY \cup {SET_SLAVE_ADDR}

Execute == /\ state = "EXECUTE"
           /\ IF HasReply(Type(rx)) THEN MasterSend(Answer(rx)) ELSE UNCHANGED m2c
           /\ executed' = IF IsOrder(rx) THEN Append(executed, Order(rx)) ELSE executed
           /\ state' = "RECEIVING"
           /\ UNCHANGED <<c2m, client, mid, rx, error, log>>

-----------------------------------------------------------------------------
(* Faults *)

FaultMayHappen ==
    Len(SelectSeq(log, LAMBDA e : e.end \notin {"ok", "failed"})) < MAX_FAULTS

\* The board is reset while no command is under way.
MasterReset == /\ FaultMayHappen
               /\ cpc = "idle" /\ Settled
               /\ c2m' = <<>> /\ mid' = 0 /\ rx' = <<>> /\ error' = E_SUCCESS
               /\ log' = Append(log, [cmd |-> cmd, end |-> "reset"])
               /\ UNCHANGED <<m2c, client, state, executed>>

\* The user kills the client in the middle of a command and starts it again.
ClientRestart == /\ FaultMayHappen
                 /\ cpc # "idle"
                 /\ cpc' = "idle" /\ cid' = 0 /\ cmd' = Handshake /\ open' = FALSE
                 /\ log' = Append(log, [cmd |-> cmd, end |-> "killed"])
                 /\ UNCHANGED <<c2m, m2c, master, executed>>

\* A byte is damaged on the line while a command is under way; only one, because
\* the checksum does not promise to notice two.
Damaged(s, k) == \E d \in NOISE : s' = [s EXCEPT ![k] = (@ + d) % 256]

Noise == /\ FaultMayHappen
         /\ cpc # "idle"
         /\ \A i \in 1 .. Len(log) : log[i].end # "noise"
         /\ \/ \E k \in 1 .. Len(c2m) : Damaged(c2m, k) /\ UNCHANGED m2c
            \/ \E k \in 1 .. Len(m2c) : Damaged(m2c, k) /\ UNCHANGED c2m
         /\ log' = Append(log, [cmd |-> cmd, end |-> "noise"])
         /\ UNCHANGED <<client, master, executed>>

-----------------------------------------------------------------------------
Client == SendFails \/ SendSucceeds \/ RecvSucceeds \/ RecvFails
Master == Receive \/ Greet \/ Acknowledge \/ Refuse \/ Execute
Fault  == MasterReset \/ ClientRestart \/ Noise

Next == Connect \/ Disconnect \/ Command \/ Client \/ Master \/ Fault

Spec == Init /\ [][Next]_vars

\* Both programs keep running; the user need not type anything.
FairSpec == Spec /\ WF_vars(Client) /\ WF_vars(Master)

-----------------------------------------------------------------------------
(* Properties *)

Ends == {"ok", "failed", "killed", "reset", "noise"}

TypeOK == /\ c2m \in Seq(Byte) /\ m2c \in Seq(Byte)
          /\ cpc \in {"idle", "ack", "dat"}
          /\ cid \in 0 .. ID_MOD - 1 /\ mid \in 0 .. ID_MOD - 1
          /\ cmd \in Commands \cup {Handshake}
          /\ open \in BOOLEAN
          /\ state \in {"RECEIVING", "HND", "ACK", "NAK", "EXECUTE"}
          /\ rx \in Seq(Byte) /\ error \in E_SUCCESS .. E_TOO_BIG
          /\ log \in Seq([cmd : Commands \cup {Handshake}, end : Ends])
          /\ executed \in Seq([type : Byte, sel : Byte, body : Seq(Byte)])

Quiet == cpc = "idle" /\ Settled

\* The master has carried out the commands, handshakes left out, whose log entries are
\* in I, once each and in order: f finds the entry of each.
CarriedOut(I) ==
    LET J == {i \in I : log[i].cmd.type # HND}
    IN  \E f \in [1 .. Len(executed) -> J] :
            /\ \A a, b \in 1 .. Len(executed) : a < b => f[a] < f[b]
            /\ \A j \in J : \E a \in 1 .. Len(executed) : f[a] = j
            /\ \A a \in 1 .. Len(executed) : executed[a] = log[f[a]].cmd

EndedAs(ends) == {i \in 1 .. Len(log) : log[i].end \in ends}

\* client/include/communication.h: "0 on success, 1 on failure".  Once the line is
\* quiet the master has carried out exactly the commands that were reported
\* successful, once each and in order; only the fate of a killed one, and of a
\* failed one whose acknowledgement may have been damaged, is open.
Unclear == EndedAs({"killed"}) \cup {i \in EndedAs({"failed"}) :
                                         i > 1 /\ log[i - 1].end = "noise"}

ReportsAreTrue ==
    Quiet => \E K \in SUBSET Unclear : CarriedOut(EndedAs({"ok"}) \cup K)

\* A successful command leaves the two sides on the same packet id and on a packet
\* boundary, whatever happened before it.
SyncedAfterSuccess ==
    Quiet /\ (log = <<>> \/ Last(log).end = "ok") => cid = mid /\ c2m = <<>>

\* No byte is damaged, and the user whose board was reset connects again before
\* anything else.
Reconnects == \A i \in EndedAs({"reset"}) :
                  IF i < Len(log)
                  THEN log[i + 1].end = "reset" \/ log[i + 1].cmd = Handshake
                  ELSE cpc # "idle" => cmd = Handshake

Orderly == EndedAs({"noise"}) = {} /\ Reconnects

\* The command that a packet on its way to the operation table carries.
DueOf(p) == IF Len(p) > HEADER_SIZE /\ Len(p) = Size(p) /\ IsOrder(p)
            THEN {Order(p)} ELSE {}

Awaited == IF cpc = "idle" THEN {} ELSE {cmd}
Due == DueOf(IF state = "RECEIVING" THEN c2m ELSE rx)

Service == INSTANCE CommandService WITH
               Command <- Commands,
               Greeting <- Handshake,
               Answered <- {c \in Commands : HasReply(c.type)},
               call <- Awaited,
               due <- Due,
               done <- executed

\* client/include/communication.h and the handler's states: as long as that goes on,
\* what the client asks, reports and loses and what the master does are the steps of a
\* service that carries out every command once, in order and before the next.
ImplementsService == Service!Init /\ [][Orderly' => Service!Next]_(Service!vars)

\* client/include/communication.h: a command "returns 0 on success, 1 on failure".
EveryCommandReturns == (cpc # "idle") ~> (cpc = "idle")

\* It does return as long as the board was not reset and no byte damaged.
CommandReturns ==
    (cpc # "idle") ~> (cpc = "idle" \/ EndedAs({"reset", "noise"}) # {})

====

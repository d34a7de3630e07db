---- MODULE TwiBus ----
(***************************************************************************)
(* The two-wire bus: the master's and the slaves' drivers, the commands    *)
(* the master sends over it and the main loop of the slaves that carries   *)
(* them out.                                                               *)
(*                                                                         *)
(* On each board the main loop shares buffers, indices and "mode" with the *)
(* interrupt handler.  twi_send() of the master returns when the transfer  *)
(* has been started; twi_recv() waits for its end.  The hardware, from the *)
(* data sheet: a step of the bus raises TWINT with a status code, and a    *)
(* board whose TWINT is up keeps the clock low, so the next step waits for *)
(* it; a slave acknowledges only while TWEA is set.  The slaves' handler   *)
(* ends a transfer with TWCR = 1<<TWEN: TWINT stays up, the handler and    *)
(* TWEA are off, and the slave holds the bus until its main loop is ready. *)
(*                                                                         *)
(* One master on the bus; twi_send_sm() and twi_recv_sm() never keep it.   *)
(***************************************************************************)
EXTENDS DcRpm, Sequences, FiniteSets

CONSTANTS
    Slave,
    FirstAddr,       \* the addresses in the slaves' EEPROMs
    Request,         \* what the master is asked for: [op, to, arg]
    Nothing,         \* not a command, and no status code
    Sample,          \* speeds a slave may have sampled
    COMMAND_MAX_SIZE,    \* bytes of the slaves' receive buffer
    TW_TX_MAX_LEN,       \* bytes of the slaves' transmit buffer
    MAX_COMMANDS, MAX_RESETS    \* bounds

ASSUME SlaveAssumption == /\ IsFiniteSet(Slave)
                          /\ FirstAddr \in [Slave -> 1 .. 126]
ASSUME RequestAssumption ==
    Request \subseteq [op : {"get", "set", "apply", "ping", "addr"},
                       to : 0 .. 255, arg : dc_rpm_t]
ASSUME SampleAssumption == Sample \subseteq dc_rpm_t
\* The buffers hold what an answer leaves behind and the longest command; an answer.
ASSUME SizeAssumption == /\ COMMAND_MAX_SIZE \in Nat /\ COMMAND_MAX_SIZE >= 5
                         /\ TW_TX_MAX_LEN \in Nat /\ TW_TX_MAX_LEN >= 2

VARIABLES
    master,          \* the master's driver and its caller
    slave,           \* slave[s]: driver, main loop and motor of slave s
    phase,           \* the bus: "free", "sla", "write" or "read"
    linked,          \* the slaves that take part in the transfer
    owed,            \* history: the command slave s has still to carry out
    credit,          \* history: slave s may lose a command
    answer,          \* history: slave s's answer to the last command
    trusted,         \* history: the slave that took it, until something happens
    commands, masterResets, slaveResets    \* counted for the bounds

history == <<owed, credit, answer, trusted>>
bounds == <<commands, masterResets, slaveResets>>
vars == <<master, slave, phase, linked, history, bounds>>

Garbage == -1        \* a byte of an uninitialised variable
Mixed == -2          \* a byte two slaves drive at once, differently

-----------------------------------------------------------------------------
(* What is sent *)

Body(c) == CASE c.op = "get"   -> <<0>>
             [] c.op = "set"   -> <<1, Low(c.arg), High(c.arg)>>
             [] c.op = "apply" -> <<2>>
             [] c.op = "ping"  -> <<3, c.to>>
             [] c.op = "addr"  -> <<4, c.arg>>

twi_addr_write(addr) == (2 * addr) % 256
twi_addr_read(addr) == ((2 * addr) % 256) + 1

\* The slaves that the address byte reaches have only seven bits of the id.
Folded(c) == [c EXCEPT !.to = @ % 128]

\* What the master's hardware is told to do, and the status codes.
Orders == {"start", "send", "ack", "nak", "stop"}
MasterStatuses == {"START", "MT_SLA_ACK", "MT_SLA_NACK", "MT_DATA_ACK", "MT_DATA_NACK",
                   "MR_SLA_ACK", "MR_SLA_NACK", "MR_DATA_ACK", "MR_DATA_NACK"}
SlaveStatuses == {"SR_SLA_ACK", "SR_GCALL_ACK", "SR_DATA_ACK", "SR_STOP",
                  "ST_SLA_ACK", "ST_DATA_ACK", "ST_DATA_NACK"}

ASSUME NothingAssumption ==
    /\ Nothing \notin Orders \cup MasterStatuses \cup SlaveStatuses
    /\ \A c \in Request : Nothing # Folded(c)

Question(c) == c.op \in {"get", "ping"}
AnswerSize(c) == IF c.op = "get" THEN 2 ELSE 1

-----------------------------------------------------------------------------
NewMaster == [pc |-> "idle", cmd |-> Nothing, mode |-> "READY",
              tx |-> <<>>, txi |-> 0, rx |-> <<>>, rxi |-> 0,
              order |-> Nothing, twint |-> Nothing, twdr |-> 0]

NewSlave(addr) ==
    [pc |-> "recv", mode |-> "READY", new_addr |-> 0,
     rx |-> [i \in 0 .. COMMAND_MAX_SIZE - 1 |-> 0], rxi |-> 0,
     tx |-> [i \in 0 .. TW_TX_MAX_LEN - 1 |-> 0], txi |-> 0,
     armed |-> FALSE, twint |-> Nothing, twdr |-> 0, twar |-> addr,
     eeprom |-> addr, next |-> 0, target |-> 0, response |-> <<>>]

Init == /\ master = NewMaster
        /\ slave = [s \in Slave |-> NewSlave(FirstAddr[s])]
        /\ phase = "free" /\ linked = {}
        /\ owed = [s \in Slave |-> Nothing]
        /\ credit = [s \in Slave |-> FALSE]
        /\ answer = [s \in Slave |-> <<>>] /\ trusted = {}
        /\ commands = 0 /\ masterResets = 0 /\ slaveResets = 0

-----------------------------------------------------------------------------
(* The master's main loop *)

twi_isready == master.mode = "READY"

\* No code waits for a stop to be sent, but it is out before the next start is asked
\* for: a whole packet of the serial line, or the delay before an answer, takes longer.
\* (A start merged with it would be a repeated one, on which the handler leaves TWINT.)
StopIsOut == master.order # "stop"

\* _twi_send(); the handler does not look at mode before the address is out.
_twi_send(m, bytes) ==
    [m EXCEPT !.tx = bytes, !.txi = 0, !.order = "start", !.mode = "INITIALIZING"]

\* _op_ping() does not try an id above 127.
SendCommand(c) ==
    /\ master.pc = "idle" /\ twi_isready /\ StopIsOut
    /\ c.op = "ping" => c.to \in 1 .. 127
    /\ commands < MAX_COMMANDS
    /\ commands' = commands + 1
    /\ master' = [_twi_send(master, <<twi_addr_write(c.to)>> \o Body(c))
                     EXCEPT !.pc = IF Question(c) THEN "answer" ELSE "idle",
                            !.cmd = c]
    /\ UNCHANGED <<slave, phase, linked, history, masterResets, slaveResets>>

\* The delay before it need not be as long as the slave's work: the slave holds the
\* bus meanwhile.
RecvResponse ==
    /\ master.pc = "answer" /\ twi_isready /\ StopIsOut
    /\ master' = [_twi_send(master, <<twi_addr_read(master.cmd.to)>>)
                     EXCEPT !.pc = "wait", !.rxi = 0,
                            !.rx = [i \in 1 .. AnswerSize(master.cmd) |-> Garbage]]
    /\ UNCHANGED <<slave, phase, linked, history, bounds>>

Return == /\ master.pc = "wait" /\ twi_isready
          /\ master' = [master EXCEPT !.pc = "idle", !.rx = <<>>]
          /\ UNCHANGED <<slave, phase, linked, history, bounds>>

-----------------------------------------------------------------------------
(* The master's interrupt handler *)

twi_stop(m) == [m EXCEPT !.order = "stop", !.mode = "READY", !.twint = Nothing]

IsrSend ==
    /\ master.twint \in {"START", "MT_SLA_ACK", "MT_DATA_ACK"}
    /\ master.txi < Len(master.tx)
    /\ master' = [master EXCEPT
           !.mode = IF master.twint = "MT_SLA_ACK" THEN "TRANSMITTING" ELSE @,
           !.twdr = master.tx[master.txi + 1], !.txi = @ + 1,
           !.order = "send", !.twint = Nothing]

\* Mutant: the transfer ends without a stop.
IsrSent_without_stop ==
    /\ master.twint \in {"START", "MT_SLA_ACK", "MT_DATA_ACK"}
    /\ master.txi >= Len(master.tx)
    /\ master' = [master EXCEPT !.mode = "READY", !.twint = Nothing]

IsrSent ==
    /\ master.twint \in {"START", "MT_SLA_ACK", "MT_DATA_ACK"}
    /\ master.txi >= Len(master.tx)
    /\ master' = twi_stop(master)

Stored(m) == [m EXCEPT !.rx = [@ EXCEPT ![m.rxi + 1] = m.twdr], !.rxi = @ + 1]

\* Every byte but the last is acknowledged.
IsrReceive ==
    /\ master.twint \in {"MR_SLA_ACK", "MR_DATA_ACK"}
    /\ LET m == IF master.twint = "MR_DATA_ACK" THEN Stored(master) ELSE master
       IN master' = [m EXCEPT !.mode = "RECEIVING", !.twint = Nothing,
                              !.order = IF m.rxi < Len(m.rx) - 1 THEN "ack" ELSE "nak"]

IsrReceived ==
    /\ master.twint = "MR_DATA_NACK"
    /\ master' = twi_stop(Stored(master))

\* Mutant: mode is not reset after an error.
IsrError_busy ==
    /\ master.twint \in {"MR_SLA_NACK", "MT_SLA_NACK", "MT_DATA_NACK"}
    /\ master' = [master EXCEPT !.order = "stop", !.twint = Nothing]

\* The error code is looked at by nobody.
IsrError ==
    /\ master.twint \in {"MR_SLA_NACK", "MT_SLA_NACK", "MT_DATA_NACK"}
    /\ master' = twi_stop(master)

MasterIsr == /\ \/ IsrSend \/ IsrSent \/ IsrReceive \/ IsrReceived \/ IsrError
             /\ UNCHANGED <<slave, phase, linked, history, bounds>>

-----------------------------------------------------------------------------
(* The bus *)

\* No slave holds the clock.
Released == \A s \in Slave : slave[s].twint = Nothing

Raise(receivers, status, byte) ==
    [s \in Slave |-> IF s \in receivers
                     THEN [slave[s] EXCEPT !.twint = status, !.twdr = byte]
                     ELSE slave[s]]

\* A slave that was receiving sees the end of it as a stop.
Ended == IF phase = "write" THEN Raise(linked, "SR_STOP", 0) ELSE slave

Done(status) == [master EXCEPT !.order = Nothing, !.twint = status]

\* Only a master that was reset inside a transfer starts while slaves are linked: the
\* transfer it left ends without a stop.
BusStart ==
    /\ master.order = "start"
    /\ linked # {} => Released
    /\ master' = Done("START")
    /\ slave' = Ended
    /\ phase' = "sla" /\ linked' = {}
    /\ UNCHANGED <<history, bounds>>

BusStop ==
    /\ master.order = "stop" /\ Released
    /\ master' = Done(Nothing)
    /\ slave' = Ended
    /\ phase' = "free" /\ linked' = {}
    /\ UNCHANGED <<history, bounds>>

Address == master.twdr \div 2
Listeners == {s \in Slave : slave[s].armed /\ slave[s].twar = Address}

AddressWrite ==
    /\ master.twdr % 2 = 0
    /\ linked' = IF Address = 0 THEN {s \in Slave : slave[s].armed} ELSE Listeners
    /\ slave' = Raise(linked', IF Address = 0 THEN "SR_GCALL_ACK" ELSE "SR_SLA_ACK", 0)
    /\ master' = Done(IF linked' = {} THEN "MT_SLA_NACK" ELSE "MT_SLA_ACK")
    /\ phase' = "write"
    /\ owed' = [s \in Slave |-> IF s \in linked' THEN Folded(master.cmd) ELSE owed[s]]
    /\ credit' = [s \in Slave |-> \/ credit[s]
                                  \/ s \in linked' /\ Address = 0 /\ master.cmd.op = "get"]
    /\ trusted' = {s \in linked' : Address # 0 /\ ~credit[s]}
    /\ answer' = [s \in Slave |-> <<>>]

\* A general call cannot be read: its address with the read bit reaches nobody.
AddressRead ==
    /\ master.twdr % 2 = 1
    /\ linked' = Listeners
    /\ slave' = Raise(linked', "ST_SLA_ACK", 0)
    /\ master' = Done(IF linked' = {} THEN "MR_SLA_NACK" ELSE "MR_SLA_ACK")
    /\ phase' = "read"
    /\ UNCHANGED history

BusAddress == /\ phase = "sla" /\ master.order = "send" /\ Released
              /\ AddressWrite \/ AddressRead
              /\ UNCHANGED bounds

BusWrite ==
    /\ phase = "write" /\ master.order = "send" /\ Released
    /\ slave' = Raise(linked, "SR_DATA_ACK", master.twdr)
    /\ master' = Done(IF linked = {} THEN "MT_DATA_NACK" ELSE "MT_DATA_ACK")
    /\ UNCHANGED <<phase, linked, history, bounds>>

\* The bus is high when nobody drives it.
Driven == LET bytes == {slave[s].twdr : s \in linked}
          IN IF bytes = {} THEN 255
             ELSE IF \E b \in bytes : bytes = {b} THEN CHOOSE b \in bytes : TRUE
             ELSE Mixed

BusRead ==
    /\ phase = "read" /\ Released
    /\ \/ /\ master.order = "ack"
          /\ master' = [Done("MR_DATA_ACK") EXCEPT !.twdr = Driven]
          /\ slave' = Raise(linked, "ST_DATA_ACK", 0)
          /\ linked' = linked
       \/ /\ master.order = "nak"
          /\ master' = [Done("MR_DATA_NACK") EXCEPT !.twdr = Driven]
          /\ slave' = Raise(linked, "ST_DATA_NACK", 0)
          /\ linked' = {}
    /\ UNCHANGED <<phase, history, bounds>>

Bus == BusStart \/ BusStop \/ BusAddress \/ BusWrite \/ BusRead

-----------------------------------------------------------------------------
(* A slave's interrupt handler *)

\* twi_ack(): the transfer goes on, the next byte will be acknowledged.
twi_ack(v) == [v EXCEPT !.armed = TRUE, !.twint = Nothing]

\* Mutant: the handler stays on after a transfer.
twi_enable_armed(v) == [v EXCEPT !.twint = Nothing]

\* twi_enable(): TWINT is not cleared, the handler and TWEA go off.
twi_enable(v) == [v EXCEPT !.armed = FALSE]

IsrAddressed(v) == twi_ack([v EXCEPT !.mode = "RECEIVING"])

IsrStore(v) == twi_ack([v EXCEPT !.rx = [@ EXCEPT ![v.rxi] = v.twdr], !.rxi = @ + 1])

IsrTransmit(v) ==
    twi_ack([v EXCEPT !.mode = IF v.twint = "ST_SLA_ACK" THEN "TRANSMITTING" ELSE @,
                      !.twdr = v.tx[v.txi], !.txi = @ + 1])

IsrEnd(v) == twi_enable([v EXCEPT !.mode = "READY"])

SlaveIsr(s) ==
    LET v == slave[s] IN
    /\ v.armed
    /\ \/ /\ v.twint \in {"SR_SLA_ACK", "SR_GCALL_ACK"}
          /\ slave' = [slave EXCEPT ![s] = IsrAddressed(v)]
       \/ /\ v.twint = "SR_DATA_ACK"
          /\ slave' = [slave EXCEPT ![s] = IsrStore(v)]
       \/ /\ v.twint \in {"ST_SLA_ACK", "ST_DATA_ACK"}
          /\ slave' = [slave EXCEPT ![s] = IsrTransmit(v)]
       \/ /\ v.twint \in {"SR_STOP", "ST_DATA_NACK"}
          /\ slave' = [slave EXCEPT ![s] = IsrEnd(v)]
    /\ UNCHANGED <<master, phase, linked, history, bounds>>

-----------------------------------------------------------------------------
(* A slave's main loop *)

SlaveReady(s) == slave[s].mode = "READY"

\* The main loop passes over a command: it was received where an answer should
\* have been fetched, or was cut short.
Forget(s) == /\ owed' = [owed EXCEPT ![s] = Nothing]
             /\ credit' = [credit EXCEPT ![s] = @ /\ owed[s] = Nothing]
             /\ UNCHANGED <<answer, trusted>>

\* Mutant: rx_idx goes on from the last command.
Recv_goes_on(s) ==
    /\ slave[s].pc = "recv" /\ SlaveReady(s)
    /\ slave' = [slave EXCEPT ![s] =
           twi_ack([@ EXCEPT !.pc = "wait", !.mode = "INITIALIZING"])]
    /\ Forget(s)
    /\ UNCHANGED <<master, phase, linked, bounds>>

\* twi_recv() waits for an answer to be fetched, or to be run over.
Recv(s) ==
    /\ slave[s].pc = "recv" /\ SlaveReady(s)
    /\ slave' = [slave EXCEPT ![s] =
           twi_ack([@ EXCEPT !.pc = "wait", !.mode = "INITIALIZING", !.rxi = 0])]
    /\ Forget(s)
    /\ UNCHANGED <<master, phase, linked, bounds>>

command_isvalid(v) ==
    \/ v.rx[0] \in {0, 2} /\ v.rxi = 1
    \/ v.rx[0] = 1 /\ v.rxi = 3
    \/ v.rx[0] = 3 /\ v.rxi = 2
    \/ v.rx[0] = 4 /\ v.rxi = 2 /\ v.rx[1] \in 1 .. 126

Ignore(s) ==
    /\ slave[s].pc = "wait" /\ SlaveReady(s) /\ ~command_isvalid(slave[s])
    /\ slave' = [slave EXCEPT ![s].pc = "recv"]
    /\ Forget(s)
    /\ UNCHANGED <<master, phase, linked, bounds>>

\* An answer, dcmotor_get()'s or the argument of a ping, is kept for twi_send().
Answer(s, bytes) ==
    /\ slave' = [slave EXCEPT ![s] = [@ EXCEPT !.pc = "respond", !.response = bytes]]
    /\ answer' = [answer EXCEPT ![s] = bytes]

Effect(s) ==
    LET v == slave[s] IN
    \/ /\ v.rx[0] = 0
       /\ \E rpm \in Sample : Answer(s, <<Low(rpm), High(rpm)>>)
    \/ /\ v.rx[0] = 1
       /\ slave' = [slave EXCEPT ![s] =
              [@ EXCEPT !.pc = "recv",
                        !.next = compute_limited_speed(Rpm(v.rx[1], v.rx[2]))]]
       /\ UNCHANGED answer
    \/ /\ v.rx[0] = 2
       /\ slave' = [slave EXCEPT ![s] = [@ EXCEPT !.pc = "recv", !.target = v.next]]
       /\ UNCHANGED answer
    \/ /\ v.rx[0] = 3
       /\ Answer(s, <<v.rx[1]>>)
    \/ \* change_twi_address_to(): the EEPROM, then twi_init(), for which new_addr is
       \* kept; nothing reads twi_own_address after setup() has taken it from the EEPROM.
       /\ v.rx[0] = 4
       /\ slave' = [slave EXCEPT ![s] =
              [@ EXCEPT !.pc = "init", !.new_addr = v.rx[1], !.eeprom = v.rx[1]]]
       /\ UNCHANGED answer

Execute(s) ==
    /\ slave[s].pc = "wait" /\ SlaveReady(s) /\ command_isvalid(slave[s])
    /\ Effect(s)
    /\ owed' = [owed EXCEPT ![s] = Nothing]
    /\ UNCHANGED <<master, phase, linked, credit, trusted, bounds>>

\* The buffer with the answer in it.
Filled(v) == [i \in DOMAIN v.tx |-> IF i < Len(v.response) THEN v.response[i + 1]
                                                           ELSE v.tx[i]]

\* Mutant: the bytes are put where the last answer was left off.
Respond_goes_on(s) ==
    /\ slave[s].pc = "respond" /\ SlaveReady(s)
    /\ slave' = [slave EXCEPT ![s] =
           twi_ack([@ EXCEPT !.pc = "recv", !.mode = "INITIALIZING",
                       !.response = <<>>,
                       !.tx = Filled(slave[s])])]
    /\ UNCHANGED <<master, phase, linked, history, bounds>>

\* twi_send() of a slave prepares the answer and goes back to the main loop.
Respond(s) ==
    /\ slave[s].pc = "respond" /\ SlaveReady(s)
    /\ slave' = [slave EXCEPT ![s] =
           twi_ack([@ EXCEPT !.pc = "recv", !.mode = "INITIALIZING", !.txi = 0,
                       !.response = <<>>,
                       !.tx = Filled(slave[s])])]
    /\ UNCHANGED <<master, phase, linked, history, bounds>>

\* twi_init() with the new address.
Readdress(s) ==
    /\ slave[s].pc = "init"
    /\ slave' = [slave EXCEPT ![s] =
           twi_enable([@ EXCEPT !.pc = "recv", !.twar = slave[s].new_addr,
                          !.new_addr = 0])]
    /\ UNCHANGED <<master, phase, linked, history, bounds>>

SlaveMain(s) == Recv(s) \/ Ignore(s) \/ Execute(s) \/ Respond(s) \/ Readdress(s)

-----------------------------------------------------------------------------
(* Resets *)

\* Not while a slave drives the data line: that can hold the bus for good.
MasterReset ==
    /\ masterResets + slaveResets < MAX_RESETS
    /\ phase = "read" => linked = {}
    /\ master' = NewMaster
    /\ phase' = IF linked = {} THEN "free" ELSE phase
    /\ credit' = [s \in Slave |-> TRUE]
    /\ trusted' = {}
    /\ masterResets' = masterResets + 1
    /\ UNCHANGED <<slave, linked, owed, answer, commands, slaveResets>>

\* Mutant: the slave starts with the default address.
SlaveReset_default(s) ==
    /\ masterResets + slaveResets < MAX_RESETS
    /\ slave' = [slave EXCEPT ![s] = NewSlave(FirstAddr[s])]
    /\ linked' = linked \ {s}
    /\ owed' = [owed EXCEPT ![s] = Nothing]
    /\ answer' = [answer EXCEPT ![s] = <<>>]
    /\ trusted' = trusted \ {s}
    /\ slaveResets' = slaveResets + 1
    /\ UNCHANGED <<master, phase, credit, commands, masterResets>>

\* setup() takes the address from the EEPROM.
SlaveReset(s) ==
    /\ masterResets + slaveResets < MAX_RESETS
    /\ slave' = [slave EXCEPT ![s] = NewSlave(slave[s].eeprom)]
    /\ linked' = linked \ {s}
    /\ owed' = [owed EXCEPT ![s] = Nothing]
    /\ answer' = [answer EXCEPT ![s] = <<>>]
    /\ trusted' = trusted \ {s}
    /\ slaveResets' = slaveResets + 1
    /\ UNCHANGED <<master, phase, credit, commands, masterResets>>

-----------------------------------------------------------------------------
MasterMain == RecvResponse \/ Return

Next == \/ \E c \in Request : SendCommand(c)
        \/ MasterMain \/ MasterIsr \/ Bus
        \/ \E s \in Slave : SlaveIsr(s) \/ SlaveMain(s) \/ SlaveReset(s)
        \/ MasterReset

\* Each board runs (its handler and its main loop never have something to do at
\* the same time), and the bus does what it was told.
Fairness == /\ WF_vars(MasterMain \/ MasterIsr) /\ WF_vars(Bus)
            /\ \A s \in Slave : WF_vars(SlaveIsr(s) \/ SlaveMain(s))

Spec == Init /\ [][Next]_vars /\ Fairness

-----------------------------------------------------------------------------
(* Properties *)

\* The variables have their types; in particular neither driver's handler ever
\* stores or takes a byte outside its buffer, whatever was interrupted.
TypeOK ==
    /\ master.pc \in {"idle", "answer", "wait"}
    /\ master.mode \in {"READY", "INITIALIZING", "TRANSMITTING", "RECEIVING"}
    /\ master.order \in Orders \cup {Nothing}
    /\ master.twint \in MasterStatuses \cup {Nothing}
    /\ master.txi \in 0 .. Len(master.tx) /\ master.rxi \in 0 .. 2
    /\ master.pc = "wait" => master.rxi <= Len(master.rx)
    /\ \A s \in Slave :
           /\ slave[s].pc \in {"recv", "wait", "respond", "init"}
           /\ slave[s].twar \in 1 .. 126 /\ slave[s].eeprom \in 1 .. 126
           /\ slave[s].rxi \in 0 .. COMMAND_MAX_SIZE
           /\ slave[s].txi \in 0 .. TW_TX_MAX_LEN
    /\ phase \in {"free", "sla", "write", "read"}
    /\ linked \subseteq Slave

\* What the bus promises: every command is carried out whole, once, by all the
\* slaves it is addressed to and before the next one; a slave that restarts keeps
\* its address and no speed; a master that restarts costs each slave at most the
\* one command that was under way or comes next.
Bank == INSTANCE MotorBank WITH
            Command <- {Folded(c) : c \in Request},
            addr <- [s \in Slave |-> slave[s].eeprom],
            next <- [s \in Slave |-> slave[s].next],
            target <- [s \in Slave |-> slave[s].target],
            up <- [s \in Slave |-> slave[s].armed \/ slave[s].twint # Nothing]

ImplementsBank == Bank!Spec

HasOwnAddress(s) == \A t \in Slave \ {s} : slave[t].twar # slave[s].twar

\* What the master returns for get-speed and ping is the answer to that very
\* command, if it named one slave, no other has that address and nothing has
\* happened to that slave or to the master since; never an uninitialised variable.
AnswerIsOwn ==
    master.pc = "wait" /\ twi_isready =>
        \A s \in trusted : HasOwnAddress(s) =>
            SubSeq(master.rx, 1, master.rxi) = answer[s] /\ answer[s] # <<>>

\* A slave's main loop looks at or changes the buffers and indices its handler
\* shares only while the handler cannot run.
HandlerOff ==
    [][\A s \in Slave : SlaveMain(s) => ~slave[s].armed]_vars

\* An operation of the master that waits for an answer ends, whoever is reset.
MasterReturns == master.pc # "idle" ~> master.pc = "idle"

\* A command that slaves have taken is dealt with by all of them, unless the
\* master is reset before it has sent it all.
AllDone == \A s \in Slave : owed[s] = Nothing
CommandsAreDone == ~AllDone ~> (AllDone \/ masterResets > 0)
====

# A TLA+ model of ammc

ammc drives DC motors over three programs: a **client** on a PC, a **master**
board it reaches by a serial line, and **slave** boards, one per motor, that the
master reaches by a two-wire (TWI) bus. This directory holds TLA+ modules of the
parts that are hard to test: what interrupts, a byte stream without delimiters,
resets, a bus whose slaves hold its clock and a protocol without timeouts do to
each other. `PROJECT.json` maps each
definition to the lines it models.

    tlc -workers 2 -config SerialRxWindow.cfg SerialRx.tla
    tlc -workers 2 -config TwiBus.cfg MCTwiBus.tla
    tlapm SerialRxProofs.tla
    tlapm SerialTxProofs.tla
    tlapm MotorControlProofs.tla
    tlapm ShellProofs.tla
    tlapm TwiBusProofs.tla
    tlapm HostLinkProofs.tla
    tlapm CrcProofs.tla

## The system

| part | state | operations | hard because |
|---|---|---|---|
| serial receive path (`master/source/serial.c`, `ringbuffer.c`, `main.c`) | ring: `base first last full`; USART FIFO; main loop's position | `USART0_RX_vect`, `serial_rx`, `serial_rx_available`, `sleep_on` | the handler interrupts the main loop between any two accesses of the ring; a poll delay longer than the ring lasts; sleep on a stale test |
| serial transmit path (`serial.c`) | `tx_buffer tx_to_transmit tx_transmitted tx_ongoing`, `TXCIE0`, transmitter | `serial_tx`, `USART0_TX_vect`, `serial_tx_reset` | returns before the packet is sent; busy-waits for an interrupt of low priority |
| packet protocol, client (`client/source/communication.c`, `packet.c`, `serial.c`) | `packet_global_id`, open device | connect, send, receive, acknowledge, refuse | blocking reads without timeout, a flush that races the last acknowledgement |
| packet protocol, master (`master/source/communication.c`, `communication_ops.c`, `packet.c`) | handler state, `packet_global_id`, received packet | the five handler states, the operation table | a refused header leaves its body in the stream; results of sends are ignored; resets |
| CRC-8 (`crc.c` of both) | none | `crc`, `crc_check` | one wrong table entry is the same on both sides |
| TWI driver and commands, master (`twi.c`, `master_commands.c`, `dcmotor.c`) | `mode error rx_idx tx_idx rep_start` | send, receive, handler | interrupt against polling loop; a fixed delay instead of a handshake; ignored failures |
| TWI driver and commands, slave (`twi.c`, `command.c`, `main.c`) | the same, the address in EEPROM, RAM and TWAR | send, receive, handler, commands | indices without bounds, answers nobody fetches, an address changed in three steps |
| motor control, slave (`dcmotor.c`, `dcmotor_pid.c`, `dcmotor_phy.c`) | position, speeds, PID sums | encoder and timer handlers, set/apply/get | 16-bit values shared with a handler, conversions that overflow |
| shell and commands, client (`shell.c`, `shell_commands.c`, `main.c`) | flags, input, the device's descriptor | options, loop over lines, one function per command | a device kept open after a failed handshake, scripts that do not wait |
| ring buffer, client (`ringbuffer.c`) | ring and mutex | push, pop | used by no code |

The client sends a packet and waits for the master's acknowledgement, then for the
answer if the command has one, and acknowledges that; the master's handler runs
from its main loop, reads with `serial_rx()` what the receive handler stored in
the ring, answers with `serial_tx()`, and carries out commands over the bus.

Correct means: *receive path* - the caller gets the line's bytes, in order, once
each, and is served if they are there. *Transmit path* - whole packets in order,
calls return, bytes leave. *Protocol* - a command's reported result is what the
master did, a success leaves both sides at the same id, a command ends. *CRC* -
table and polynomial agree, an intact packet passes, a damaged one does not.
*TWI* - a command is carried out whole, once, by the slaves it names and before the
next one; an answer is the command's own; the two halves of a driver never use it
together. *Motor control* - no value is torn, the drive opposes the error, the duty
cycle fits its register. *Shell* - the descriptor is an open device, a script
commands only a board that answered, stops at a failure and leaves nothing open.

## Modules

**`ByteQueue`** - the abstract promise of either direction of the serial port: a
first-in, first-out queue of bytes of bounded capacity. `SerialRx` and `SerialTx`
are shown to implement it (`QueueSpec`), each with its own mapping `Waiting`.

**`SerialRx`** - the receive path. A byte is its position on the line. The handler
`RxIsr` runs with interrupts off and is one action. On the main loop's side every
access to a field the handler also touches is an action, and `pc` names the next
one:

| pc | code |
|---|---|
| `avail`, `availLast` | `ringbuffer_used()` in `serial_rx_available()`: the flag, then the indices |
| `toSleep`, `asleep` | `sleep_on()` |
| `rx`, `rxLast`, `delay` | `serial_rx()`'s `ringbuffer_isempty()` and the poll delay |
| `pop`, `popLast` | `ringbuffer_pop()`'s own `ringbuffer_isempty()` |
| `load`, `shift`, `clear` | the three lines of `ringbuffer_pop()` |

`CountByte` keeps that `serial_rx()` counts a byte whatever pop returned; `gap`
remembers that it happened. `delivered` holds what was stored for the caller. The
reads' lengths are arbitrary up to `MAX_READ`, which covers a header and any body.
The accesses follow the order of the code: the ring is volatile only through a
cast that drops it, and a build that inlines and merges the two emptiness tests
has fewer interleavings, not others. `serial_rx_nonblock()` and
`serial_rx_reset()` have no caller and are left out.

**`SerialTx`** - the transmit path, one action per write of `serial_tx()`, the
transmitter's shift register, its transmit-complete flag and the handler. Bytes
from the host are a count: what matters is that with the ring full and a byte
pending (`RxStuck`) the receive handler, of higher priority, is entered again
after each instruction of the main loop and the transmit handler never.
`tx_buffer` and `tx_to_transmit` are not volatile; the model takes their writes in
program order, before the volatile writes that enable the handler.

**`HostLink`** - both sides of the packet protocol over two sequences of bytes, with
real packets and the real checksum, because the interesting failures are packets
that are cut at the wrong byte. Blocking reads make a read of several bytes one
action, enabled when all of them are there: a side that waits for bytes that never
come is stuck, as in the code. `cpc` is what the client waits for, `state` the
handler's own variable. A patient user (`EAGER = FALSE`) types the next command
when the line is quiet; a script (`EAGER = TRUE`) sends it at once, and then any
prefix of the bytes on their way has arrived when the flush drops them. Faults:
the board is reset between commands, the client is killed within one and started
again, one byte is damaged. The histories `log` and `executed` hold what the
client reported and what the master did. Slaves' values are not modelled: the
answer to get-speed is two bytes.

**`CommandService`** - the abstract promise of the protocol: a command that was asked for
is carried out at most once and before the next one is asked for, one that is reported
successful is carried out whatever happens to the client, and an answer comes only after
that. `HostLink` implements it (`ImplementsService`): the caller waits for `cmd` while
`cpc` is not idle (`Awaited`), the board owes the command of the packet that is on its way
to the operation table (`Due`), and `executed` is what was carried out. It does so as long
as things are `Orderly`: no byte was damaged, and after a reset of the board the user
connects again before any other command (`Reconnects`).

**`MCHostLink`** gives `HostLink` its checksum and sets of commands.

**`Crc8`** - table, division round, `crc`, `crc_check`. **`CrcFrame`** - a divider that
works bit by bit beside it, a message closed with its checksum, and damage.

**`DcRpm`** - `dc_rpm_t`: 16 bits, two bytes on the wire and in memory, and
`compute_limited_speed()` as it is written, which takes a negative speed to the
positive limit.

**`MotorBank`** - the abstract promise of the bus: a bank of motors given one command
at a time. A command is owed by every running slave it is addressed to, all of them
have carried it out before the next is issued, and a slave loses one only by
restarting or with `credit`, which an answer nobody fetched or a reset of the master
gives it.

**`TwiBus`** - the bus below that promise; `TwiBus` implements `MotorBank` under the
mapping `Bank` (property `ImplementsBank`). A board is a record:

| field | code |
|---|---|
| `master.pc` | `idle`; `answer`, the delay before `twi_recv()`; `wait`, its polling loop |
| `slave[s].pc` | `recv`, about to call `twi_recv()`; `wait`, in it; `respond`, about to call `twi_send()`; `init`, between the EEPROM and `twi_init()` |
| `mode tx txi rx rxi` | the driver's variables |
| `order` | what the master's handler last told the hardware to do |
| `twint twdr` | the status raised by the hardware, and its data register |
| `armed` | `TWIE` and `TWEA` of a slave, set by `twi_ack()` and cleared by `twi_enable()` |
| `twar eeprom` | a slave's address in the TWI register and in the EEPROM |
| `new_addr` | the argument of `change_twi_address_to()` until `twi_init()` has used it; the copy in RAM, `twi_own_address`, is read only where `setup()` has just loaded it from the EEPROM |

`SendCommand`, `RecvResponse` and `Return` are the master's main loop, `Isr...` its
handler, one action per group of statuses; `Bus...` one byte or condition on the
wires; `SlaveIsr` and `SlaveMain` the same of a slave. The bus follows the data sheet:
a board with `TWINT` up holds the clock, so the next step waits for it. `twi_enable()`
of a slave does not clear `TWINT`: a slave that has been given a command holds the
clock until its main loop calls `twi_recv()` or `twi_send()`. That, not the delay of
100 ms, is what orders commands and answers; the delay is not modelled, the bus may be
arbitrarily slow or fast. Of the environment it takes one thing (`StopIsOut`): a stop has
left before the next start is asked for, which comes a packet of the serial line, or the
delay, later. A start merged with it would be a repeated one, on which the master's handler
leaves `TWINT` up (twi.c:191). `BusStart` finds slaves still linked only after a reset of the
master. Two slaves with one
address drive the bus together: `Mixed`.

**`MotorControl`** - one slave's motor. The timer's handler (`PidIsr`) comes between any
two byte accesses of a 16-bit speed; `left` holds the halves still to come, in either
order. The encoder's handler is a net count per sample. The controller's floating point
is exact fractions (fifteenths of a rpm, hundredths for the gains), its conversion to
16 bits wraps, and `abs()` of the lowest value is left open. `held`, the samples of a stall
before the first step, stands for a long past, and `corrected` keeps the corrected speed
as it was before the conversion.

**`Shell`** - a run of the client from its options to its end. `line` is a line after
`strtok()` and the lookup, `files` the descriptors the system has given out, `avr_fd`
the one all commands share, `opened` the path it was opened with. A device is a board, a terminal that never answers, a
file (no terminal: `serial.c`'s `valid_dev()` refuses it, and what the caller then
reads is what its memory held), missing, or the empty path, for which `serial_open()`
returns 1. Everything `HostLink` says of packets is success or failure here.

**`MCTwiBus`**, **`MCMotorControl`**, **`MCShell`** - small instances of the three.

**`SerialRxProofs`**, **`SerialTxProofs`**, **`TwiBusProofs`**, **`MotorControlProofs`**,
**`ShellProofs`**, **`HostLinkProofs`**, **`CrcProofs`** - theorems.
**`LinePositions`** - lemmas about runs of consecutive positions, which both queues of
bytes are.

## What the runs check

| run | asks | bounds | result |
|---|---|---|---|
| `rx_window` | no byte lost, FIFO, reader served, if the host has fewer bytes on their way than the ring has slots | ring of 4, window 3, 6 bytes, reads of 1-3 | holds |
| `rx_burst` | order when the host floods the port, and bytes lost only by a full ring | ring of 3, 7 bytes, no window | holds |
| `rx_gap` | `serial_rx()` returns the bytes read | ring of 4, window 4 | **violated** |
| `tx` | whole packets in order; calls return and bytes leave unless the board deadlocks | buffer of 3, 7 bytes, packets of 0-4, receive ring of 2, window 4 | holds |
| `link` | reports are true, ids agree, the protocol is a service, commands end | 5 entries in the log, 2 faults, ids modulo 3, three kinds of commands | holds |
| `link_script` | reports are true for a script | 4 commands | **violated** |
| `link_echo` | commands end, echoes of 28 characters | 3 commands | **violated** |
| `link_reset` | commands end, with one reset | 6 entries | **violated** |
| `crc` | table, intact, damaged | all bytes first, frames up to 15 bytes | holds |
| `bus` | commands carried out once and in order, answers own, drivers exclusive, nobody waits for ever | 2 slaves, 6 requests, 3 commands, 1 reset, buffers of 5 and 4 bytes | holds |
| `motor` | targets not torn, answers made of samples, drive opposes error unless the speed overflows, types | 3 samples after 0, 690 or 703 of a stalled motor | holds |
| `shell` | descriptor, handshake, script's end, nothing left open | 5 lines, 6 devices, descriptors 3-5 | holds |

*Why the bounds are enough.* A ring of 3 or 4 slots fills, empties and wraps within
6 or 7 bytes, and every position of the handler within a pop is met with the ring
empty, partly full and full. A transmit buffer of 3 has a first, a middle and a
last byte, and 7 bytes are at least three packets, so every packet is sent on top of
an older one. Ids modulo 3 instead of 255 wrap within five commands. Errors of
CRC-8 depend only on the damage, not on the message (`CrcLinear`), so one message per
length stands for all; with 16 bytes two flipped bits 127 apart go unnoticed, and packets
can be 37 bytes long.

On the bus (about 400 000 states, two minutes) three commands are one that leaves
something behind, one that meets it and one after; the reset falls between any two
steps of either board. The requests name one slave, the other, everybody and nobody
(`ping` of an address just changed, `get` of 128, which the client lets pass and which
the bus folds onto the general call), set a speed whose limit matters, and give a slave
the other's address. The buffers are as short as the code's use of them allows: the
longest sequence stores five bytes, as `rx_idx` goes on from a command of two bytes
when the next is received in place of the fetch of an answer; the code has 16 and 32.
For the motor, three samples put the timer into each place of a set, an apply and a get; the
sum of the errors starts after 0, 690 or 703 samples at the limit with the motor held: the
corrected speed leaves its 16 bits at the 705th (about 70 s), and then the model, like the
code, drives the motor the wrong way. `SAFE_SAMPLES` is 700, as a motor that is pushed
backwards gets there sooner. A flood of 7 bytes meets a ring of 3 in every way: a byte thrown
away by the handler, an overrun of the USART, and a pop that takes down the flag of a ring that
was filled meanwhile. A window of 4 bytes fills the transmit run's receive ring of 2 and the
USART behind it.
Five lines of the shell connect, fail, connect again, disconnect and command;
three descriptors are the script's, a file's that was never closed, and the device's.

*Deadlock* is not checked: the host may have nothing more to send, the user nothing
to type, and the bounds end every behaviour; progress is stated as leads-to.

*Fairness.* `SerialRx`: weak fairness of the handler (a pending interrupt is taken)
and of the main loop (an AVR executes one instruction between two interrupts).
`SerialTx`: `serial_tx()` goes on, the transmitter shifts and the main loop reads,
weakly. Strongly, because bytes from the host interrupt them again and again: the transmit
handler, and outside `serial_tx()` a read after which the receive handler has nothing left
to wait for (a byte takes as long as a thousand instructions). Inside `serial_tx()` nobody
reads, and that is the deadlock. `HostLink`: both programs keep running;
nothing is assumed of the user and of faults. `TwiBus`: each board executes its
handler or its main loop when it has something to do, and the hardware carries out an
order once the clock is free; nothing is assumed of requests and resets.

*Hypotheses inside properties.* `AnswerIsOwn` speaks of a slave that took the question,
has an address of its own, had no answer waiting and was not reset since; every other
case is listed below. `CommandsAreDone` excludes a master reset in the middle of a command.
`CallReturns` and `AcceptedBytesLeave` end in `Deadlocked`, and `DriveOpposesError` lets the
motor turn round after `SAFE_SAMPLES` once `corrected` is no `dc_rpm_t`: the runs reach both,
and the properties say that there is no other cause.

### What the violated runs say of the code

- `rx_gap`: `serial_rx()` ignores `ringbuffer_pop()`'s result (serial.c:80). A full
  ring needs 33 bytes on their way, which a long echo is.
- `link_script`: the master acknowledges acknowledgements. In a script the next
  command after one with an answer fails although it is carried out.
- `link_echo`: the answer is longer than `TX_BUFFER_SIZE` and is never sent.
- `link_reset`: after a header error the body stays in the stream and a size below 4
  wraps in `recv_packet_body()`.

### Limits the passing runs met

These follow from the model and the code together. But for the torn read, no document of the
repository says otherwise.

- *Bus.* A get-speed of id 128 is a general call: every slave prepares an answer that nobody
  can fetch, and loses its next command in the place of the fetch (a question then gets
  the old answer). A reset of the master does the same to a slave at most once. A
  question to an absent slave returns an uninitialised variable. Two slaves with one
  address carry out commands alike and answer on top of each other.
- *Transmit path.* The main loop busy-waits in `serial_tx()` and is the only one that could
  empty the receive ring. If the ring fills and one more byte arrives meanwhile, the receive
  handler keeps the transmit handler out and the board stops for good (`Deadlocked`). The
  client never has that many bytes on their way while the master sends two packets in a row.
- *Motor.* slave/include/dcmotor.h:16 says that `dcmotor_get()` returns "The last sampled
  speed". It does not when the timer comes between its two loads and the speed changes its
  high byte, that is, its sign: the answer has the low byte of one sample and the high byte of
  another, and is less than 256 rpm from one of them (`GetIsSample`). A negative target
  becomes +125 rpm; no document says what it should become, and model and `MotorBank` share
  `compute_limited_speed()`, so no property judges it. The integral is unbounded: after 70 s
  of a stall at the limit the motor is driven the wrong way.
- *Shell.* `connect B` while connected to A shakes A's hand and reports success; the comment
  above `connect()` calls that reconnecting. `DescriptorIsDevice` says that the descriptor
  stays A's.
  A disconnect from a file does not close it (`EndClosesDevices` exempts files). A directory given as a script is read for ever.
  get-speed prints the low byte of the answer (shell_commands.c:208).
- *Receive path.* The test before `sleep_on()` is older than `cli()`; the next byte of the
  same packet wakes the CPU, so this costs time, not data.

## What is proved

`SerialRxProofs`, for every ring size of at least 2, FIFO depth, window, read length
and number of bytes:

- `TypeCorrect`: `Spec => []TypeOK`.
- `DeliveredInOrder`: `Spec => []InOrder`. `InOrder` alone is not inductive: the next
  byte delivered comes from the ring. `OrderInv` adds that the ring's occupied slots,
  read from `first`, and then the USART hold increasing positions, all later than
  what was delivered, and says for each place within a pop how flag and indices are
  related; it survives a flooded port, where flag and indices disagree.
- `DeliveredExactly`: `Spec => []ExactDelivery`. `ExactInv` says that with fewer bytes
  on their way than slots the flag goes up at most inside a pop, between its load and its
  clear, that the ring and the USART hold exactly the next positions, and that no byte
  is counted without being stored.
- `LossesNeedFullRing`: `Spec => LossNeedsFullRing`, whatever the window. `LossInv` adds
  to `OrderInv` that a flag which is up while the indices differ stands over exactly one
  free slot, the one a pop has left and not yet released (`FlagLast`). `StepKeeps` then
  says of each action that the bytes kept (`Kept`) drop only with the flag up.
- `ImplementsQueue`: `WINDOW < RX_BUFFER_SIZE => (Spec =>
  QueueSpec)`. `ExactInv` gives the abstract queue a closed form, `WaitingExact`: the
  positions after the last delivered one up to the last one sent. A step then sends,
  delivers or does neither (`StepKinds`), which is `Put`, `Get` or a stutter.

Each has one lemma per action and lemmas about modular indices (`ShiftedIdx`,
`VirtIdx`, `PushSlots`, ...). Assumed are only the ranges of the constants, as
named in `SerialRx`.

`SerialTxProofs`, for every size of the buffer, number of bytes and flood from the host:

- `TypeCorrect`: no index leaves `tx_buffer`. `BufferOwned`: `Spec =>
  []HandlerOwnsBuffer`.
- `ImplementsQueue`: `Spec => QueueSpec`. `TxInv` has a part per phase of a packet: while
  `serial_tx()` sets it up (`SetupInv`), what was copied is the packet's beginning and the
  handler is off or idle; while it is sent (`SendInv`), the buffer holds the last accepted
  positions, the transmitted ones are on the wire or in the shift register, and the rest
  follow; between packets (`RestInv`) everything accepted has left or is in the
  transmitter. `Waiting` is then the positions after the last one on the wire up to the
  last one accepted.

`MotorControlProofs`, for every set of speeds, counts and stalls:

- `TypeCorrect`: `Spec => []TypeOK`, in particular the duty cycle fits 8 bits.
- `TargetApplied`: `Spec => []TargetIsApplied`. `TargetInv` says why a 16-bit store that a
  handler cuts in two does no harm: the limit leaves the high half zero, always, and the
  low half is one of the targets in force.
- `AnswersSample`: `Spec => []GetIsSample`. `SampleInv` traces each half that was loaded to a
  sample in `seen`; if the two samples have the same high half, the low half's is the answer
  (`JoinSplit`).
- `DriveIsOpposed`: `Spec => []DriveOpposesError` for any stalls and counts within -B .. C
  that satisfy `FitsRpm(B, C)`: the corrected speed fits 16 bits for `SAFE_SAMPLES` samples,
  at most `MAX_SAMPLES` of them with the motor moving. `DriveInv` bounds the error's sum by
  the samples so far and gives it the errors' sign; `DriveSign` takes that through the
  conversion, if the speed fits. The run's constants satisfy the hypothesis with B = 20,
  C = 400.

`ShellProofs`, for every set of devices, descriptors and lines: `TypeCorrect`,
`DescriptorSound`, `DevicesClosed`, `ShakenFirst` and `ScriptStops`, the run's five
properties. `Shape` is the type invariant with what a pending connect needs; `Safe`
conjoins what none of the properties says alone: no descriptor but `avr_fd` has a
terminal open (`OneTerminal`), option `-c` finds nothing connected, nothing has failed
before the script starts, a failed script is at its end, and a script that goes on has
shaken the device it has open (`ShakenWhenUsed`). Assumed are the ranges of the
constants, and that a script and "nothing" are not devices (`NothingAssumption`).

`TwiBusProofs`, for every set of slaves, addresses, requests, buffer sizes and resets:

- `BusInv` is what each of the two drivers can rely on. `MasterInv` relates the master's
  indices, `order` and status to the phase of the bus (`OpeningInv`, `SendingInv`,
  `FetchingInv`, `PhaseInv`). `SlaveInv(s)` is the slave's side: its handler is on only
  while it waits, at most what the master has written since the start is in its buffer on
  top of a command of two bytes that was never answered (`RxInv`), what it is owed is in
  that buffer or still with the master (`OwedInv`), and an answer it prepared is one the
  master asked for or one it has `credit` for (`TxInv`). Neither side alone is inductive:
  a slave's index is bounded because the master's is.
- `TypeCorrect`: `Spec => []TypeOK`; no handler reaches outside its buffer
  (`SizeAssumption`: five bytes to receive, two to send).
- `DriverExclusive`: `Spec => HandlerOff`.
- `BusIsBank`: `Spec => ImplementsBank`, step by step: the address byte of a command is
  `Issue`, a slave's `Execute` is `Perform`, a command it passes over in `Recv` or `Ignore` is
  `Lose`, its first `Recv` is `Join`, resets are `Restart` and `MasterRestart`, and everything
  else stutters.
  Its hypothesis `ValidAddresses` is the client's check (shell_commands.c:271).
- `AnswersAreOwn`: `Spec => []AnswerIsOwn`. A second invariant, `Trusted`, follows a slave
  that took the question until the master has its answer: prepared, then fetched byte by
  byte.
- `NothingAssumption` says that the model's "no status" is not a status.

`HostLinkProofs`, for every set of commands, sizes, moduli and bounds, and every checksum
that is a byte (`CrcIsByte`; `crc_t` is a `uint8_t`, and `CrcProofs` shows it of `crc()`):

- `TypeCorrect`: `Spec => []TypeOK`, with any resets, kills, noise and scripts. The type
  invariant adds that the packet received last is whole: the answer to an echo is cut out of
  it by its size field.
- `SidesAgree` and `ReportsHold`: `Spec => [](Orderly => SyncedAfterSuccess)` and the same of
  `ReportsAreTrue`, for a patient user; clients may be killed within a command and the
  board reset between two. Neither property is inductive: both speak of a quiet line.
  `LinkInv` says for each place of the client where its packet can be - on its way or
  in the handler (`Underway`), acknowledged and not carried out (`Acknowledged`), or gone
  (`AtRest`) - what is on the way back, and what the ids are: they must agree after a
  success and while the device is open, unless the board was reset since (`Agreed`). After a
  kill or an answer the last packet may still be with the master while the client is idle
  (`IdleInv`). `TrueTo(log, executed)` is the report's truth, kept for
  every way in which the command in progress may end from where it is.
- `ServiceImplemented`: `Spec => ImplementsService`. `DueStages` gives what is due in each of
  the three stages of a packet; every action then asks, carries out, ends, restarts or
  stutters (`StartServes`, ...).
- `Orderly` is needed, and is a condition on the history, which never comes true again
  once it is false: with an old id the header of a command is refused and its body stays
  in the stream, after which what is a packet depends on the checksum. Those cases, with
  the real checksum, are the run `link`'s.

`CrcProofs`, for messages of any bytes and, but for two flipped bits, of any length:

- `TableAlwaysDivides`: `Spec => []TableDivides`. `IntactAlwaysPasses`: `Spec =>
  []IntactPasses`. `LineInv` relates the divider's register, while it is shifted, to the
  byte it started from (`Chain`, eight shifts), whose division is the checksum so far.
  That the table is this division (`TableIsDivision`) goes from the entry of `c` to those of
  `2c` and `2c + 1`: one more shift, and one bit more (`LongDoubles`). `CrcAppend` says what
  one byte more does to the loop's result.
- `BurstsAreSeen`: every `Burst` step leaves a remainder. The division is linear
  (`ShiftLinear`, `LongLinear`, `CrcLinear`), because `Xor` adds bit by bit (`XorBits`), so
  the remainder of a damaged message is that of the damage alone (`DamageSeen`); bytes that
  are not damaged neither make nor take away a remainder (`RunOverZeros`); and a burst over
  two bytes leaves what one byte, shifted, leaves (`BurstLeaves`), which is not zero.
- `DamageAlwaysDetected`: `Spec => []DamageIsDetected` if `MAX_LEN <= 14`. The second bit
  meets a remainder out of `Orbit`, what one bit leaves after up to 119 shifts, and from the
  eighth shift on none of those is a single bit (`OrbitValues`). The hypothesis is the limit of
  the polynomial, not of the proof: after 127 shifts a single bit is back.
- `ChecksumIsByte`: what `HostLinkProofs` assumes of the checksum.

The loops of `crc()` and `crc_check()` are recursive functions. The library's induction
theorems take an operator and cannot be used; `UpTo` is induction over a set of numbers
instead, from the least number that is not in it (`WFMin`), and the remainders after each
byte are a function that is shown to exist (`RunExists`) and to be the recursion's
(`RunIsRemainder`).

**Only model-checked:** what is outside the provers' reach, that is, liveness under fairness
(`WaitingReaderIsServed`, `CallReturns`, `AcceptedBytesLeave`, `CommandReturns`,
`MasterReturns`, `CommandsAreDone`); `SyncedAfterSuccess` and `ReportsAreTrue` after a
damaged byte, or a reset and a user who does not connect again; and the violated runs, which
have counterexamples.

## Not modelled

- Serial line: framing and parity errors, a read larger than its buffer (`link_reset` stops
  before it), reordering of plain stores by the compiler, `serial_rx_nonblock()` and
  `serial_rx_reset()`, which have no caller.
- Bus: lost arbitration and bus errors (one master), the repeated start and its lock
  (no caller), error codes (nobody reads them), a reset of the master while a slave drives
  the data line, which can hold the bus for good.
- Motor: rounding of floating point, register set-up; the timer is never stopped.
- Client: prompts, help, tokens and other text; unplugging a device; interactive flags that
  no command changes. The ring buffer of the client has no caller.
- Test code, build files.

## Plan

1. *Done:* `ByteQueue`, `SerialRx` with proofs, `SerialTx`, `Crc8`, `CrcFrame`, `HostLink`.
2. *Done:* `TwiBus` with `MotorBank` and its first proof, `MotorControl` and `Shell` with proofs of
   their safety properties.
3. *Done:* proofs that `SerialTx` implements `ByteQueue`, of all safety properties of
   `TwiBus` with its refinement of `MotorBank`, of the drive's direction, and of `HostLink`'s
   types, ids and reports.
4. *Done:* `CommandService`, and the proof that `HostLink` implements it, with resets.
5. *Done:* proofs of the CRC's three properties, table, intact and damaged messages.
6. To do: reports and ids of `HostLink` after a reset for a checksum that detects a body read
   as a header.

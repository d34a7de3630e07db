---- MODULE ShellProofs ----
(***************************************************************************)
(* Proofs about a run of the client, for any set of paths, any number of   *)
(* descriptors and any number of lines.                                    *)
(***************************************************************************)
EXTENDS Shell, TLAPS

AllWords == Words \cup {"connect", "auto"}
Connecting == (pc = "exec" /\ line.word \in {"connect", "auto"}) \/ pc = "shake"

\* A line that names a device has a path, and the order it may be is counted.
Shape ==
    /\ TypeOK
    /\ line \in [word : AllWords, path : Path \cup {Nothing}]
    /\ Connecting => line.path \in Path
    /\ files \in [Fds -> Path \cup {Nothing, "script"}]
    /\ orders <= lines /\ lines \in 0 .. MAX_LINES
    /\ pc = "exec" /\ line.word # "auto" => orders < lines
    /\ pc = "options" \/ line.word = "auto" => orders = 0
    /\ pc = "shake" => line.word \in {"connect", "auto"}

\* What is done next, whatever a command returned.
LEMMA ReturnsTo ==
    ASSUME NEW ret \in Nat, Returns(ret)
    PROVE  /\ pc' \in {"script", "aborted", "cleanup", "loop"}
           /\ pc' = "script" => line.word = "auto" /\ ret = 0
           /\ failed' = (failed \/ ret # 0)
           /\ line.word = "auto" => pc' \in {"script", "aborted"}
           /\ line.word # "auto" => pc' \in {"cleanup", "loop"}
           /\ line.word # "auto" /\ SH_SCRIPT_MODE /\ ret # 0 => pc' = "cleanup"
BY DEF Returns

-----------------------------------------------------------------------------
(* Type correctness *)

LEMMA InitShape == ASSUME Init PROVE Shape
<1>1. line \in [word : AllWords, path : Path \cup {Nothing}] /\ line.word = "blank"
  BY DEF Init, AllWords, Words, Line
<1>2. files \in [Fds -> Path \cup {Nothing, "script"}] /\ DOMAIN files = Fds
  BY DEF Init
<1>3. 0 \in 0 .. MAX_LINES
  BY BoundAssumption
<1>4. TypeOK
  BY <1>1, <1>2, <1>3 DEF Init, TypeOK, Words
<1> QED
  BY <1>1, <1>2, <1>3, <1>4 DEF Init, Shape, Connecting

\* A command that returns without having touched a device.
LEMMA ReturnShape ==
    ASSUME Shape, pc \in {"exec", "shake"}, NEW ret \in Nat, Returns(ret),
           UNCHANGED <<line, source, SH_SCRIPT_MODE, lines>>,
           SH_SIG_EXIT' \in BOOLEAN, avr_fd' \in {-1, 1} \cup Fds,
           files' \in [Fds -> Path \cup {Nothing, "script"}],
           opened' \in Path \cup {Nothing}, shaken' \in BOOLEAN,
           orders' \in Nat, orders' <= lines, line.word = "auto" => orders' = 0
    PROVE  Shape'
<1>1. /\ pc' \in {"script", "aborted", "cleanup", "loop"}
      /\ failed' \in BOOLEAN
  BY ReturnsTo DEF Shape, TypeOK
<1> QED
  BY <1>1, BoundAssumption DEF Shape, TypeOK, Connecting, Fds

LEMMA MainShape ==
    ASSUME Shape,
           AutoConnect \/ NoAutoConnect \/ OpenScript \/ NoScript \/ ReadLine
               \/ EndOfInput \/ Cleanup
    PROVE  Shape'
<1>1. CASE AutoConnect
  <2> PICK p \in Path : line' = Line("auto", p)
    BY <1>1 DEF AutoConnect
  <2>1. /\ line' \in [word : AllWords, path : Path \cup {Nothing}]
        /\ line'.word = "auto" /\ line'.path \in Path
    BY DEF Line, AllWords
  <2>2. orders = 0
    BY <1>1 DEF AutoConnect, Shape
  <2> QED
    BY <1>1, <2>1, <2>2 DEF AutoConnect, Shape, TypeOK, Connecting, AllWords, flags
<1>2. CASE NoAutoConnect \/ NoScript \/ EndOfInput
  BY <1>2 DEF NoAutoConnect, NoScript, EndOfInput, Shape, TypeOK, Connecting, flags
<1>3. CASE OpenScript
  <2>1. files' \in [Fds -> Path \cup {Nothing, "script"}]
    BY <1>3 DEF OpenScript, Free, Shape
  <2> QED
    BY <1>3, <2>1 DEF OpenScript, Shape, TypeOK, Connecting
<1>4. CASE ReadLine
  <2>1. /\ line' \in [word : AllWords, path : Path \cup {Nothing}]
        /\ line'.word # "auto"
        /\ line'.word = "connect" => line'.path \in Path
    BY <1>4 DEF ReadLine, Lines, Line, Words, AllWords
  <2> QED
    BY <1>4, <2>1, BoundAssumption
    DEF ReadLine, Shape, TypeOK, Connecting, AllWords, Words, flags
<1>5. CASE Cleanup
  <2>1. files' \in [Fds -> Path \cup {Nothing, "script"}]
    BY <1>5 DEF Cleanup, Shape
  <2> QED
    BY <1>5, <2>1 DEF Cleanup, Shape, TypeOK, Connecting, flags
<1> QED
  BY <1>1, <1>2, <1>3, <1>4, <1>5

LEMMA CommandShape ==
    ASSUME Shape,
           Usage \/ Local \/ Exit \/ Reconnect \/ OpenDevice \/ OpenFails
               \/ HandshakeFails \/ HandshakeSucceeds \/ Order \/ NotSent
               \/ Block \/ NotConnected \/ Disconnect
    PROVE  Shape'
<1>0. /\ orders \in Nat /\ orders <= lines
      /\ line.word = "auto" => orders = 0
      /\ files \in [Fds -> Path \cup {Nothing, "script"}]
      /\ avr_fd \in {-1, 1} \cup Fds /\ opened \in Path \cup {Nothing} /\ shaken \in BOOLEAN
      /\ SH_SIG_EXIT \in BOOLEAN
  BY BoundAssumption DEF Shape, TypeOK
<1>1. CASE Usage \/ Local \/ Exit \/ OpenFails \/ NotConnected \/ NotSent
           \/ HandshakeFails \/ HandshakeSucceeds
  <2>1. PICK ret \in Nat : Returns(ret)
    BY <1>1 DEF Usage, Local, Exit, OpenFails, NotConnected, NotSent,
                HandshakeFails, HandshakeSucceeds
  <2>2. /\ pc \in {"exec", "shake"}
        /\ UNCHANGED <<line, source, SH_SCRIPT_MODE, avr_fd, files, lines, opened, orders>>
        /\ SH_SIG_EXIT' \in BOOLEAN
        /\ shaken' \in BOOLEAN
    BY <1>0, <1>1
    DEF Usage, Local, Exit, OpenFails, NotConnected, NotSent,
        HandshakeFails, HandshakeSucceeds, Exec, flags, valid_dev
  <2> QED
    BY <1>0, <2>1, <2>2, ReturnShape
<1>2. CASE Reconnect
  BY <1>2 DEF Reconnect, Exec, Shape, TypeOK, Connecting, flags
<1>3. CASE OpenDevice
  <2>1. /\ pc = "exec" /\ line.word \in {"connect", "auto"} /\ line.path \in Path
    BY <1>3 DEF OpenDevice, Exec, Shape, Connecting
  <2>2. /\ files' \in [Fds -> Path \cup {Nothing, "script"}]
        /\ avr_fd' \in {-1, 1} \cup Fds
    BY <1>0, <1>3, <2>1 DEF OpenDevice, Free
  <2> QED
    BY <1>3, <2>1, <2>2 DEF OpenDevice, Shape, TypeOK, Connecting, flags
<1>4. CASE Order
  <2>1. PICK ret \in Nat : Returns(ret)
    BY <1>4 DEF Order
  <2>2. line.word = "order" /\ pc = "exec" /\ orders < lines
    BY <1>4 DEF Order, Exec, Shape
  <2>3. orders' \in Nat /\ orders' <= lines
    BY <1>0, <1>4, <2>2, BoundAssumption DEF Order, Shape
  <2> QED
    BY <1>0, <1>4, <2>1, <2>2, <2>3, ReturnShape DEF Order, flags
<1>5. CASE Block
  <2>1. /\ orders' \in 0 .. MAX_LINES /\ orders' <= lines
        /\ line.word = "auto" => orders' = 0
    BY <1>0, <1>5, BoundAssumption DEF Block, Exec, Shape
  <2> QED
    BY <1>5, <2>1 DEF Block, Exec, Shape, TypeOK, Connecting, flags
<1>6. CASE Disconnect
  <2>1. PICK ret \in Nat : Returns(ret)
    BY <1>6 DEF Disconnect
  <2>2. files' \in [Fds -> Path \cup {Nothing, "script"}]
    BY <1>0, <1>6 DEF Disconnect, serial_close
  <2> QED
    BY <1>0, <1>6, <2>1, <2>2, ReturnShape DEF Disconnect, Exec, flags
<1> QED
  BY <1>1, <1>2, <1>3, <1>4, <1>5, <1>6

LEMMA StepShape == ASSUME Shape, [Next]_vars PROVE Shape'
<1>1. CASE UNCHANGED vars
  BY <1>1 DEF vars, flags, Shape, TypeOK, Connecting
<1> QED
  BY <1>1, MainShape, CommandShape DEF Next

LEMMA Shaped == Spec => []Shape
BY InitShape, StepShape, PTL DEF Spec

\* For every set of paths, number of descriptors and number of lines, the variables
\* have their types.
THEOREM TypeCorrect == Spec => []TypeOK
<1>1. Shape => TypeOK
  BY DEF Shape
<1> QED
  BY <1>1, Shaped, PTL

-----------------------------------------------------------------------------
(* What the shared descriptor and the script's mode promise *)

Opening == pc = "options" \/ (pc = "exec" /\ line.word = "auto")
Early == \/ pc \in {"options", "script"}
         \/ pc \in {"exec", "shake"} /\ line.word = "auto"
Terminal(file) == file \in Path /\ Kind[file] \in {"board", "silent"}

\* No descriptor but avr_fd has a terminal open.
OneTerminal == \A fd \in Fds : Terminal(files[fd]) => fd = avr_fd

Openable ==
    \A fd \in Fds : files[fd] \in Path => Kind[files[fd]] \in {"board", "silent", "file"}

\* A connection made by option -c has been shaken when the script begins, and a script
\* that goes on has shaken the one it made.
ShakenWhenUsed ==
    pc = "script" \/ (SH_SCRIPT_MODE /\ pc \in {"loop", "exec"}) => (valid_dev => shaken)

Safe ==
    /\ DescriptorIsDevice
    /\ Opening => avr_fd = -1
    /\ Early => ~failed /\ ~SH_SCRIPT_MODE
    /\ SH_SCRIPT_MODE /\ failed => pc \in {"cleanup", "ended"}
    /\ ShakenWhenUsed
    /\ OneTerminal
    /\ Openable
    /\ EndClosesDevices

LEMMA InitSafe == ASSUME Init PROVE Safe
<1>1. \A fd \in Fds : files[fd] = Nothing
  BY DEF Init
<1> QED
  BY <1>1, NothingAssumption
  DEF Init, Safe, DescriptorIsDevice, Opening, Early, ShakenWhenUsed, valid_dev,
      OneTerminal, Terminal, Openable, EndClosesDevices

\* What depends on the descriptors only stays true while they do not change.
LEMMA SameFiles ==
    ASSUME Safe, UNCHANGED <<files, avr_fd, opened>>, pc' # "ended"
    PROVE  DescriptorIsDevice' /\ OneTerminal' /\ Openable' /\ EndClosesDevices'
BY DEF Safe, DescriptorIsDevice, OneTerminal, Openable, EndClosesDevices, Terminal

\* A command that returns and has opened and closed nothing.
LEMMA ReturnSafe ==
    ASSUME Shape, Safe, pc \in {"exec", "shake"}, NEW ret \in Nat, Returns(ret),
           UNCHANGED <<line, SH_SCRIPT_MODE, avr_fd, files, opened>>,
           \/ shaken' = shaken /\ pc = "exec" /\ line.word # "auto"
           \/ shaken' = shaken /\ ret # 0
           \/ shaken' = valid_dev
    PROVE  Safe'
<1>1. pc' \in {"script", "aborted", "cleanup", "loop"}
  BY ReturnsTo
<1>2. DescriptorIsDevice' /\ OneTerminal' /\ Openable' /\ EndClosesDevices'
  BY <1>1, SameFiles
<1>3. valid_dev' = valid_dev
  BY DEF valid_dev
<1>4. ~Opening'
  BY <1>1 DEF Opening
<1>5. Early' => ~failed' /\ ~SH_SCRIPT_MODE'
  BY <1>1, ReturnsTo DEF Early, Safe
<1>6. SH_SCRIPT_MODE' /\ failed' => pc' \in {"cleanup", "ended"}
  BY <1>1, ReturnsTo DEF Early, Safe
<1>7. ShakenWhenUsed'
  <2>1. CASE shaken' = valid_dev
    BY <1>3, <2>1 DEF ShakenWhenUsed
  <2>2. CASE shaken' = shaken /\ ret # 0
    <3>1. pc' # "script" /\ ~(SH_SCRIPT_MODE' /\ pc' \in {"loop", "exec"})
      BY <1>1, <2>2, ReturnsTo DEF Early, Safe
    <3> QED
      BY <3>1 DEF ShakenWhenUsed
  <2>3. CASE shaken' = shaken /\ pc = "exec" /\ line.word # "auto"
    BY <1>1, <1>3, <2>3, ReturnsTo DEF ShakenWhenUsed, Safe
  <2> QED
    BY <2>1, <2>2, <2>3
<1> QED
  BY <1>2, <1>4, <1>5, <1>6, <1>7 DEF Safe

LEMMA QuietSafe ==
    ASSUME Shape, Safe,
           Usage \/ Local \/ Exit \/ OpenFails \/ NotConnected \/ NotSent \/ Order
               \/ HandshakeFails \/ HandshakeSucceeds
    PROVE  Safe'
<1>1. CASE Usage \/ OpenFails \/ HandshakeFails
  <2>1. PICK ret \in Nat : Returns(ret) /\ ret # 0
    BY <1>1 DEF Usage, OpenFails, HandshakeFails
  <2> QED
    BY <1>1, <2>1, ReturnSafe DEF Usage, OpenFails, HandshakeFails, Exec, flags
<1>2. CASE Local \/ Exit \/ NotConnected \/ NotSent \/ Order
  <2>1. PICK ret \in Nat : Returns(ret)
    BY <1>2 DEF Local, Exit, NotConnected, NotSent, Order
  <2> QED
    BY <1>2, <2>1, ReturnSafe DEF Local, Exit, NotConnected, NotSent, Order, Exec, flags
<1>3. CASE HandshakeSucceeds
  BY <1>3, ReturnSafe DEF HandshakeSucceeds, flags
<1> QED
  BY <1>1, <1>2, <1>3

LEMMA ConnectSafe == ASSUME Shape, Safe, Reconnect \/ Block PROVE Safe'
<1>1. pc' \in {"shake", "stuck"} /\ pc \in {"exec", "shake"}
  BY DEF Reconnect, Block, Exec
<1>2. DescriptorIsDevice' /\ OneTerminal' /\ Openable' /\ EndClosesDevices'
  BY <1>1, SameFiles DEF Reconnect, Block
<1>3. UNCHANGED <<line, failed, SH_SCRIPT_MODE>>
  BY DEF Reconnect, Block, flags
<1> QED
  BY <1>1, <1>2, <1>3 DEF Safe, Opening, Early, ShakenWhenUsed

LEMMA OpenSafe == ASSUME Shape, Safe, OpenDevice PROVE Safe'
<1>1. /\ pc = "exec" /\ line.word \in {"connect", "auto"} /\ line.path \in Path
      /\ avr_fd < 0 /\ Kind[line.path] # "missing" /\ pc' = "shake"
      /\ opened' = line.path
      /\ UNCHANGED <<line, failed, SH_SCRIPT_MODE>>
  BY DEF OpenDevice, Exec, Shape, Connecting, flags
<1>2. \A fd \in Fds : ~Terminal(files[fd])
  BY <1>1 DEF Safe, OneTerminal, Fds
<1>3. CASE Kind[line.path] = "empty"
  <2>1. files' = files /\ avr_fd' = 1
    BY <1>3 DEF OpenDevice
  <2> QED
    BY <1>1, <1>2, <2>1
    DEF Safe, DescriptorIsDevice, Opening, Early, ShakenWhenUsed, OneTerminal, Terminal,
        Openable, EndClosesDevices
<1>4. CASE Kind[line.path] # "empty"
  <2>1. PICK fd \in Fds : avr_fd' = fd /\ files' = [files EXCEPT ![fd] = line.path]
    BY <1>4 DEF OpenDevice, Free
  <2>2. /\ DOMAIN files = Fds
        /\ files'[fd] = line.path
        /\ \A other \in Fds \ {fd} : files'[other] = files[other]
    BY <2>1 DEF Shape
  <2>3. Kind[line.path] \in {"board", "silent", "file"}
    BY <1>1, <1>4, KindAssumption
  <2>4. DescriptorIsDevice' /\ OneTerminal'
    BY <1>1, <1>2, <2>1, <2>2 DEF DescriptorIsDevice, OneTerminal, Terminal
  <2>5. Openable' /\ EndClosesDevices'
    BY <1>1, <2>2, <2>3 DEF Safe, Openable, EndClosesDevices
  <2> QED
    BY <1>1, <2>4, <2>5 DEF Safe, Opening, Early, ShakenWhenUsed
<1> QED
  BY <1>3, <1>4

LEMMA DisconnectSafe == ASSUME Shape, Safe, Disconnect PROVE Safe'
<1>1. PICK ret \in Nat : Returns(ret)
  BY DEF Disconnect
<1>2. /\ pc = "exec" /\ line.word = "disconnect"
      /\ avr_fd' = -1 /\ serial_close /\ UNCHANGED <<line, SH_SCRIPT_MODE>>
  BY DEF Disconnect, Exec, flags
<1>3. pc' \in {"cleanup", "loop"}
  BY <1>1, <1>2, ReturnsTo
<1>4. \A fd \in Fds : \/ files'[fd] = files[fd] /\ ~Terminal(files[fd])
                      \/ files'[fd] = Nothing
  <2> TAKE fd \in Fds
  <2>1. CASE Terminal(files[fd])
    <3>1. fd = avr_fd /\ valid_dev
      BY <2>1 DEF Safe, OneTerminal, Terminal, valid_dev, Fds
    <3> QED
      BY <1>2, <3>1 DEF serial_close, Shape
  <2>2. CASE ~Terminal(files[fd])
    BY <1>2, <2>2 DEF serial_close, Shape
  <2> QED
    BY <2>1, <2>2
<1>5. DescriptorIsDevice' /\ OneTerminal' /\ Openable' /\ EndClosesDevices'
  BY <1>2, <1>3, <1>4, NothingAssumption
  DEF Safe, DescriptorIsDevice, OneTerminal, Terminal, Openable, EndClosesDevices
<1>6. ~valid_dev' /\ ~Early' /\ ~Opening'
  BY <1>2, <1>3 DEF valid_dev, Early, Opening
<1>7. SH_SCRIPT_MODE' /\ failed' => pc' \in {"cleanup", "ended"}
  BY <1>1, <1>2, <1>3, ReturnsTo DEF Safe
<1> QED
  BY <1>5, <1>6, <1>7 DEF Safe, ShakenWhenUsed

LEMMA MainSafe ==
    ASSUME Shape, Safe,
           AutoConnect \/ NoAutoConnect \/ OpenScript \/ NoScript \/ ReadLine
               \/ EndOfInput \/ Cleanup
    PROVE  Safe'
<1>1. CASE AutoConnect \/ NoAutoConnect \/ NoScript \/ ReadLine \/ EndOfInput
  <2>1. /\ UNCHANGED <<avr_fd, files, opened, shaken, failed, SH_SCRIPT_MODE>>
        /\ pc' \in {"exec", "script", "aborted", "cleanup"}
    BY <1>1 DEF AutoConnect, NoAutoConnect, NoScript, ReadLine, EndOfInput, flags
  <2>2. DescriptorIsDevice' /\ OneTerminal' /\ Openable' /\ EndClosesDevices'
    BY <2>1, SameFiles
  <2>3. CASE AutoConnect \/ NoAutoConnect
    <3>1. /\ pc = "options" /\ pc' \in {"exec", "script"}
          /\ avr_fd = -1 /\ ~failed /\ ~SH_SCRIPT_MODE
      BY <2>3 DEF AutoConnect, NoAutoConnect, Safe, Opening, Early
    <3> QED
      BY <2>1, <2>2, <3>1 DEF Safe, Opening, ShakenWhenUsed, valid_dev
  <2>4. CASE NoScript
    BY <2>1, <2>2, <2>4 DEF NoScript, Safe, Opening, Early, ShakenWhenUsed
  <2>5. CASE ReadLine
    <3>1. line'.word # "auto" /\ pc = "loop" /\ pc' = "exec"
      BY <2>5 DEF ReadLine, Lines, Line, Words
    <3>2. valid_dev' = valid_dev
      BY <2>1 DEF valid_dev
    <3> QED
      BY <2>1, <2>2, <3>1, <3>2 DEF Safe, Opening, Early, ShakenWhenUsed
  <2>6. CASE EndOfInput
    BY <2>1, <2>2, <2>6 DEF EndOfInput, Safe, Opening, Early, ShakenWhenUsed
  <2> QED
    BY <1>1, <2>3, <2>4, <2>5, <2>6
<1>2. CASE OpenScript
  <2>1. /\ pc = "script" /\ pc' = "loop"
        /\ UNCHANGED <<avr_fd, opened, shaken, failed>>
        /\ ~failed
    BY <1>2 DEF OpenScript, Safe, Early
  <2>2. \A fd \in Fds : \/ files'[fd] = files[fd]
                        \/ files[fd] = Nothing /\ files'[fd] = "script"
    BY <1>2 DEF OpenScript, Free, Shape
  <2>3. \A fd \in Fds : files'[fd] \in Path => files'[fd] = files[fd]
    BY <2>2, NothingAssumption
  <2>4. avr_fd > 2 => avr_fd \in Fds /\ files'[avr_fd] = files[avr_fd]
    BY <2>2, NothingAssumption DEF Safe, DescriptorIsDevice, Shape, TypeOK
  <2>5. DescriptorIsDevice' /\ OneTerminal' /\ Openable' /\ EndClosesDevices'
    BY <2>1, <2>3, <2>4
    DEF Safe, DescriptorIsDevice, OneTerminal, Terminal, Openable, EndClosesDevices
  <2>6. valid_dev' => valid_dev
    BY <2>1, <2>4 DEF valid_dev
  <2> QED
    BY <2>1, <2>5, <2>6 DEF Safe, Opening, Early, ShakenWhenUsed
<1>3. CASE Cleanup
  <2>1. /\ pc' = "ended" /\ avr_fd' = -1
        /\ UNCHANGED <<SH_SCRIPT_MODE, failed>>
    BY <1>3 DEF Cleanup, flags
  <2>2. \A fd \in Fds : \/ files'[fd] = Nothing
                        \/ /\ files'[fd] = files[fd] /\ files[fd] # "script"
                           /\ ~Terminal(files[fd])
    <3> TAKE fd \in Fds
    <3>1. Terminal(files[fd]) => fd = avr_fd /\ valid_dev
      BY DEF Safe, OneTerminal, Terminal, valid_dev, Fds
    <3> QED
      BY <1>3, <3>1 DEF Cleanup
  <2>3. \A fd \in Fds : files[fd] \in Path \cup {Nothing, "script"}
    BY DEF Shape
  <2>4. DescriptorIsDevice' /\ OneTerminal' /\ Openable'
    BY <2>1, <2>2, NothingAssumption
    DEF Safe, DescriptorIsDevice, OneTerminal, Terminal, Openable
  <2>5. EndClosesDevices'
    BY <2>2, <2>3 DEF Safe, Openable, Terminal, EndClosesDevices
  <2> QED
    BY <2>1, <2>4, <2>5 DEF Safe, Opening, Early, ShakenWhenUsed
<1> QED
  BY <1>1, <1>2, <1>3

LEMMA StepSafe == ASSUME Shape, Safe, [Next]_vars PROVE Safe'
<1>1. CASE UNCHANGED vars
  BY <1>1 DEF vars, flags, Safe, DescriptorIsDevice, Opening, Early, ShakenWhenUsed,
              valid_dev, OneTerminal, Terminal, Openable, EndClosesDevices
<1> QED
  BY <1>1, MainSafe, QuietSafe, ConnectSafe, OpenSafe, DisconnectSafe DEF Next

LEMMA AlwaysSafe == Spec => [](Shape /\ Safe)
<1>1. Init => Shape /\ Safe
  BY InitShape, InitSafe
<1>2. Shape /\ Safe /\ [Next]_vars => Shape' /\ Safe'
  BY StepShape, StepSafe
<1> QED
  BY <1>1, <1>2, PTL DEF Spec

\* The descriptor shared by all commands is never the script's, never closed, and
\* always the device it was opened for.
THEOREM DescriptorSound == Spec => []DescriptorIsDevice
<1>1. Safe => DescriptorIsDevice
  BY DEF Safe
<1> QED
  BY <1>1, AlwaysSafe, PTL

\* However often devices are opened, closed and opened again, a run that ends has
\* closed every terminal it opened.
THEOREM DevicesClosed == Spec => []EndClosesDevices
<1>1. Safe => EndClosesDevices
  BY DEF Safe
<1> QED
  BY <1>1, AlwaysSafe, PTL

\* A script sends nothing to a device that has not answered a handshake.
THEOREM ShakenFirst == Spec => HandshakeFirst
<1>1. ASSUME Shape, Safe, [Next]_vars, SH_SCRIPT_MODE, orders' # orders
      PROVE  shaken
  <2>1. Order \/ Block
    BY <1>1
    DEF Next, vars, AutoConnect, NoAutoConnect, OpenScript, NoScript, ReadLine,
        EndOfInput, Cleanup, Usage, Local, Exit, Reconnect, OpenDevice, OpenFails,
        HandshakeFails, HandshakeSucceeds, NotSent, NotConnected, Disconnect
  <2>2. pc = "exec" /\ valid_dev
    BY <1>1, <2>1 DEF Order, Block, Exec
  <2> QED
    BY <1>1, <2>2 DEF Safe, ShakenWhenUsed
<1>2. Shape /\ Safe /\ [Next]_vars => [SH_SCRIPT_MODE /\ orders' # orders => shaken]_vars
  BY <1>1
<1> QED
  BY <1>2, AlwaysSafe, PTL DEF Spec, HandshakeFirst

\* After a command that failed a script reads and sends nothing.
THEOREM ScriptStops == Spec => ScriptStopsAtFailure
<1>1. ASSUME Shape, Safe, [Next]_vars, SH_SCRIPT_MODE, failed
      PROVE  lines' = lines /\ orders' = orders
  <2>1. pc \in {"cleanup", "ended"}
    BY <1>1 DEF Safe
  <2>2. Cleanup \/ UNCHANGED vars
    BY <1>1, <2>1
    DEF Next, AutoConnect, NoAutoConnect, OpenScript, NoScript, ReadLine,
        EndOfInput, Usage, Local, Exit, Reconnect, OpenDevice, OpenFails, Exec,
        HandshakeFails, HandshakeSucceeds, Order, Block, NotSent, NotConnected, Disconnect
  <2> QED
    BY <2>2 DEF Cleanup, vars
<1>2. Shape /\ Safe /\ [Next]_vars
      => [SH_SCRIPT_MODE /\ failed => lines' = lines /\ orders' = orders]_vars
  BY <1>1
<1> QED
  BY <1>2, AlwaysSafe, PTL DEF Spec, ScriptStopsAtFailure
====

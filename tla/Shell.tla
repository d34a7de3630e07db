---- MODULE Shell ----
(***************************************************************************)
(* A run of the client: its options, the shell's loop over the lines of a  *)
(* terminal or a script, and the descriptor of the device that connect and *)
(* disconnect share with every command.                                    *)
(*                                                                         *)
(* A line is what strtok() and the lookup of the command make of it.  What *)
(* HostLink says of packets is reduced here to success or failure.  On a   *)
(* descriptor that is no terminal nothing is sent or received, but nobody  *)
(* looks at that: what is then taken for the answer is what the memory     *)
(* held, which may be an earlier answer.  A device that does not answer    *)
(* holds the client for ever.                                              *)
(***************************************************************************)
EXTENDS Integers, FiniteSets

CONSTANTS
    Path,            \* what can be opened as a device
    Kind,            \* Kind[p]: "board", "silent", "file", "missing" or "empty"
    Nothing,         \* not a path
    MAX_FD,          \* the highest descriptor the system gives the client
    MAX_LINES        \* bound: lines read

ASSUME KindAssumption ==
    Kind \in [Path -> {"board", "silent", "file", "missing", "empty"}]
ASSUME NothingAssumption == Nothing \notin Path /\ "script" \notin Path
ASSUME BoundAssumption == MAX_FD \in Nat /\ MAX_LINES \in Nat

VARIABLES
    pc,              \* where main() is
    line,            \* the line being executed
    source,          \* the input: "terminal", or a script: "stdin", "file", "directory"
    SH_SCRIPT_MODE, SH_SIG_EXIT,    \* SH_EXIT_ON_ERR is set with SH_SCRIPT_MODE
    avr_fd,          \* -1: not connected
    files,           \* what each descriptor above stderr has open
    lines,           \* for the bound
    opened,          \* history: the path avr_fd was opened with, if it is open
    shaken,          \* history: the open device has answered a handshake
    failed,          \* history: a command has failed
    orders           \* history: commands sent to a device, handshakes apart

flags == <<SH_SCRIPT_MODE, SH_SIG_EXIT>>
vars == <<pc, line, source, flags, avr_fd, files, lines, opened, shaken, failed, orders>>

Fds == 3 .. MAX_FD
\* The system gives out the lowest; nothing here depends on which it is.
Free == {fd \in Fds : files[fd] = Nothing}

Words == {"disconnect", "order", "exit", "builtin", "unknown", "blank"}
Line(word, path) == [word |-> word, path |-> path]
Lines == {Line("connect", p) : p \in {p \in Path : Kind[p] # "empty"}}
         \cup {Line(w, Nothing) : w \in Words}

-----------------------------------------------------------------------------
Init == /\ pc = "options" /\ line = Line("blank", Nothing)
        /\ source \in {"terminal", "stdin", "file", "directory"}
        /\ SH_SCRIPT_MODE = FALSE /\ SH_SIG_EXIT = FALSE
        /\ avr_fd = -1 /\ files = [fd \in Fds |-> Nothing]
        /\ lines = 0
        /\ opened = Nothing /\ shaken = FALSE /\ failed = FALSE /\ orders = 0

-----------------------------------------------------------------------------
(* main() *)

\* Option -c: "auto" is the line that main() makes of it.
AutoConnect == /\ pc = "options"
               /\ \E p \in Path : line' = Line("auto", p)
               /\ pc' = "exec"
               /\ UNCHANGED <<source, flags, avr_fd, files, lines, opened, shaken,
                              failed, orders>>

NoAutoConnect == /\ pc = "options"
                 /\ pc' = "script"
                 /\ UNCHANGED <<line, source, flags, avr_fd, files, lines, opened,
                                shaken, failed, orders>>

\* A directory can be opened, but not read.
OpenScript ==
    /\ pc = "script"
    /\ pc' = "loop"
    /\ SH_SCRIPT_MODE' = (source # "terminal")
    /\ IF source \in {"file", "directory"}
       THEN \E fd \in Free : files' = [files EXCEPT ![fd] = "script"]
       ELSE files' = files
    /\ UNCHANGED <<line, source, SH_SIG_EXIT, avr_fd, lines, opened, shaken, failed, orders>>

NoScript == /\ pc = "script" /\ source \in {"file", "directory"}
            /\ pc' = "aborted"
            /\ UNCHANGED <<line, source, flags, avr_fd, files, lines, opened, shaken,
                           failed, orders>>

\* shell_loop(): fgets() fails on a directory for ever.
ReadLine == /\ pc = "loop" /\ source # "directory" /\ lines < MAX_LINES
            /\ line' \in Lines
            /\ lines' = lines + 1
            /\ pc' = "exec"
            /\ UNCHANGED <<source, flags, avr_fd, files, opened, shaken, failed, orders>>

EndOfInput == /\ pc = "loop" /\ source # "directory"
              /\ pc' = "cleanup"
              /\ UNCHANGED <<line, source, flags, avr_fd, files, lines, opened, shaken,
                             failed, orders>>

\* Mutant: a script goes on after an error.
Returns_goes_on(ret) ==
    /\ failed' = (failed \/ ret # 0)
    /\ \/ line.word = "auto" /\ pc' = IF ret = 0 THEN "script" ELSE "aborted"
       \/ line.word # "auto" /\ pc' = IF SH_SIG_EXIT' THEN "cleanup" ELSE "loop"

\* The command returns; main() or the shell decides what is next.
Returns(ret) ==
    /\ failed' = (failed \/ ret # 0)
    /\ \/ /\ line.word = "auto"
          /\ pc' = IF ret = 0 THEN "script" ELSE "aborted"
       \/ /\ line.word # "auto"
          /\ pc' = IF SH_SIG_EXIT' \/ (ret # 0 /\ SH_SCRIPT_MODE) THEN "cleanup" ELSE "loop"

-----------------------------------------------------------------------------
(* The commands *)

valid_dev == /\ avr_fd > 2 /\ files[avr_fd] \in Path
             /\ Kind[files[avr_fd]] \in {"board", "silent"}

Exec(words) == pc = "exec" /\ line.word \in words

\* Nothing is done on the wrong number of arguments.
Usage == /\ Exec({"connect", "disconnect", "order", "exit", "builtin"})
         /\ UNCHANGED <<line, source, flags, avr_fd, files, lines, opened, shaken, orders>>
         /\ Returns(1)

Local == /\ UNCHANGED <<line, source, flags, avr_fd, files, lines, opened, shaken, orders>>
         /\ \/ Exec({"blank"}) /\ Returns(0)
            \/ Exec({"builtin"}) /\ \E ret \in {0, 2} : Returns(ret)
            \/ Exec({"unknown"}) /\ Returns(127)

Exit == /\ Exec({"exit"})
        /\ SH_SIG_EXIT' = TRUE
        /\ UNCHANGED <<line, source, SH_SCRIPT_MODE, avr_fd, files, lines, opened,
                       shaken, orders>>
        /\ Returns(0)

\* connect() keeps a descriptor that is open, whatever path it is given: it shakes
\* hands again with the device it already has.
Reconnect == /\ Exec({"connect", "auto"}) /\ avr_fd > 0
             /\ pc' = "shake"
             /\ UNCHANGED <<line, source, flags, avr_fd, files, lines, opened, shaken,
                            failed, orders>>

\* Mutant: serial_open() returns 0 for the empty path.
OpenDevice_zero ==
    /\ Exec({"connect", "auto"}) /\ avr_fd < 0 /\ Kind[line.path] # "missing"
    /\ IF Kind[line.path] = "empty"
       THEN avr_fd' = 0 /\ files' = files
       ELSE \E fd \in Free :
                avr_fd' = fd /\ files' = [files EXCEPT ![fd] = line.path]
    /\ opened' = line.path /\ shaken' = FALSE
    /\ pc' = "shake"
    /\ UNCHANGED <<line, source, flags, lines, failed, orders>>

\* serial_open() returns 1 for the empty path.
OpenDevice == /\ Exec({"connect", "auto"}) /\ avr_fd < 0 /\ Kind[line.path] # "missing"
              /\ IF Kind[line.path] = "empty"
                 THEN avr_fd' = 1 /\ files' = files
                 ELSE \E fd \in Free :
                          avr_fd' = fd /\ files' = [files EXCEPT ![fd] = line.path]
              /\ opened' = line.path /\ shaken' = FALSE
              /\ pc' = "shake"
              /\ UNCHANGED <<line, source, flags, lines, failed, orders>>

OpenFails == /\ Exec({"connect", "auto"}) /\ avr_fd < 0 /\ Kind[line.path] # "empty"
             /\ UNCHANGED <<line, source, flags, avr_fd, files, lines, opened, shaken, orders>>
             /\ Returns(2)

\* Mutant: the result of the handshake is not looked at.
HandshakeFails_ignored ==
    /\ pc = "shake"
    /\ valid_dev => Kind[files[avr_fd]] = "board"
    /\ UNCHANGED <<line, source, flags, avr_fd, files, lines, opened, shaken, orders>>
    /\ Returns(0)

\* The descriptor stays open.
HandshakeFails ==
    /\ pc = "shake"
    /\ valid_dev => Kind[files[avr_fd]] = "board"
    /\ UNCHANGED <<line, source, flags, avr_fd, files, lines, opened, shaken, orders>>
    /\ Returns(3)

HandshakeSucceeds ==
    /\ pc = "shake"
    /\ valid_dev => Kind[files[avr_fd]] = "board"
    /\ shaken' = valid_dev
    /\ UNCHANGED <<line, source, flags, avr_fd, files, lines, opened, orders>>
    /\ Returns(0)

\* Any other command of shell_commands.c: its packet and the answer.
Order == /\ Exec({"order"}) /\ avr_fd > 0
         /\ valid_dev => Kind[files[avr_fd]] = "board"
         /\ orders' = IF valid_dev THEN orders + 1 ELSE orders
         /\ UNCHANGED <<line, source, flags, avr_fd, files, lines, opened, shaken>>
         /\ \E ret \in {0, 2, 3} : Returns(ret)

\* An argument that is refused, or a new address that is the old one.
NotSent == /\ Exec({"order"}) /\ avr_fd > 0
           /\ UNCHANGED <<line, source, flags, avr_fd, files, lines, opened, shaken, orders>>
           /\ \E ret \in 0 .. 2 : Returns(ret)

\* A read of a device that never answers.
Block == /\ \/ pc = "shake" /\ UNCHANGED orders
            \/ Exec({"order"}) /\ orders' = orders + 1
         /\ valid_dev /\ Kind[files[avr_fd]] = "silent"
         /\ pc' = "stuck"
         /\ UNCHANGED <<line, source, flags, avr_fd, files, lines, opened, shaken, failed>>

NotConnected ==
    /\ Exec({"order", "disconnect"}) /\ avr_fd < 0
    /\ UNCHANGED <<line, source, flags, avr_fd, files, lines, opened, shaken, orders>>
    /\ Returns(2)

\* serial_close() only closes a terminal.
serial_close == files' = IF valid_dev THEN [files EXCEPT ![avr_fd] = Nothing] ELSE files

\* Mutant: the descriptor's number is kept.
Disconnect_kept ==
    /\ Exec({"disconnect"}) /\ avr_fd > 0
    /\ serial_close
    /\ opened' = Nothing /\ shaken' = FALSE
    /\ UNCHANGED <<line, source, flags, avr_fd, lines, orders>>
    /\ Returns(IF valid_dev THEN 0 ELSE 3)

Disconnect ==
    /\ Exec({"disconnect"}) /\ avr_fd > 0
    /\ serial_close
    /\ avr_fd' = -1
    /\ opened' = Nothing /\ shaken' = FALSE
    /\ UNCHANGED <<line, source, flags, lines, orders>>
    /\ Returns(IF valid_dev THEN 0 ELSE 3)

\* Mutant: only a connection that was shaken is closed.
Cleanup_if_shaken ==
    /\ pc = "cleanup"
    /\ pc' = "ended" /\ avr_fd' = -1
    /\ files' = [fd \in Fds |-> IF files[fd] = "script" \/ (fd = avr_fd /\ valid_dev /\ shaken)
                                THEN Nothing ELSE files[fd]]
    /\ UNCHANGED <<line, source, flags, lines, opened, shaken, failed, orders>>

\* shell_cleanup() frees the storage with the descriptor; the end of main().
Cleanup ==
    /\ pc = "cleanup"
    /\ pc' = "ended" /\ avr_fd' = -1
    /\ files' = [fd \in Fds |-> IF files[fd] = "script" \/ (fd = avr_fd /\ valid_dev)
                                THEN Nothing ELSE files[fd]]
    /\ UNCHANGED <<line, source, flags, lines, opened, shaken, failed, orders>>

Next == \/ AutoConnect \/ NoAutoConnect \/ OpenScript \/ NoScript
        \/ ReadLine \/ EndOfInput \/ Cleanup
        \/ Usage \/ Local \/ Exit
        \/ Reconnect \/ OpenDevice \/ OpenFails \/ HandshakeFails \/ HandshakeSucceeds
        \/ Order \/ NotSent \/ Block \/ NotConnected \/ Disconnect

Spec == Init /\ [][Next]_vars

-----------------------------------------------------------------------------
(* Properties *)

\* The variables have their types.
TypeOK == /\ pc \in {"options", "script", "loop", "exec", "shake", "stuck", "cleanup",
                     "ended", "aborted"}
          /\ line.word \in Words \cup {"connect", "auto"}
          /\ source \in {"terminal", "stdin", "file", "directory"}
          /\ SH_SCRIPT_MODE \in BOOLEAN /\ SH_SIG_EXIT \in BOOLEAN
          /\ avr_fd \in {-1, 1} \cup Fds
          /\ DOMAIN files = Fds
          /\ opened \in Path \cup {Nothing} /\ shaken \in BOOLEAN /\ failed \in BOOLEAN
          /\ orders \in 0 .. MAX_LINES

\* avr_fd never dangles: it is the file that connect opened it for, still open, never
\* another one that got its number, nor the script, however numbers are used again
\* after a disconnect and whatever other paths connect is given meanwhile.
DescriptorIsDevice == avr_fd > 2 => opened \in Path /\ files[avr_fd] = opened

\* A script sends a command only to a device that has answered a handshake since it
\* was opened, although a failed handshake leaves the device open.
HandshakeFirst == [][SH_SCRIPT_MODE /\ orders' # orders => shaken]_vars

\* A script does nothing after a command that failed.
ScriptStopsAtFailure ==
    [][SH_SCRIPT_MODE /\ failed => lines' = lines /\ orders' = orders]_vars

\* A run that ends without being aborted has closed its script and every terminal it
\* opened.
EndClosesDevices ==
    pc = "ended" => \A fd \in Fds :
        files[fd] = Nothing \/ (files[fd] \in Path /\ Kind[files[fd]] = "file")
====

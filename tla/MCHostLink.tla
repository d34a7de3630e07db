---- MODULE MCHostLink ----
(* HostLink with the real checksum and small sets of commands. *)
EXTENDS HostLink

C8 == INSTANCE Crc8

MCCrc(data) == C8!crc(data)

SetSpeed == [type |-> SET_SPEED, sel |-> 1, body |-> <<90, 0>>]
GetSpeed == [type |-> GET_SPEED, sel |-> 1, body |-> <<>>]
Echo     == [type |-> ECHO, sel |-> 0, body |-> <<72>>]
LongEcho == [type |-> ECHO, sel |-> 0, body |-> [i \in 1 .. 28 |-> 72]]

PatientCommands == {SetSpeed, GetSpeed, Echo}
EagerCommands   == {SetSpeed, Echo}
LongCommands    == {SetSpeed, LongEcho}
====

---- MODULE CrcFrame ----
(***************************************************************************)
(* What the packets need of crc.c.  A divider that works bit by bit, as    *)
(* crc_division_round() does when the polynomial has no lookup table,      *)
(* takes the bytes of a message in; the message is then closed with the    *)
(* checksum crc() computes, and the line damages it.                       *)
(***************************************************************************)
EXTENDS Crc8

CONSTANTS
    MAX_LEN,    \* bound: bytes of a message
    SAMPLE      \* bound: the bytes of the messages that get damaged

ASSUME LenAssumption    == MAX_LEN \in Nat
ASSUME SampleAssumption == SAMPLE \subseteq Byte

VARIABLES
    frame,      \* the message, with its checksum once it is closed
    reg,        \* the divider's register
    bits,       \* bits of the last byte the divider has still to shift
    phase       \* "open", "closed", "damaged"

vars == <<frame, reg, bits, phase>>

Init == frame = <<>> /\ reg = CRC_INIT /\ bits = 0 /\ phase = "open"

\* The first byte can be any; after it the register has seen every value.
Feed == /\ phase = "open" /\ bits = 0 /\ Len(frame) < MAX_LEN
        /\ \E byte \in IF frame = <<>> THEN Byte ELSE SAMPLE :
               frame' = Append(frame, byte) /\ reg' = Xor(reg, byte)
        /\ bits' = 8
        /\ UNCHANGED phase

Divide == /\ bits > 0
          /\ reg' = Shift[reg]
          /\ bits' = bits - 1
          /\ UNCHANGED <<frame, phase>>

Close == /\ phase = "open" /\ bits = 0 /\ frame # <<>>
         /\ frame' = Append(frame, crc(frame))
         /\ phase' = "closed"
         /\ UNCHANGED <<reg, bits>>

\* An error burst: the first and the last bit of the damage are at most eight bits
\* apart, so it touches one byte or two adjacent ones.
Flip(at, mask) == frame' = [frame EXCEPT ![at] = Xor(@, mask)]

Flip2(at, high, at2, low) ==
    frame' = [frame EXCEPT ![at] = Xor(@, high), ![at2] = Xor(@, low)]

Damageable == phase = "closed" /\ \A k \in 1 .. Len(frame) - 1 : frame[k] \in SAMPLE

Burst == /\ Damageable
         /\ \E at \in 1 .. Len(frame), mask \in 1 .. 255 :
                \/ Flip(at, mask)
                \/ \E s \in 1 .. 7 :
                       /\ at < Len(frame)
                       /\ mask >= 2^s
                       /\ Flip2(at, mask \div 2^s, at + 1, (mask * 2^(8 - s)) % 256)
         /\ phase' = "damaged"
         /\ UNCHANGED <<reg, bits>>

\* Two bits anywhere.
TwoBits == /\ Damageable
           /\ \E a, b \in 1 .. Len(frame), j, k \in 0 .. 7 :
                  a < b /\ Flip2(a, 2^j, b, 2^k)
           /\ phase' = "damaged"
           /\ UNCHANGED <<reg, bits>>

Next == Feed \/ Divide \/ Close \/ Burst \/ TwoBits

Spec == Init /\ [][Next]_vars

-----------------------------------------------------------------------------
(* Properties *)

\* The lookup table stands for eight rounds of the bit by bit division, for every
\* byte and every remainder so far.
TableDivides == phase = "open" /\ bits = 0 => crc(frame) = reg

\* A packet that arrives as it was sent passes the check: what crc() appends leaves
\* no remainder in crc_check().
IntactPasses == phase = "closed" => crc_check(frame) = 0

\* A damaged packet does not pass, if the damage is a burst of up to eight bits or
\* any two bits ("corrupted at least by a detectable error").
DamageIsDetected == phase = "damaged" => crc_check(frame) # 0
====

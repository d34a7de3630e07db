---- MODULE HostLinkProofs ----
(***************************************************************************)
(* Proofs about the packet protocol, for any commands, any checksum that   *)
(* is a byte, and any packet sizes and bounds.                             *)
(*                                                                         *)
(* The type invariant needs that the packet received last is a whole one,  *)
(* because the answers to the user are cut out of it.                      *)
(*                                                                         *)
(* That the two sides agree, that the client's reports are true and that   *)
(* the protocol implements CommandService is proved as long as it is       *)
(* Orderly: no byte was damaged, and after a reset of the board the user   *)
(* connects again before any other command.  The client may be killed at   *)
(* any point of a command.  (After a damaged byte, or a command sent with  *)
(* an old id, the rest of a packet may be read as the next header, and     *)
(* what comes of that depends on the checksum.)  The invariant LinkInv     *)
(* says where the one packet of a command can be: on its way to the        *)
(* handler or in it (Underway), acknowledged but not carried out yet       *)
(* (Acknowledged), or done with (AtRest); which reply is on the way back;  *)
(* which ids the two sides have; and that the log and the commands the     *)
(* master carried out tell the same story (TrueTo), whichever way the      *)
(* command in progress ends from here.                                     *)
(***************************************************************************)
EXTENDS HostLink, SequenceTheorems, TLAPS

-----------------------------------------------------------------------------
(* Sequences of bytes *)

\* The checksum of bytes is a byte: crc() of crc.c returns a crc_t, which is a uint8_t.
CrcIsByte == \A m \in Seq(Byte) : Crc(m) \in Byte

LEMMA ByteFacts == \A b : b \in Byte <=> b \in Nat /\ b <= 255
BY DEF Byte

\* A part of a sequence of bytes.
LEMMA PartFacts ==
    ASSUME NEW s \in Seq(Byte), NEW i \in Nat, NEW j \in Int, i >= 1, j <= Len(s)
    PROVE  /\ SubSeq(s, i, j) \in Seq(Byte)
           /\ Len(SubSeq(s, i, j)) = IF i <= j THEN j - i + 1 ELSE 0
           /\ \A k \in 1 .. j - i + 1 : SubSeq(s, i, j)[k] = s[i + k - 1]
<1>1. \A k \in i .. j : s[k] \in Byte
  OBVIOUS
<1> QED
  BY <1>1, SubSeqProperties

LEMMA DropFacts ==
    ASSUME NEW s \in Seq(Byte), NEW k \in Nat
    PROVE  /\ Drop(s, k) \in Seq(Byte)
           /\ Drop(s, Len(s)) = <<>>
<1>1. Len(s) \in Nat /\ k + 1 \in Nat /\ k + 1 >= 1 /\ k + 1 \in Int
  OBVIOUS
<1>2. SubSeq(s, k + 1, Len(s)) \in Seq(Byte)
  BY <1>1, PartFacts
<1>3. SubSeq(s, Len(s) + 1, Len(s)) = <<>>
  BY <1>1, SubSeqEmpty
<1> QED
  BY <1>2, <1>3 DEF Drop

LEMMA ConcatFacts ==
    ASSUME NEW s \in Seq(Byte), NEW t \in Seq(Byte)
    PROVE  /\ s \o t \in Seq(Byte)
           /\ Len(s \o t) = Len(s) + Len(t)
           /\ \A i \in 1 .. Len(s) : (s \o t)[i] = s[i]
           /\ \A i \in 1 .. Len(t) : (s \o t)[Len(s) + i] = t[i]
<1>1. /\ s \o t \in Seq(Byte) /\ Len(s \o t) = Len(s) + Len(t)
      /\ \A i \in 1 .. Len(s) + Len(t) :
             (s \o t)[i] = IF i <= Len(s) THEN s[i] ELSE t[i - Len(s)]
  BY ConcatProperties
<1>2. Len(s) \in Nat /\ Len(t) \in Nat
  OBVIOUS
<1>3. ASSUME NEW i \in 1 .. Len(s)
      PROVE  (s \o t)[i] = s[i]
  BY <1>1, <1>2
<1>4. ASSUME NEW i \in 1 .. Len(t)
      PROVE  (s \o t)[Len(s) + i] = t[i]
  <2>1. Len(s) + i \in 1 .. Len(s) + Len(t) /\ ~(Len(s) + i <= Len(s))
        /\ (Len(s) + i) - Len(s) = i
    BY <1>2
  <2> QED
    BY <1>1, <2>1
<1> QED
  BY <1>1, <1>3, <1>4

\* The first of two concatenated sequences is cut off.
LEMMA CutFacts ==
    ASSUME NEW s \in Seq(Byte), NEW t \in Seq(Byte)
    PROVE  SubSeq(s \o t, 1, Len(s)) = s /\ Drop(s \o t, Len(s)) = t
<1> DEFINE u == s \o t
           a == SubSeq(u, 1, Len(s))
           b == SubSeq(u, Len(s) + 1, Len(u))
<1>1. /\ u \in Seq(Byte) /\ Len(u) = Len(s) + Len(t) /\ Len(s) \in Nat /\ Len(t) \in Nat
      /\ \A i \in 1 .. Len(s) : u[i] = s[i]
      /\ \A i \in 1 .. Len(t) : u[Len(s) + i] = t[i]
  BY ConcatFacts
<1> HIDE DEF u
<1>2. /\ a \in Seq(Byte) /\ Len(a) = (IF 1 <= Len(s) THEN Len(s) - 1 + 1 ELSE 0)
      /\ \A k \in 1 .. Len(s) - 1 + 1 : a[k] = u[1 + k - 1]
  <2>1. Len(s) \in Int /\ Len(s) <= Len(u) /\ 1 \in Nat /\ 1 >= 1
    BY <1>1
  <2> QED
    BY <1>1, <2>1, PartFacts
<1>3. /\ b \in Seq(Byte)
      /\ Len(b) = (IF Len(s) + 1 <= Len(u) THEN Len(u) - (Len(s) + 1) + 1 ELSE 0)
      /\ \A k \in 1 .. Len(u) - (Len(s) + 1) + 1 : b[k] = u[(Len(s) + 1) + k - 1]
  <2>1. Len(s) + 1 \in Nat /\ Len(s) + 1 >= 1 /\ Len(u) \in Int
    BY <1>1
  <2> QED
    BY <1>1, <2>1, PartFacts
<1> HIDE DEF a, b
<1>4. Len(a) = Len(s) /\ \A i \in 1 .. Len(a) : a[i] = s[i]
  BY <1>1, <1>2
<1>5. Len(b) = Len(t) /\ \A i \in 1 .. Len(b) : b[i] = t[i]
  <2>1. Len(b) = Len(t)
    BY <1>1, <1>3
  <2>2. ASSUME NEW i \in 1 .. Len(b)
        PROVE  b[i] = t[i]
    <3>1. /\ i \in 1 .. Len(t) /\ i \in 1 .. Len(u) - (Len(s) + 1) + 1
          /\ (Len(s) + 1) + i - 1 = Len(s) + i
      BY <1>1, <2>1
    <3> QED
      BY <1>1, <1>3, <3>1
  <2> QED
    BY <2>1, <2>2
<1>6. a = s
  BY <1>2, <1>4, SeqEqual
<1>7. b = t
  BY <1>3, <1>5, SeqEqual
<1> QED
  BY <1>6, <1>7 DEF a, b, u, Drop

-----------------------------------------------------------------------------
(* Packets *)

\* What the receiver of packet p reads in it.
Reads(p, id, type, sel, body) ==
    /\ p \in Seq(Byte) /\ Len(p) = Len(body) + 5
    /\ Len(p) \in Nat /\ 5 <= Len(p) /\ Len(p) <= 255
    /\ Id(p) = id /\ Type(p) = type /\ Selector(p) = sel /\ Size(p) = Len(p)
    /\ Body(p) = body /\ crc_check(p)
    /\ body_size(p) = Len(p) - 4

\* A crafted packet is read as it was meant, and its checksum agrees.
LEMMA PacketFacts ==
    ASSUME CrcIsByte, NEW id \in Byte, NEW type \in Byte, NEW sel \in Byte,
           NEW body \in Seq(Byte), Len(body) <= 250
    PROVE  Reads(packet_craft(id, type, sel, body), id, type, sel, body)
<1> DEFINE h == <<id, type, sel, HEADER_SIZE + Len(body) + CRC_SIZE>>
           m == h \o body
           p == Append(m, Crc(m))
<1>1. /\ Len(body) \in Nat /\ Len(body) <= 250
      /\ HEADER_SIZE + Len(body) + CRC_SIZE = Len(body) + 5
      /\ Len(body) + 5 \in Byte
  <2>1. PICK n \in Nat : n = Len(body)
    BY LenProperties
  <2>2. n <= 250
    BY <2>1
  <2>3. HEADER_SIZE + n + CRC_SIZE = n + 5
    BY <2>1 DEF HEADER_SIZE, CRC_SIZE
  <2>4. n + 5 \in Byte
    BY <2>2, ByteFacts
  <2> QED
    BY <2>1, <2>2, <2>3, <2>4
<1>2. /\ h \in Seq(Byte) /\ Len(h) = 4 /\ h[1] = id /\ h[2] = type /\ h[3] = sel
      /\ h[4] = Len(body) + 5
  <2>1. Len(body) + 5 \in Byte
    BY <1>1
  <2>2. h = <<id, type, sel, Len(body) + 5>>
    BY <1>1
  <2> HIDE DEF h
  <2> QED
    BY <2>1, <2>2
<1> HIDE DEF h
<1>3. /\ m \in Seq(Byte) /\ Len(m) = 4 + Len(body)
      /\ \A i \in 1 .. 4 : m[i] = h[i]
      /\ \A i \in 1 .. Len(body) : m[4 + i] = body[i]
  <2>1. body \in Seq(Byte) /\ h \in Seq(Byte)
    BY <1>2
  <2>2. /\ h \o body \in Seq(Byte) /\ Len(h \o body) = Len(h) + Len(body)
        /\ \A i \in 1 .. Len(h) : (h \o body)[i] = h[i]
        /\ \A i \in 1 .. Len(body) : (h \o body)[Len(h) + i] = body[i]
    BY <2>1, ConcatFacts, Zenon
  <2> QED
    BY <1>2, <2>2
<1> HIDE DEF m
<1>4. Crc(m) \in Byte
  BY <1>3 DEF CrcIsByte
<1>5. /\ p \in Seq(Byte) /\ Len(p) = Len(m) + 1
      /\ \A i \in 1 .. Len(m) : p[i] = m[i]
      /\ p[Len(m) + 1] = Crc(m)
  BY <1>3, <1>4, AppendProperties
<1> HIDE DEF p
<1>6. Len(p) = Len(body) + 5 /\ Len(p) \in Nat /\ 5 <= Len(p) /\ Len(p) <= 255
  <2>1. PICK n \in Nat : n = Len(body) /\ n <= 250
    BY <1>1
  <2>2. Len(m) = 4 + n
    BY <1>3, <2>1
  <2>3. Len(p) = n + 5
    BY <1>5, <2>2
  <2>4. n + 5 \in Nat /\ 5 <= n + 5 /\ n + 5 <= 255
    BY <2>1
  <2> QED
    BY <2>1, <2>3, <2>4
<1>7. p[1] = id /\ p[2] = type /\ p[3] = sel /\ p[4] = Len(body) + 5
  <2>1. 1 \in 1 .. Len(m) /\ 2 \in 1 .. Len(m) /\ 3 \in 1 .. Len(m) /\ 4 \in 1 .. Len(m)
    BY <1>1, <1>3
  <2> QED
    BY <1>2, <1>3, <1>5, <2>1
<1>8. SubSeq(p, HEADER_SIZE + 1, Size(p) - CRC_SIZE) = body
  <2> DEFINE b == SubSeq(p, 5, Len(body) + 4)
  <2>1. /\ b \in Seq(Byte)
        /\ Len(b) = (IF 5 <= Len(body) + 4 THEN Len(body) + 4 - 5 + 1 ELSE 0)
        /\ \A k \in 1 .. Len(body) + 4 - 5 + 1 : b[k] = p[5 + k - 1]
    <3>1. 5 \in Nat /\ 5 >= 1 /\ Len(body) + 4 \in Int /\ Len(body) + 4 <= Len(p)
      BY <1>1, <1>6
    <3> QED
      BY <1>5, <3>1, PartFacts
  <2> HIDE DEF b
  <2>2. Len(b) = Len(body)
    BY <1>1, <2>1
  <2>3. ASSUME NEW k \in 1 .. Len(b)
        PROVE  b[k] = body[k]
    <3>1. k \in 1 .. Len(body) + 4 - 5 + 1 /\ 5 + k - 1 = 4 + k /\ 4 + k \in 1 .. Len(m)
          /\ k \in 1 .. Len(body)
      BY <1>1, <1>3, <2>2
    <3> QED
      BY <1>3, <1>5, <2>1, <3>1
  <2>4. b = body
    BY <2>1, <2>2, <2>3, SeqEqual
  <2>5. HEADER_SIZE + 1 = 5 /\ Size(p) - CRC_SIZE = Len(body) + 4
    BY <1>1, <1>7 DEF HEADER_SIZE, CRC_SIZE, Size
  <2> QED
    BY <2>4, <2>5 DEF b
<1>9. Last(p) = Crc(Front(p))
  <2> DEFINE q == SubSeq(p, 1, Len(p) - 1)
  <2>1. /\ q \in Seq(Byte)
        /\ Len(q) = (IF 1 <= Len(p) - 1 THEN Len(p) - 1 - 1 + 1 ELSE 0)
        /\ \A k \in 1 .. Len(p) - 1 - 1 + 1 : q[k] = p[1 + k - 1]
    <3>1. 1 \in Nat /\ 1 >= 1 /\ Len(p) - 1 \in Int /\ Len(p) - 1 <= Len(p)
      BY <1>6
    <3> QED
      BY <1>5, <3>1, PartFacts
  <2> HIDE DEF q
  <2>2. Len(q) = Len(m)
    BY <1>3, <1>5, <1>6, <2>1
  <2>3. \A k \in 1 .. Len(q) : q[k] = m[k]
    BY <1>3, <1>5, <1>6, <2>1, <2>2
  <2>4. q = m
    BY <1>3, <2>1, <2>2, <2>3, SeqEqual
  <2> QED
    BY <1>5, <2>4 DEF q, Last, Front
<1>10. body_size(p) = Len(p) - 4
  <2>1. PICK n \in Nat : n = Len(body) /\ n <= 250
    BY <1>1
  <2>2. p[4] = n + 5 /\ Len(p) = n + 5
    BY <1>6, <1>7, <2>1
  <2>3. ((n + 5) - HEADER_SIZE) % 256 = n + 1
    BY <2>1 DEF HEADER_SIZE
  <2> QED
    BY <2>2, <2>3 DEF body_size, Size
<1>11. packet_craft(id, type, sel, body) = p
  BY DEF packet_craft, p, m, h
<1>12. Size(p) = Len(p) /\ Id(p) = id /\ Type(p) = type /\ Selector(p) = sel
  BY <1>6, <1>7 DEF Size, Id, Type, Selector
<1>13. Body(p) = body /\ crc_check(p)
  BY <1>8, <1>9 DEF Body, crc_check
<1> QED
  BY <1>5, <1>6, <1>10, <1>11, <1>12, <1>13 DEF Reads

LEMMA IdFacts ==
    /\ \A id \in 0 .. ID_MOD - 1 : id \in Byte /\ next_id(id) \in 0 .. ID_MOD - 1
    /\ 0 \in 0 .. ID_MOD - 1
    /\ \A e \in E_SUCCESS .. E_TOO_BIG : e \in Byte
    /\ ACK \in Byte /\ NAK \in Byte /\ DAT \in Byte /\ 0 \in Byte
<1>1. ID_MOD \in 2 .. 255
  BY SizesAssumption
<1>2. ASSUME NEW id \in 0 .. ID_MOD - 1
      PROVE  id \in Byte /\ (id + 1) % ID_MOD \in 0 .. ID_MOD - 1
  BY <1>1, <1>2, ByteFacts
<1> QED
  BY <1>1, <1>2, ByteFacts DEF next_id, E_SUCCESS, E_TOO_BIG, ACK, NAK, DAT

\* What the user may ask for fits a packet.
LEMMA CommandFacts ==
    ASSUME NEW c \in Commands \cup {Handshake}
    PROVE  /\ c \in [type : Byte, sel : Byte, body : Seq(Byte)]
           /\ c.type \in Byte /\ c.sel \in Byte /\ c.body \in Seq(Byte)
           /\ Len(c.body) <= 250
           /\ c.type \in {HND, ECHO, PING, GET_SPEED, SET_SPEED, APPLY, SET_SLAVE_ADDR}
           /\ c.type = HND <=> c = Handshake
           /\ Len(c.body) <= BODY_MAX_LEN
<1>1. CASE c = Handshake
  <2>1. <<>> \in Seq(Byte) /\ Len(<<>>) = 0 /\ 0 \in Byte /\ HND \in Byte
    BY ByteFacts DEF HND
  <2>2. Handshake.type = HND /\ Handshake.sel = 0 /\ Handshake.body = <<>>
    BY DEF Handshake
  <2>3. Handshake \in [type : Byte, sel : Byte, body : Seq(Byte)]
    BY <2>1 DEF Handshake
  <2>4. 0 <= BODY_MAX_LEN
    BY SizesAssumption
  <2> QED
    BY <1>1, <2>1, <2>2, <2>3, <2>4
<1>2. CASE c \in Commands
  <2>1. /\ c \in [type : ECHO .. APPLY \cup {SET_SLAVE_ADDR}, sel : Byte, body : Seq(Byte)]
        /\ Len(c.body) <= BODY_MAX_LEN
    BY <1>2, CommandsAssumption
  <2>2. c.type \in ECHO .. APPLY \cup {SET_SLAVE_ADDR}
    BY <2>1
  <2>3. c.type \in {ECHO, PING, GET_SPEED, SET_SPEED, APPLY, SET_SLAVE_ADDR}
    BY <2>2 DEF ECHO, PING, GET_SPEED, SET_SPEED, APPLY, SET_SLAVE_ADDR
  <2>4. c.type \in Byte /\ c.type # HND
    BY <2>3, ByteFacts DEF ECHO, PING, GET_SPEED, SET_SPEED, APPLY, SET_SLAVE_ADDR, HND
  <2>5. c \in [type : Byte, sel : Byte, body : Seq(Byte)]
    BY <2>1, <2>4
  <2>6. Len(c.body) <= 250
    <3>1. PICK n \in Nat : n = Len(c.body)
      BY <2>5, LenProperties
    <3>2. n <= BODY_MAX_LEN /\ BODY_MAX_LEN <= 250 /\ BODY_MAX_LEN \in Int
      BY <2>1, <3>1, SizesAssumption
    <3>3. n <= 250
      BY <3>2
    <3> QED
      BY <3>1, <3>3
  <2>7. Handshake.type = HND
    BY DEF Handshake
  <2> QED
    BY <2>1, <2>3, <2>4, <2>5, <2>6, <2>7
<1> QED
  BY <1>1, <1>2

-----------------------------------------------------------------------------
(* Types *)

\* A received packet is as long as its header says, unless it says less than a header.
Whole(p) == Len(p) >= 4 /\ (Size(p) >= 4 => Len(p) = Size(p))

TypeInv == TypeOK /\ (state \in {"HND", "ACK", "EXECUTE"} => Whole(rx))

LEMMA HeaderFacts ==
    ASSUME NEW p \in Seq(Byte), Len(p) >= 4
    PROVE  /\ Id(p) \in Byte /\ Type(p) \in Byte /\ Selector(p) \in Byte /\ Size(p) \in Byte
           /\ body_size(p) \in Nat
           /\ Size(p) >= 4 => body_size(p) = Size(p) - 4
<1>1. 1 \in 1 .. Len(p) /\ 2 \in 1 .. Len(p) /\ 3 \in 1 .. Len(p) /\ 4 \in 1 .. Len(p)
  BY LenProperties
<1>2. p[1] \in Byte /\ p[2] \in Byte /\ p[3] \in Byte /\ p[4] \in Byte
  BY <1>1, ElementOfSeq
<1>3. ASSUME NEW n \in Byte
      PROVE  (n - 4) % 256 \in Nat /\ (n >= 4 => (n - 4) % 256 = n - 4)
  <2>1. n \in Nat /\ n <= 255
    BY ByteFacts
  <2> QED
    BY <2>1, SMTT(30)
<1> QED
  BY <1>2, <1>3 DEF Id, Type, Selector, Size, body_size, HEADER_SIZE

LEMMA BodyFacts ==
    ASSUME NEW p \in Seq(Byte), Whole(p)
    PROVE  Body(p) \in Seq(Byte) /\ Len(Body(p)) <= 250
<1>1. PICK n \in Byte : n = Size(p)
  BY HeaderFacts DEF Whole
<1>2. PICK l \in Nat : l = Len(p)
  BY LenProperties
<1>3. n \in Nat /\ n <= 255 /\ l >= 4 /\ (n >= 4 => l = n)
  BY <1>1, <1>2, ByteFacts DEF Whole
<1>4. /\ SubSeq(p, 5, n - 1) \in Seq(Byte)
      /\ Len(SubSeq(p, 5, n - 1)) = IF 5 <= n - 1 THEN (n - 1) - 5 + 1 ELSE 0
  <2>1. 5 \in Nat /\ 5 >= 1 /\ n - 1 \in Int /\ n - 1 <= Len(p)
    BY <1>2, <1>3
  <2> QED
    BY <2>1, PartFacts
<1>5. Len(SubSeq(p, 5, n - 1)) <= 250
  BY <1>3, <1>4
<1>6. Body(p) = SubSeq(p, 5, n - 1)
  <2>1. HEADER_SIZE + 1 = 5 /\ n - CRC_SIZE = n - 1
    BY DEF HEADER_SIZE, CRC_SIZE
  <2> QED
    BY <1>1, <2>1 DEF Body
<1> QED
  BY <1>4, <1>5, <1>6

\* The packets that are crafted besides the user's.
LEMMA SmallPackets ==
    ASSUME CrcIsByte, NEW id \in Byte, NEW sel \in Byte, NEW type \in Byte
    PROVE  packet_craft(id, type, sel, <<>>) \in Seq(Byte)
<1>1. <<>> \in Seq(Byte) /\ Len(<<>>) <= 250
  OBVIOUS
<1> QED
  BY <1>1, PacketFacts DEF Reads

LEMMA AnswerType ==
    ASSUME CrcIsByte, NEW p \in Seq(Byte), Whole(p), mid \in 0 .. ID_MOD - 1,
           HasReply(Type(p))
    PROVE  Answer(p) \in Seq(Byte)
<1>1. mid \in Byte /\ DAT \in Byte /\ 0 \in Byte
  BY IdFacts
<1>2. CASE Type(p) = ECHO
  <2>1. packet_craft(mid, DAT, 0, Body(p)) \in Seq(Byte)
    BY <1>1, BodyFacts, PacketFacts DEF Reads
  <2> QED
    BY <1>2, <2>1 DEF Answer, ECHO, PING, GET_SPEED
<1>3. CASE Type(p) = PING
  <2>1. packet_craft(mid, DAT, 0, <<>>) \in Seq(Byte)
    BY <1>1, SmallPackets
  <2>2. Type(p) # ECHO /\ Type(p) # GET_SPEED
    BY <1>3 DEF ECHO, PING, GET_SPEED
  <2> QED
    BY <1>3, <2>1, <2>2, Zenon DEF Answer
<1>4. CASE Type(p) = GET_SPEED
  <2>1. <<0, 0>> \in Seq(Byte) /\ Len(<<0, 0>>) <= 250
    BY ByteFacts
  <2>2. Selector(p) \in Byte
    BY HeaderFacts DEF Whole
  <2>3. packet_craft(mid, DAT, Selector(p), <<0, 0>>) \in Seq(Byte)
    BY <1>1, <2>1, <2>2, PacketFacts DEF Reads
  <2>4. Type(p) # ECHO /\ Type(p) # PING
    BY <1>4 DEF ECHO, PING, GET_SPEED
  <2> QED
    BY <1>4, <2>3, <2>4, Zenon DEF Answer
<1> QED
  BY <1>2, <1>3, <1>4 DEF HasReply

LEMMA StartTypes ==
    ASSUME CrcIsByte, TypeInv, NEW c \in Commands \cup {Handshake},
           NEW id \in 0 .. ID_MOD - 1, Start(c, id)
    PROVE  TypeInv'
<1>1. packet_craft(id, c.type, c.sel, c.body) \in Seq(Byte)
  <2>1. id \in Byte
    BY IdFacts
  <2> QED
    <3>1. c.type \in Byte /\ c.sel \in Byte /\ c.body \in Seq(Byte) /\ Len(c.body) <= 250
      BY CommandFacts
    <3>2. Reads(packet_craft(id, c.type, c.sel, c.body), id, c.type, c.sel, c.body)
      BY <2>1, <3>1, PacketFacts
    <3> QED
      BY <3>2 DEF Reads
<1>2. c2m' \in Seq(Byte)
  BY <1>1, ConcatFacts DEF Start, Transmit, TypeInv, TypeOK
<1>3. m2c' \in Seq(Byte)
  <2>1. PICK k \in Nat : m2c' = Drop(m2c, k)
    <3>1. PICK k \in IF EAGER THEN 0 .. Len(m2c) ELSE {Len(m2c)} : m2c' = Drop(m2c, k)
      BY DEF Start, Transmit
    <3>2. Len(m2c) \in Nat
      BY LenProperties DEF TypeInv, TypeOK
    <3>3. k \in Nat
      BY <3>1, <3>2
    <3> QED
      BY <3>1, <3>3
  <2> QED
    BY <2>1, DropFacts DEF TypeInv, TypeOK
<1> QED
  BY <1>2, <1>3 DEF Start, TypeInv, TypeOK, master, Whole

LEMMA LogTypes ==
    ASSUME NEW l \in Seq([cmd : Commands \cup {Handshake}, end : Ends]),
           NEW c \in Commands \cup {Handshake}, NEW e \in Ends
    PROVE  Append(l, [cmd |-> c, end |-> e])
               \in Seq([cmd : Commands \cup {Handshake}, end : Ends])
<1>1. [cmd |-> c, end |-> e] \in [cmd : Commands \cup {Handshake}, end : Ends]
  OBVIOUS
<1> QED
  BY <1>1, AppendProperties

LEMMA ReplyTypes ==
    ASSUME TypeInv
    PROVE  /\ ReplyHeader => Id(m2c) \in Byte /\ Size(m2c) \in Nat
           /\ ReplyThere => Reply \in Seq(Byte) /\ Len(Reply) >= 4 /\ Id(Reply) \in Byte
           /\ ReplyThere => ReplyHeader
<1>1. ASSUME ReplyHeader
      PROVE  Id(m2c) \in Byte /\ Size(m2c) \in Byte /\ Size(m2c) \in Nat
  <2>1. m2c \in Seq(Byte) /\ Len(m2c) >= 4
    BY <1>1 DEF ReplyHeader, HEADER_SIZE, TypeInv, TypeOK
  <2>2. Id(m2c) \in Byte /\ Size(m2c) \in Byte
    BY <2>1, HeaderFacts
  <2> QED
    BY <2>2, ByteFacts
<1>2. ASSUME ReplyThere
      PROVE  Reply \in Seq(Byte) /\ Len(Reply) >= 4 /\ Id(Reply) \in Byte
  <2>1. PICK n \in Nat : n = Size(m2c)
    BY <1>1, <1>2 DEF ReplyThere
  <2>2. n >= 4 /\ n <= Len(m2c)
    BY <1>2, <2>1 DEF ReplyThere, HEADER_SIZE
  <2>3. SubSeq(m2c, 1, n) \in Seq(Byte) /\ Len(SubSeq(m2c, 1, n)) = n
    <3>1. n \in Int /\ 1 \in Nat /\ 1 >= 1 /\ m2c \in Seq(Byte) /\ 1 <= n /\ n - 1 + 1 = n
      BY <2>2 DEF TypeInv, TypeOK
    <3> QED
      BY <2>2, <3>1, PartFacts
  <2> QED
    BY <2>1, <2>2, <2>3, HeaderFacts DEF Reply
<1> QED
  BY <1>1, <1>2 DEF ReplyThere

LEMMA ClientTypes ==
    ASSUME CrcIsByte, TypeInv, Client
    PROVE  TypeInv'
<1>1. /\ cid \in 0 .. ID_MOD - 1 /\ next_id(cid) \in 0 .. ID_MOD - 1
      /\ 0 \in 0 .. ID_MOD - 1
      /\ cmd \in Commands \cup {Handshake}
      /\ c2m \in Seq(Byte) /\ m2c \in Seq(Byte)
  BY IdFacts DEF TypeInv, TypeOK
<1>2. ASSUME NEW ok \in BOOLEAN, Return(ok)
      PROVE  log' \in Seq([cmd : Commands \cup {Handshake}, end : Ends])
  <2>1. (IF ok THEN "ok" ELSE "failed") \in Ends
    BY DEF Ends
  <2>2. log \in Seq([cmd : Commands \cup {Handshake}, end : Ends])
    BY DEF TypeInv, TypeOK
  <2> QED
    BY <1>1, <1>2, <2>1, <2>2, LogTypes DEF Return
<1>3. ASSUME NEW k \in Nat
      PROVE  Drop(m2c, k) \in Seq(Byte)
  BY <1>1, DropFacts
<1>4. HEADER_SIZE \in Nat
  BY DEF HEADER_SIZE
<1>5. CASE SendFails
  <2>1. m2c' \in Seq(Byte)
    BY <1>3, <1>4, <1>5, ReplyTypes DEF SendFails
  <2>2. Return(FALSE) /\ c2m' = c2m /\ cid' = 0
    BY <1>5 DEF SendFails
  <2>3. log' \in Seq([cmd : Commands \cup {Handshake}, end : Ends])
    BY <1>2, <2>2
  <2> QED
    BY <1>1, <2>1, <2>2, <2>3 DEF Return, TypeInv, TypeOK, master, Whole
<1>6. CASE SendSucceeds
  <2>1. m2c' \in Seq(Byte) /\ c2m' = c2m /\ cid' = next_id(cid)
    BY <1>3, <1>6, ReplyTypes DEF SendSucceeds
  <2>2. CASE HasReply(cmd.type)
    BY <1>1, <1>6, <2>1, <2>2 DEF SendSucceeds, TypeInv, TypeOK, master, Whole
  <2>3. CASE ~HasReply(cmd.type)
    <3>1. Return(TRUE)
      BY <1>6, <2>3 DEF SendSucceeds
    <3>2. log' \in Seq([cmd : Commands \cup {Handshake}, end : Ends])
      BY <1>2, <3>1
    <3> QED
      BY <1>1, <2>1, <3>1, <3>2 DEF Return, TypeInv, TypeOK, master, Whole
  <2> QED
    BY <2>2, <2>3
<1>7. CASE RecvSucceeds
  <2> DEFINE ok == cmd.type = ECHO => Size(Reply) = Len(cmd.body) + HEADER_SIZE + CRC_SIZE
  <2>1. m2c' \in Seq(Byte)
    BY <1>3, <1>7, ReplyTypes DEF RecvSucceeds
  <2>2. c2m' \in Seq(Byte)
    <3>1. packet_craft(Id(Reply), ACK, 0, <<>>) \in Seq(Byte)
      BY <1>7, IdFacts, ReplyTypes, SmallPackets DEF RecvSucceeds
    <3> QED
      BY <1>1, <1>7, <3>1, ConcatFacts DEF RecvSucceeds
  <2>3. Return(ok) /\ ok \in BOOLEAN /\ cid' = next_id(cid)
    BY <1>7 DEF RecvSucceeds
  <2> HIDE DEF ok
  <2>4. log' \in Seq([cmd : Commands \cup {Handshake}, end : Ends])
    BY <1>2, <2>3
  <2> QED
    BY <1>1, <2>1, <2>2, <2>3, <2>4 DEF Return, TypeInv, TypeOK, master, Whole
<1>8. CASE RecvFails
  <2>1. m2c' \in Seq(Byte)
    BY <1>3, <1>4, <1>8, ReplyTypes DEF RecvFails
  <2>2. c2m' \in Seq(Byte)
    <3>1. Id(m2c) \in Byte
      BY <1>8, ReplyTypes DEF RecvFails, ForeignId
    <3>2. packet_craft(Id(m2c), NAK, 0, <<>>) \in Seq(Byte)
      BY <3>1, IdFacts, SmallPackets
    <3> QED
      BY <1>1, <1>8, <3>2, ConcatFacts DEF RecvFails
  <2>3. Return(FALSE) /\ cid' = cid
    BY <1>8 DEF RecvFails
  <2>4. log' \in Seq([cmd : Commands \cup {Handshake}, end : Ends])
    BY <1>2, <2>3
  <2> QED
    BY <1>1, <2>1, <2>2, <2>3, <2>4 DEF Return, TypeInv, TypeOK, master, Whole
<1> QED
  BY <1>5, <1>6, <1>7, <1>8 DEF Client

LEMMA SendTypes ==
    ASSUME TypeInv, NEW p \in Seq(Byte), MasterSend(p)
    PROVE  m2c' \in Seq(Byte)
<1>1. m2c \o p \in Seq(Byte) /\ m2c \in Seq(Byte)
  BY ConcatFacts DEF TypeInv, TypeOK
<1> QED
  BY <1>1 DEF MasterSend

\* The packet the master takes off the line.
LEMMA TakenFacts ==
    ASSUME TypeInv, PacketThere
    PROVE  LET n == HEADER_SIZE + body_size(c2m)
               p == SubSeq(c2m, 1, n)
           IN  n \in Nat /\ p \in Seq(Byte) /\ Whole(p)
<1>1. c2m \in Seq(Byte) /\ Len(c2m) >= 4
  BY DEF TypeInv, TypeOK, PacketThere, HeaderThere, HEADER_SIZE
<1>2. PICK b \in Nat : b = body_size(c2m)
  BY <1>1, HeaderFacts
<1>3. PICK z \in Byte : z = Size(c2m)
  BY <1>1, HeaderFacts
<1>4. z >= 4 => b = z - 4
  BY <1>1, <1>2, <1>3, HeaderFacts
<1>5. 4 + b <= Len(c2m)
  BY <1>2 DEF PacketThere, HEADER_SIZE
<1> DEFINE p == SubSeq(c2m, 1, 4 + b)
<1>6. /\ p \in Seq(Byte) /\ Len(p) = 4 + b
      /\ \A k \in 1 .. 4 + b : p[k] = c2m[k]
  <2>1. 1 \in Nat /\ 1 >= 1 /\ 4 + b \in Int /\ 1 <= 4 + b /\ (4 + b) - 1 + 1 = 4 + b
    BY <1>2
  <2>2. /\ p \in Seq(Byte) /\ Len(p) = 4 + b
        /\ \A k \in 1 .. 4 + b : p[k] = c2m[1 + k - 1]
    BY <1>1, <1>5, <2>1, PartFacts
  <2> QED
    BY <2>2
<1> HIDE DEF p
<1>7. Size(p) = z
  <2>1. 4 \in 1 .. 4 + b
    BY <1>2
  <2> QED
    BY <1>3, <1>6, <2>1 DEF Size
<1>8. Whole(p)
  <2>1. z \in Nat
    BY ByteFacts
  <2>2. 4 + b >= 4 /\ (z >= 4 => 4 + b = z)
    BY <1>2, <1>4, <2>1
  <2> QED
    BY <1>6, <1>7, <2>2 DEF Whole
<1>9. HEADER_SIZE + body_size(c2m) = 4 + b /\ 4 + b \in Nat
  BY <1>2 DEF HEADER_SIZE
<1> QED
  BY <1>6, <1>8, <1>9 DEF p

LEMMA ReceiveTypes ==
    ASSUME TypeInv, Receive
    PROVE  TypeInv'
<1>1. /\ \A k \in Nat : Drop(c2m, k) \in Seq(Byte)
      /\ HEADER_SIZE \in Nat
  BY DropFacts DEF TypeInv, TypeOK, HEADER_SIZE
<1>2. {E_SUCCESS, E_ID_MISMATCH, E_CORRUPTED_CHECKSUM, E_WRONG_TYPE, E_TOO_BIG}
          \subseteq E_SUCCESS .. E_TOO_BIG
  BY DEF E_SUCCESS, E_ID_MISMATCH, E_CORRUPTED_CHECKSUM, E_WRONG_TYPE, E_TOO_BIG
<1>3. UNCHANGED <<m2c, cpc, cid, cmd, open, mid, log, executed>>
  BY DEF Receive, client
<1>4. CASE HeaderBad /\ state' = "NAK" /\ error' = header_sanity(c2m)
           /\ c2m' = Drop(c2m, HEADER_SIZE) /\ rx' = rx
  <2>1. error' \in E_SUCCESS .. E_TOO_BIG
    BY <1>2, <1>4 DEF header_sanity
  <2> QED
    BY <1>1, <1>3, <1>4, <2>1 DEF TypeInv, TypeOK
<1>5. CASE /\ PacketThere
           /\ rx' = SubSeq(c2m, 1, HEADER_SIZE + body_size(c2m))
           /\ c2m' = Drop(c2m, HEADER_SIZE + body_size(c2m))
           /\ error' = IF Type(rx') >= TYPE_LIMIT THEN E_WRONG_TYPE
                       ELSE IF ~crc_check(rx') THEN E_CORRUPTED_CHECKSUM
                       ELSE E_SUCCESS
           /\ state' = IF error' # E_SUCCESS THEN "NAK"
                       ELSE IF Type(rx') = HND THEN "HND" ELSE "ACK"
  <2>1. rx' \in Seq(Byte) /\ Whole(rx)' /\ c2m' \in Seq(Byte)
    BY <1>1, <1>5, TakenFacts DEF Whole, Size
  <2>2. error' \in E_SUCCESS .. E_TOO_BIG
    BY <1>2, <1>5
  <2>3. state' \in {"RECEIVING", "HND", "ACK", "NAK", "EXECUTE"}
    BY <1>5
  <2> QED
    BY <1>3, <2>1, <2>2, <2>3 DEF TypeInv, TypeOK
<1> QED
  BY <1>4, <1>5 DEF Receive

LEMMA MasterTypes ==
    ASSUME CrcIsByte, TypeInv, Master
    PROVE  TypeInv'
<1>1. /\ mid \in 0 .. ID_MOD - 1 /\ next_id(mid) \in 0 .. ID_MOD - 1
      /\ 0 \in 0 .. ID_MOD - 1
      /\ mid \in Byte /\ error \in Byte /\ rx \in Seq(Byte)
  BY IdFacts DEF TypeInv, TypeOK
<1>2. CASE Receive
  BY <1>2, ReceiveTypes
<1>3. CASE Greet
  BY <1>1, <1>3 DEF Greet, TypeInv, TypeOK, client, Whole
<1>4. CASE Acknowledge
  <2>1. packet_craft(mid, ACK, 0, <<>>) \in Seq(Byte)
    BY <1>1, IdFacts, SmallPackets
  <2>2. m2c' \in Seq(Byte)
    BY <1>4, <2>1, SendTypes DEF Acknowledge
  <2> QED
    BY <1>1, <1>4, <2>2 DEF Acknowledge, TypeInv, TypeOK, client, Whole
<1>5. CASE Refuse
  <2>1. packet_craft(mid, NAK, error, <<>>) \in Seq(Byte)
    BY <1>1, IdFacts, SmallPackets
  <2>2. m2c' \in Seq(Byte)
    BY <1>5, <2>1, SendTypes DEF Refuse
  <2> QED
    BY <1>1, <1>5, <2>2 DEF Refuse, TypeInv, TypeOK, client, Whole
<1>6. CASE Execute
  <2>1. Whole(rx)
    BY <1>6 DEF Execute, TypeInv
  <2>2. m2c' \in Seq(Byte)
    <3>1. CASE HasReply(Type(rx))
      <4>1. Answer(rx) \in Seq(Byte)
        BY <1>1, <2>1, <3>1, AnswerType
      <4> QED
        BY <1>6, <3>1, <4>1, SendTypes DEF Execute
    <3>2. CASE ~HasReply(Type(rx))
      BY <1>6, <3>2 DEF Execute, TypeInv, TypeOK
    <3> QED
      BY <3>1, <3>2
  <2>3. executed' \in Seq([type : Byte, sel : Byte, body : Seq(Byte)])
    <3>1. [type |-> Type(rx), sel |-> Selector(rx), body |-> Body(rx)]
              \in [type : Byte, sel : Byte, body : Seq(Byte)]
      <4>1. Type(rx) \in Byte /\ Selector(rx) \in Byte
        BY <1>1, <2>1, HeaderFacts DEF Whole
      <4>2. Body(rx) \in Seq(Byte)
        BY <1>1, <2>1, BodyFacts
      <4> QED
        BY <4>1, <4>2
    <3>2. executed \in Seq([type : Byte, sel : Byte, body : Seq(Byte)])
      BY DEF TypeInv, TypeOK
    <3> QED
      BY <1>6, <3>1, <3>2, AppendProperties DEF Execute, Order
  <2> QED
    BY <1>1, <1>6, <2>2, <2>3 DEF Execute, TypeInv, TypeOK, client
<1> QED
  BY <1>2, <1>3, <1>4, <1>5, <1>6 DEF Master

LEMMA DamagedTypes ==
    ASSUME NEW s \in Seq(Byte), NEW k \in 1 .. Len(s), NEW d \in NOISE
    PROVE  [s EXCEPT ![k] = (s[k] + d) % 256] \in Seq(Byte)
<1>1. s[k] \in Byte /\ d \in 1 .. 255
  BY NoiseAssumption, ElementOfSeq
<1>2. ASSUME NEW b \in Byte, NEW n \in 1 .. 255
      PROVE  (b + n) % 256 \in Byte
  BY ByteFacts
<1>3. (s[k] + d) % 256 \in Byte
  BY <1>1, <1>2
<1> QED
  BY <1>3, ExceptSeq

LEMMA FaultTypes ==
    ASSUME TypeInv, Fault
    PROVE  TypeInv'
<1>1. /\ cmd \in Commands \cup {Handshake} /\ Handshake \in Commands \cup {Handshake}
      /\ log \in Seq([cmd : Commands \cup {Handshake}, end : Ends])
      /\ 0 \in 0 .. ID_MOD - 1
  BY IdFacts DEF TypeInv, TypeOK
<1>2. ASSUME NEW e \in {"reset", "killed", "noise"}
      PROVE  Append(log, [cmd |-> cmd, end |-> e])
                 \in Seq([cmd : Commands \cup {Handshake}, end : Ends])
  <2>1. e \in Ends
    BY DEF Ends
  <2> QED
    BY <1>1, <2>1, LogTypes
<1>3. <<>> \in Seq(Byte) /\ E_SUCCESS \in E_SUCCESS .. E_TOO_BIG
  BY DEF E_SUCCESS, E_TOO_BIG
<1>4. CASE MasterReset
  <2>1. log' \in Seq([cmd : Commands \cup {Handshake}, end : Ends])
    BY <1>2, <1>4 DEF MasterReset
  <2>2. state = "RECEIVING"
    BY <1>4 DEF MasterReset, Settled
  <2> QED
    BY <1>1, <1>3, <1>4, <2>1, <2>2 DEF MasterReset, TypeInv, TypeOK, client
<1>5. CASE ClientRestart
  <2>1. log' \in Seq([cmd : Commands \cup {Handshake}, end : Ends])
    BY <1>2, <1>5 DEF ClientRestart
  <2> QED
    BY <1>1, <1>5, <2>1 DEF ClientRestart, TypeInv, TypeOK, master, Whole
<1>6. CASE Noise
  <2>1. log' \in Seq([cmd : Commands \cup {Handshake}, end : Ends])
    BY <1>2, <1>6 DEF Noise
  <2>2. c2m' \in Seq(Byte) /\ m2c' \in Seq(Byte)
    <3>1. c2m \in Seq(Byte) /\ m2c \in Seq(Byte)
      BY DEF TypeInv, TypeOK
    <3>2. CASE \E k \in 1 .. Len(c2m) : Damaged(c2m, k) /\ UNCHANGED m2c
      <4>1. PICK k \in 1 .. Len(c2m), d \in NOISE :
                c2m' = [c2m EXCEPT ![k] = (c2m[k] + d) % 256] /\ m2c' = m2c
        BY <3>2 DEF Damaged
      <4> QED
        BY <3>1, <4>1, DamagedTypes
    <3>3. CASE \E k \in 1 .. Len(m2c) : Damaged(m2c, k) /\ UNCHANGED c2m
      <4>1. PICK k \in 1 .. Len(m2c), d \in NOISE :
                m2c' = [m2c EXCEPT ![k] = (m2c[k] + d) % 256] /\ c2m' = c2m
        BY <3>3 DEF Damaged
      <4> QED
        BY <3>1, <4>1, DamagedTypes
    <3> QED
      BY <1>6, <3>2, <3>3 DEF Noise
  <2> QED
    BY <1>6, <2>1, <2>2 DEF Noise, TypeInv, TypeOK, client, master, Whole
<1> QED
  BY <1>4, <1>5, <1>6 DEF Fault

LEMMA TypeStep ==
    ASSUME CrcIsByte, TypeInv, [Next]_vars
    PROVE  TypeInv'
<1>1. 0 \in 0 .. ID_MOD - 1 /\ cid \in 0 .. ID_MOD - 1
  BY IdFacts DEF TypeInv, TypeOK
<1>2. CASE Connect
  BY <1>1, <1>2, StartTypes DEF Connect
<1>3. CASE Command
  BY <1>1, <1>3, StartTypes DEF Command
<1>4. CASE Disconnect
  BY <1>4 DEF Disconnect, TypeInv, TypeOK, master, Whole
<1>5. CASE UNCHANGED vars
  BY <1>5 DEF vars, client, master, TypeInv, TypeOK, Whole
<1> QED
  BY <1>2, <1>3, <1>4, <1>5, ClientTypes, MasterTypes, FaultTypes DEF Next

LEMMA InitTypes == Init => TypeInv
<1>1. 0 \in 0 .. ID_MOD - 1
  BY IdFacts
<1>2. /\ <<>> \in Seq(Byte)
      /\ <<>> \in Seq([cmd : Commands \cup {Handshake}, end : Ends])
      /\ <<>> \in Seq([type : Byte, sel : Byte, body : Seq(Byte)])
  BY EmptySeq
<1>3. E_SUCCESS \in E_SUCCESS .. E_TOO_BIG
  BY DEF E_SUCCESS, E_TOO_BIG
<1> QED
  BY <1>1, <1>2, <1>3 DEF Init, TypeInv, TypeOK

\* Whatever the user, the line and the board do, the bytes on the line are bytes, ids
\* are reduced (next_id() of packet.c), and what the master carries out has been read
\* inside the packet it received.
THEOREM TypeCorrect ==
    ASSUME CrcIsByte PROVE Spec => []TypeOK
<1>1. Init => TypeInv
  BY InitTypes
<1>2. TypeInv /\ [Next]_vars => TypeInv'
  BY TypeStep
<1>3. TypeInv => TypeOK
  BY DEF TypeInv
<1> QED
  BY <1>1, <1>2, <1>3, PTL DEF Spec

-----------------------------------------------------------------------------
(* Packets that are on their way *)

\* What fits a packet, and the packet.
Payload == {c \in [type : Byte, sel : Byte, body : Seq(Byte)] : Len(c.body) <= 250}
Packet(id, c) == packet_craft(id, c.type, c.sel, c.body)

\* What packets to the master carry.
AckCommand == [type |-> ACK, sel |-> 0, body |-> <<>>]
Sent == Commands \cup {Handshake, AckCommand}

\* What the master answers with, and what it carries out.
AnswerTo(c) == [type |-> DAT,
                sel  |-> IF c.type = GET_SPEED THEN c.sel ELSE 0,
                body |-> IF c.type = ECHO THEN c.body
                         ELSE IF c.type = PING THEN <<>> ELSE <<0, 0>>]
Effect(c) == IF c.type \in {HND, ACK} THEN <<>> ELSE <<c>>

\* The packet of c is on its way to the master, which will take it, or has been received
\* and not been acknowledged yet; it has just been acknowledged; there is none.
Underway(c, id) ==
    /\ c.type = HND => id = 0
    /\ \/ state = "RECEIVING" /\ c2m = Packet(id, c) /\ (c.type # HND => id = mid)
       \/ state = "HND" /\ c2m = <<>> /\ rx = Packet(id, c) /\ c.type = HND
       \/ state = "ACK" /\ c2m = <<>> /\ rx = Packet(id, c) /\ id = mid
Acknowledged(c, id) ==
    state = "EXECUTE" /\ c2m = <<>> /\ rx = Packet(id, c) /\ mid = next_id(id)
AtRest == state = "RECEIVING" /\ c2m = <<>>

LEMMA PayloadPacket ==
    ASSUME CrcIsByte, NEW c \in Payload, NEW id \in Byte
    PROVE  /\ Packet(id, c) \in Seq(Byte) /\ Len(Packet(id, c)) = Len(c.body) + 5
           /\ Len(Packet(id, c)) \in Nat
           /\ 5 <= Len(Packet(id, c)) /\ Len(Packet(id, c)) <= 255
           /\ Id(Packet(id, c)) = id /\ Type(Packet(id, c)) = c.type
           /\ Selector(Packet(id, c)) = c.sel /\ Size(Packet(id, c)) = Len(Packet(id, c))
           /\ Body(Packet(id, c)) = c.body /\ crc_check(Packet(id, c))
           /\ body_size(Packet(id, c)) = Len(Packet(id, c)) - 4
<1>1. c.type \in Byte /\ c.sel \in Byte /\ c.body \in Seq(Byte) /\ Len(c.body) <= 250
  BY DEF Payload
<1> DEFINE p == packet_craft(id, c.type, c.sel, c.body)
<1>2. /\ p \in Seq(Byte) /\ Len(p) = Len(c.body) + 5
      /\ Len(p) \in Nat /\ 5 <= Len(p) /\ Len(p) <= 255
      /\ Id(p) = id /\ Type(p) = c.type /\ Selector(p) = c.sel /\ Size(p) = Len(p)
      /\ Body(p) = c.body /\ crc_check(p)
      /\ body_size(p) = Len(p) - 4
  <2>1. Reads(p, id, c.type, c.sel, c.body)
    BY <1>1, PacketFacts
  <2> QED
    BY <2>1 DEF Reads
<1>3. Packet(id, c) = p
  BY DEF Packet
<1> HIDE DEF p
<1> QED
  BY <1>2, <1>3

LEMMA AckFacts ==
    /\ AckCommand \in Payload /\ AckCommand \in Sent
    /\ AckCommand.type = ACK /\ AckCommand.sel = 0 /\ AckCommand.body = <<>>
    /\ AckCommand.type # HND /\ Effect(AckCommand) = <<>>
    /\ \A id : Packet(id, AckCommand) = packet_craft(id, ACK, 0, <<>>)
<1>1. <<>> \in Seq(Byte) /\ Len(<<>>) <= 250 /\ 0 \in Byte /\ ACK \in Byte
  BY IdFacts
<1>2. AckCommand.type = ACK /\ AckCommand.sel = 0 /\ AckCommand.body = <<>>
  BY DEF AckCommand
<1>3. AckCommand \in [type : Byte, sel : Byte, body : Seq(Byte)]
  BY <1>1 DEF AckCommand
<1>4. AckCommand \in Payload
  BY <1>1, <1>2, <1>3 DEF Payload
<1>5. ACK # HND
  BY DEF ACK, HND
<1> QED
  BY <1>2, <1>4, <1>5 DEF Sent, Effect, Packet

LEMMA SentFacts ==
    ASSUME NEW c \in Sent
    PROVE  /\ c \in Payload /\ Len(c.body) <= BODY_MAX_LEN
           /\ c = [type |-> c.type, sel |-> c.sel, body |-> c.body]
           /\ c.type \in {HND, ACK, ECHO, PING, GET_SPEED, SET_SPEED, APPLY, SET_SLAVE_ADDR}
<1>1. CASE c = AckCommand
  <2>1. Len(<<>>) = 0 /\ 0 <= BODY_MAX_LEN
    BY SizesAssumption
  <2>2. c \in [type : Byte, sel : Byte, body : Seq(Byte)]
    BY <1>1, AckFacts DEF Payload
  <2> QED
    BY <1>1, <2>1, <2>2, AckFacts
<1>2. CASE c \in Commands \cup {Handshake}
  <2>1. c = [type |-> c.type, sel |-> c.sel, body |-> c.body]
    BY <1>2, CommandFacts
  <2>2. c \in Payload
    BY <1>2, CommandFacts DEF Payload
  <2> QED
    BY <1>2, <2>1, <2>2, CommandFacts
<1> QED
  BY <1>1, <1>2 DEF Sent

LEMMA AnswerFacts ==
    ASSUME NEW c \in Commands \cup {Handshake}, HasReply(c.type)
    PROVE  /\ AnswerTo(c) \in Payload
           /\ c.type = ECHO => AnswerTo(c).body = c.body
<1> DEFINE sel == IF c.type = GET_SPEED THEN c.sel ELSE 0
           body == IF c.type = ECHO THEN c.body
                   ELSE IF c.type = PING THEN <<>> ELSE <<0, 0>>
<1>1. /\ c.sel \in Byte /\ c.body \in Seq(Byte) /\ Len(c.body) <= 250
      /\ 0 \in Byte /\ DAT \in Byte
  BY CommandFacts, IdFacts
<1>2. /\ <<>> \in Seq(Byte) /\ Len(<<>>) <= 250
      /\ <<0, 0>> \in Seq(Byte) /\ Len(<<0, 0>>) <= 250
  BY <1>1
<1>3. sel \in Byte
  BY <1>1
<1>4. body \in Seq(Byte) /\ Len(body) <= 250
  BY <1>1, <1>2
<1>5. AnswerTo(c) = [type |-> DAT, sel |-> sel, body |-> body]
  BY DEF AnswerTo
<1>6. c.type = ECHO => body = c.body
  OBVIOUS
<1> HIDE DEF sel, body
<1>7. AnswerTo(c) \in [type : Byte, sel : Byte, body : Seq(Byte)]
  BY <1>1, <1>3, <1>4, <1>5
<1>8. AnswerTo(c).body = body
  BY <1>5
<1> QED
  BY <1>4, <1>6, <1>7, <1>8 DEF Payload

\* The master takes the packet that is on its way to it, and nothing else is there.
LEMMA PacketTaken ==
    ASSUME CrcIsByte, TypeInv, NEW c \in Sent, NEW id \in 0 .. ID_MOD - 1,
           state = "RECEIVING", c2m = Packet(id, c),
           c.type = HND => id = 0, c.type # HND => id = mid
    PROVE  /\ ~HeaderBad /\ PacketThere
           /\ SubSeq(c2m, 1, HEADER_SIZE + body_size(c2m)) = c2m
           /\ Drop(c2m, HEADER_SIZE + body_size(c2m)) = <<>>
           /\ Type(c2m) = c.type /\ ~(Type(c2m) >= TYPE_LIMIT) /\ crc_check(c2m)
<1>1. id \in Byte /\ c \in Payload
  BY IdFacts, SentFacts
<1>2. /\ c2m \in Seq(Byte) /\ Len(c2m) = Len(c.body) + 5
      /\ Len(c2m) \in Nat /\ 5 <= Len(c2m) /\ Len(c2m) <= 255
      /\ Id(c2m) = id /\ Type(c2m) = c.type /\ Size(c2m) = Len(c2m)
      /\ crc_check(c2m) /\ body_size(c2m) = Len(c2m) - 4
  BY <1>1, PayloadPacket
<1>3. PICK n \in Nat : n = Len(c2m) /\ 5 <= n /\ n <= 255
  BY <1>2
<1>4. n <= PACKET_MAX_SIZE
  <2>1. PICK l \in Nat : l = Len(c.body)
    BY <1>1, LenProperties DEF Payload
  <2>2. Len(c.body) <= BODY_MAX_LEN /\ BODY_MAX_LEN \in Int
    <3>1. BODY_MAX_LEN \in Int
      BY SizesAssumption
    <3>2. Len(c.body) <= BODY_MAX_LEN
      BY SentFacts
    <3> QED
      BY <3>1, <3>2
  <2>3. n = l + 5
    BY <1>2, <1>3, <2>1
  <2> QED
    BY <2>1, <2>2, <2>3 DEF PACKET_MAX_SIZE, HEADER_SIZE, CRC_SIZE
<1>5. header_sanity(c2m) = E_SUCCESS
  <2>1. ~(Size(c2m) > PACKET_MAX_SIZE)
    <3>1. BODY_MAX_LEN \in Int
      BY SizesAssumption
    <3>2. PACKET_MAX_SIZE \in Int
      BY <3>1 DEF PACKET_MAX_SIZE, HEADER_SIZE, CRC_SIZE
    <3> QED
      BY <1>2, <1>3, <1>4, <3>2
  <2>2. ~(Id(c2m) # mid /\ (Type(c2m) # HND \/ Id(c2m) # 0))
    BY <1>2
  <2> QED
    BY <2>1, <2>2 DEF header_sanity
<1>6. HEADER_SIZE + body_size(c2m) = Len(c2m) /\ HeaderThere
  <2>1. body_size(c2m) = n - 4 /\ 4 + (n - 4) = n /\ n >= 4
    BY <1>2, <1>3
  <2> QED
    BY <1>3, <2>1 DEF HeaderThere, HEADER_SIZE
<1>7. SubSeq(c2m, 1, Len(c2m)) = c2m
  BY <1>2, SubSeqFull
<1>8. Drop(c2m, Len(c2m)) = <<>>
  BY <1>2, LenProperties, DropFacts
<1>9. ~(Type(c2m) >= TYPE_LIMIT)
  <2>1. c.type \in {HND, ACK, ECHO, PING, GET_SPEED, SET_SPEED, APPLY, SET_SLAVE_ADDR}
    BY SentFacts
  <2> QED
    BY <1>2, <2>1 DEF HND, ACK, ECHO, PING, GET_SPEED, SET_SPEED, APPLY, SET_SLAVE_ADDR,
                      TYPE_LIMIT
<1>10. ~HeaderBad
  BY <1>5 DEF HeaderBad
<1>11. PacketThere
  <2>1. Len(c2m) >= Len(c2m)
    BY <1>3
  <2> QED
    BY <1>5, <1>6, <2>1 DEF PacketThere
<1> QED
  BY <1>2, <1>6, <1>7, <1>8, <1>9, <1>10, <1>11

\* A reply that is all there is read whole, and what follows it is left.
LEMMA ReplyFacts ==
    ASSUME CrcIsByte, NEW c \in Payload, NEW rest \in Seq(Byte), cid \in 0 .. ID_MOD - 1,
           m2c = Packet(cid, c) \o rest
    PROVE  /\ ~ForeignId /\ ReplyThere /\ Reply = Packet(cid, c)
           /\ crc_check(Reply) /\ Type(Reply) = c.type /\ Id(Reply) = cid
           /\ Size(Reply) = Len(c.body) + 5
           /\ Drop(m2c, Size(m2c)) = rest
<1> DEFINE p == Packet(cid, c)
<1>1. cid \in Byte
  BY IdFacts
<1>2. /\ p \in Seq(Byte) /\ Len(p) = Len(c.body) + 5
      /\ Len(p) \in Nat /\ 5 <= Len(p) /\ Len(p) <= 255
      /\ Id(p) = cid /\ Type(p) = c.type /\ Size(p) = Len(p) /\ crc_check(p)
  BY <1>1, PayloadPacket
<1>3. PICK n \in Nat : n = Len(p) /\ 5 <= n /\ n <= 255
  BY <1>2
<1> HIDE DEF p
<1>4. m2c = p \o rest
  BY DEF p
<1>5. Len(m2c) >= n /\ \A i \in 1 .. n : m2c[i] = p[i]
  <2>1. PICK l \in Nat : l = Len(rest)
    BY LenProperties
  <2>2. Len(m2c) = Len(p) + Len(rest) /\ \A i \in 1 .. Len(p) : m2c[i] = p[i]
    <3>1. p \in Seq(Byte) /\ rest \in Seq(Byte)
      BY <1>2
    <3>2. /\ Len(p \o rest) = Len(p) + Len(rest)
          /\ \A i \in 1 .. Len(p) : (p \o rest)[i] = p[i]
      BY <3>1, ConcatFacts, Zenon
    <3> QED
      BY <1>4, <3>2
  <2>3. n + l >= n
    BY <2>1
  <2> QED
    BY <1>3, <2>1, <2>2, <2>3
<1>6. Id(m2c) = cid /\ Size(m2c) = n
  <2>1. 1 \in 1 .. n /\ 4 \in 1 .. n
    BY <1>3
  <2>2. m2c[1] = p[1] /\ m2c[4] = p[4]
    BY <1>5, <2>1
  <2> QED
    BY <1>2, <1>3, <2>2 DEF Id, Size
<1>7. SubSeq(m2c, 1, n) = p /\ Drop(m2c, n) = rest
  BY <1>2, <1>3, <1>4, CutFacts
<1>8. Reply = p
  BY <1>6, <1>7 DEF Reply
<1>9. ~ForeignId
  BY <1>6 DEF ForeignId
<1>10. ReplyThere
  <2>1. n >= 4 /\ Len(m2c) >= 4
    <3>1. m2c \in Seq(Byte)
      BY <1>2, <1>4, ConcatFacts
    <3>2. PICK k \in Nat : k = Len(m2c)
      BY <3>1, LenProperties
    <3>3. k >= n
      BY <1>5, <3>2
    <3>4. n >= 4 /\ k >= 4
      BY <3>3, <1>3
    <3> QED
      BY <3>2, <3>4
  <2> QED
    BY <1>5, <1>6, <1>9, <2>1 DEF ReplyThere, ReplyHeader, HEADER_SIZE
<1> QED
  BY <1>2, <1>6, <1>7, <1>8, <1>9, <1>10 DEF p

-----------------------------------------------------------------------------
(* What the master does with the one packet that is under way *)

LEMMA AtRestWaits == ASSUME AtRest PROVE ~Master
<1>1. ~HeaderThere
  BY DEF AtRest, HeaderThere, HEADER_SIZE
<1> QED
  BY <1>1 DEF AtRest, Master, Receive, Greet, Acknowledge, Refuse, Execute, HeaderBad,
              PacketThere

LEMMA ReceiveMoves ==
    ASSUME CrcIsByte, TypeInv, NEW c \in Sent, NEW id \in 0 .. ID_MOD - 1,
           Underway(c, id), Receive
    PROVE  Underway(c, id)' /\ m2c' = m2c /\ executed' = executed
<1>1. /\ state = "RECEIVING" /\ c2m = Packet(id, c)
      /\ (c.type = HND => id = 0) /\ (c.type # HND => id = mid)
  BY DEF Receive, Underway
<1>2. /\ ~HeaderBad /\ PacketThere
      /\ SubSeq(c2m, 1, HEADER_SIZE + body_size(c2m)) = c2m
      /\ Drop(c2m, HEADER_SIZE + body_size(c2m)) = <<>>
      /\ Type(c2m) = c.type /\ ~(Type(c2m) >= TYPE_LIMIT) /\ crc_check(c2m)
  BY <1>1, PacketTaken
<1>3. /\ rx' = c2m /\ c2m' = <<>>
      /\ error' = (IF Type(rx') >= TYPE_LIMIT THEN E_WRONG_TYPE
                   ELSE IF ~crc_check(rx') THEN E_CORRUPTED_CHECKSUM
                   ELSE E_SUCCESS)
      /\ state' = (IF error' # E_SUCCESS THEN "NAK"
                   ELSE IF Type(rx') = HND THEN "HND" ELSE "ACK")
      /\ mid' = mid /\ m2c' = m2c /\ executed' = executed
  BY <1>2 DEF Receive
<1>4. Type(rx') = c.type /\ ~(Type(rx') >= TYPE_LIMIT) /\ crc_check(rx')
  BY <1>2, <1>3
<1>5. state' = IF c.type = HND THEN "HND" ELSE "ACK"
  BY <1>3, <1>4
<1>6. rx' = Packet(id, c)
  BY <1>1, <1>3
<1> QED
  BY <1>1, <1>3, <1>5, <1>6 DEF Underway, Packet, packet_craft

LEMMA AcknowledgeMoves ==
    ASSUME NEW c, NEW id \in 0 .. ID_MOD - 1, CrcIsByte, Underway(c, id), Acknowledge
    PROVE  /\ Acknowledged(c, id)' /\ executed' = executed
           /\ m2c' = m2c \o Packet(id, AckCommand)
<1>1. c2m = <<>> /\ rx = Packet(id, c) /\ id = mid
  BY DEF Acknowledge, Underway
<1>2. Len(Packet(id, AckCommand)) <= TX_BUFFER_SIZE
  <2>1. Len(AckCommand.body) = 0
    BY AckFacts
  <2>2. Len(Packet(id, AckCommand)) = 5
    <3>1. id \in Byte /\ AckCommand \in Payload
      BY AckFacts, IdFacts
    <3>2. Len(Packet(id, AckCommand)) = Len(AckCommand.body) + 5
      BY <3>1, PayloadPacket
    <3> QED
      BY <2>1, <3>2
  <2>3. TX_BUFFER_SIZE >= 5
    BY SizesAssumption DEF HEADER_SIZE, CRC_SIZE
  <2> QED
    BY <2>2, <2>3
<1>3. m2c' = m2c \o Packet(id, AckCommand)
  BY <1>1, <1>2, AckFacts DEF Acknowledge, MasterSend
<1>4. /\ state' = "EXECUTE" /\ c2m' = <<>> /\ rx' = rx /\ mid' = next_id(id)
      /\ executed' = executed
  BY <1>1 DEF Acknowledge
<1> QED
  BY <1>1, <1>3, <1>4 DEF Acknowledged, Packet, packet_craft

\* The answer is the command's, and the command is carried out unless it is a handshake
\* or an acknowledgement.
LEMMA ExecuteMoves ==
    ASSUME CrcIsByte, TypeInv, NEW c \in Sent, NEW id \in 0 .. ID_MOD - 1,
           Acknowledged(c, id), Execute
    PROVE  /\ AtRest' /\ mid' = mid
           /\ executed' = executed \o Effect(c)
           /\ \/ m2c' = m2c
              \/ HasReply(c.type) /\ m2c' = m2c \o Packet(mid, AnswerTo(c))
<1>1. c2m = <<>> /\ rx = Packet(id, c)
  BY DEF Acknowledged
<1>2. /\ Type(rx) = c.type /\ Selector(rx) = c.sel /\ Body(rx) = c.body
      /\ c.type \in {HND, ACK, ECHO, PING, GET_SPEED, SET_SPEED, APPLY, SET_SLAVE_ADDR}
      /\ c = [type |-> c.type, sel |-> c.sel, body |-> c.body]
      /\ c \in [type : Byte, sel : Byte, body : Seq(Byte)]
  <2>1. /\ c.type \in {HND, ACK, ECHO, PING, GET_SPEED, SET_SPEED, APPLY, SET_SLAVE_ADDR}
        /\ c = [type |-> c.type, sel |-> c.sel, body |-> c.body] /\ c \in Payload
    BY SentFacts
  <2>2. id \in Byte
    BY IdFacts
  <2>3. Type(rx) = c.type /\ Selector(rx) = c.sel /\ Body(rx) = c.body
    BY <1>1, <2>1, <2>2, PayloadPacket
  <2> QED
    BY <2>1, <2>3 DEF Payload
<1>3. AtRest' /\ mid' = mid
  BY <1>1 DEF Execute, AtRest
<1>4. executed \in Seq([type : Byte, sel : Byte, body : Seq(Byte)])
  BY DEF TypeInv, TypeOK
<1>5. executed' = executed \o Effect(c)
  <2>1. CASE c.type \in {HND, ACK}
    <3>1. ~IsOrder(rx)
      BY <1>2, <2>1 DEF IsOrder, HND, ACK, ECHO, APPLY, SET_SLAVE_ADDR
    <3>2. executed' = executed
      BY <3>1 DEF Execute
    <3>3. executed \o <<>> = executed
      BY <1>4, ConcatEmptySeq
    <3> QED
      BY <2>1, <3>2, <3>3 DEF Effect
  <2>2. CASE c.type \notin {HND, ACK}
    <3>1. IsOrder(rx)
      BY <1>2, <2>2 DEF IsOrder, ECHO, PING, GET_SPEED, SET_SPEED, APPLY, SET_SLAVE_ADDR
    <3>2. executed' = Append(executed, c)
      BY <1>2, <3>1 DEF Execute, Order
    <3>3. Append(executed, c) = executed \o <<c>>
      BY <1>2, <1>4, AppendIsConcat
    <3> QED
      BY <2>2, <3>2, <3>3 DEF Effect
  <2> QED
    BY <2>1, <2>2
<1>6. ASSUME HasReply(c.type)
      PROVE  Answer(rx) = Packet(mid, AnswerTo(c))
  <2>1. /\ AnswerTo(c).type = DAT
        /\ AnswerTo(c).sel = IF c.type = GET_SPEED THEN c.sel ELSE 0
        /\ AnswerTo(c).body = IF c.type = ECHO THEN c.body
                              ELSE IF c.type = PING THEN <<>> ELSE <<0, 0>>
    BY DEF AnswerTo
  <2>2. ECHO # PING /\ ECHO # GET_SPEED /\ PING # GET_SPEED
    BY DEF ECHO, PING, GET_SPEED
  <2>3. CASE c.type = ECHO
    BY <1>2, <2>1, <2>2, <2>3, Zenon DEF Answer, Packet
  <2>4. CASE c.type = PING
    BY <1>2, <2>1, <2>2, <2>4, Zenon DEF Answer, Packet
  <2>5. CASE c.type = GET_SPEED
    BY <1>2, <2>1, <2>2, <2>5, Zenon DEF Answer, Packet
  <2> QED
    BY <1>6, <2>3, <2>4, <2>5 DEF HasReply
<1>7. m2c' = m2c \/ (HasReply(c.type) /\ m2c' = m2c \o Packet(mid, AnswerTo(c)))
  BY <1>2, <1>6 DEF Execute, MasterSend
<1> QED
  BY <1>3, <1>5, <1>7

\* A step of the master brings the packet one stage further.
LEMMA MasterMoves ==
    ASSUME CrcIsByte, TypeInv, NEW c \in Sent, NEW id \in 0 .. ID_MOD - 1,
           Underway(c, id) \/ Acknowledged(c, id), Master
    PROVE  /\ UNCHANGED <<cpc, cid, cmd, open, log>>
           /\ \/ /\ Underway(c, id) /\ Underway(c, id)'
                 /\ m2c' = m2c /\ executed' = executed
              \/ /\ Underway(c, id) /\ Acknowledged(c, id)'
                 /\ m2c' = m2c \o Packet(id, AckCommand) /\ executed' = executed
              \/ /\ Acknowledged(c, id) /\ AtRest' /\ mid' = mid
                 /\ executed' = executed \o Effect(c)
                 /\ \/ m2c' = m2c
                    \/ HasReply(c.type) /\ m2c' = m2c \o Packet(mid, AnswerTo(c))
<1>1. UNCHANGED <<cpc, cid, cmd, open, log>>
  BY DEF Master, Receive, Greet, Acknowledge, Refuse, Execute, client
<1>2. state # "NAK"
  BY DEF Underway, Acknowledged
<1>3. CASE Receive
  <2>1. Underway(c, id)
    BY <1>3 DEF Receive, Acknowledged
  <2> QED
    BY <1>1, <1>3, <2>1, ReceiveMoves
<1>4. CASE Greet
  <2>1. Underway(c, id)
    BY <1>4 DEF Greet, Acknowledged
  <2>2. c.type = HND /\ id = 0 /\ c2m = <<>> /\ rx = Packet(id, c)
    BY <1>4, <2>1 DEF Greet, Underway
  <2>3. /\ state' = "ACK" /\ mid' = 0 /\ c2m' = c2m /\ rx' = rx /\ m2c' = m2c
        /\ executed' = executed
    BY <1>4 DEF Greet
  <2>4. Underway(c, id)'
    BY <2>2, <2>3 DEF Underway, Packet, packet_craft
  <2> QED
    BY <1>1, <2>1, <2>3, <2>4
<1>5. CASE Acknowledge
  <2>1. Underway(c, id)
    BY <1>5 DEF Acknowledge, Acknowledged
  <2> QED
    BY <1>1, <1>5, <2>1, AcknowledgeMoves
<1>6. CASE Refuse
  BY <1>2, <1>6 DEF Refuse
<1>7. CASE Execute
  <2>1. Acknowledged(c, id)
    BY <1>7 DEF Execute, Underway
  <2> QED
    BY <1>1, <1>7, <2>1, ExecuteMoves
<1> QED
  BY <1>3, <1>4, <1>5, <1>6, <1>7 DEF Master

-----------------------------------------------------------------------------
(* Reports *)

\* x is, in order, what the log l reports as successful and some of what was killed.
Entries(l, end) == {i \in 1 .. Len(l) : l[i].end = end}
Listed(l, I) == {i \in I : l[i].cmd.type # HND}
Lists(l, x, J) ==
    \E f \in [1 .. Len(x) -> J] :
        /\ \A a, b \in 1 .. Len(x) : a < b => f[a] < f[b]
        /\ \A j \in J : \E a \in 1 .. Len(x) : f[a] = j
        /\ \A a \in 1 .. Len(x) : x[a] = l[f[a]].cmd
TrueTo(l, x) ==
    \E K \in SUBSET Entries(l, "killed") : Lists(l, x, Listed(l, Entries(l, "ok") \cup K))

Entry == [cmd : Commands \cup {Handshake}, end : Ends]
Done == [type : Byte, sel : Byte, body : Seq(Byte)]

\* A command that ends with the log is listed last.
LEMMA ListsOneMore ==
    ASSUME NEW l \in Seq(Entry), NEW l2 \in Seq(Entry), Len(l2) = Len(l) + 1,
           \A i \in 1 .. Len(l) : l2[i] = l[i],
           NEW x \in Seq(Done), NEW J \in SUBSET (1 .. Len(l)), Lists(l, x, J)
    PROVE  /\ Lists(l2, x, J)
           /\ Lists(l2, Append(x, l2[Len(l) + 1].cmd), J \cup {Len(l) + 1})
<1>1. PICK f \in [1 .. Len(x) -> J] :
          /\ \A a, b \in 1 .. Len(x) : a < b => f[a] < f[b]
          /\ \A j \in J : \E a \in 1 .. Len(x) : f[a] = j
          /\ \A a \in 1 .. Len(x) : x[a] = l[f[a]].cmd
  BY DEF Lists
<1>2. PICK n \in Nat : n = Len(x)
  BY LenProperties
<1>3. PICK m \in Nat : m = Len(l)
  BY LenProperties
<1>4. \A a \in 1 .. n : f[a] \in J /\ f[a] \in 1 .. m /\ x[a] = l2[f[a]].cmd
  BY <1>1, <1>2, <1>3
<1>5. Lists(l2, x, J)
  BY <1>1, <1>2, <1>4 DEF Lists
<1> DEFINE c == l2[m + 1].cmd
           y == Append(x, c)
           g == [a \in 1 .. n + 1 |-> IF a <= n THEN f[a] ELSE m + 1]
<1>6. Len(y) = n + 1 /\ y[n + 1] = c /\ \A a \in 1 .. n : y[a] = x[a]
  BY <1>2
<1> HIDE DEF y
<1>7. g \in [1 .. n + 1 -> J \cup {m + 1}]
  BY <1>4
<1>8. g[n + 1] = m + 1 /\ \A a \in 1 .. n : g[a] = f[a]
  BY <1>2
<1> HIDE DEF g, c
<1>9. \A a, b \in 1 .. n + 1 : a < b => g[a] < g[b]
  <2>1. ASSUME NEW a \in 1 .. n + 1, NEW b \in 1 .. n + 1, a < b
        PROVE  g[a] < g[b]
    <3>1. a \in 1 .. n
      BY <1>2, <2>1
    <3>2. CASE b = n + 1
      <4>1. g[a] \in 1 .. m
        BY <1>4, <1>8, <3>1
      <4> QED
        BY <1>3, <1>8, <3>2, <4>1
    <3>3. CASE b # n + 1
      <4>1. b \in 1 .. n
        BY <1>2, <3>3
      <4>2. f[a] < f[b]
        BY <1>1, <1>2, <2>1, <3>1, <4>1
      <4> QED
        BY <1>8, <3>1, <4>1, <4>2
    <3> QED
      BY <3>2, <3>3
  <2> QED
    BY <2>1
<1>10. \A j \in J \cup {m + 1} : \E a \in 1 .. n + 1 : g[a] = j
  <2>1. ASSUME NEW j \in J
        PROVE  \E a \in 1 .. n + 1 : g[a] = j
    <3>1. PICK a \in 1 .. n : f[a] = j
      BY <1>1, <1>2
    <3>2. a \in 1 .. n + 1 /\ g[a] = j
      BY <1>2, <1>8, <3>1
    <3> QED
      BY <3>2
  <2>2. n + 1 \in 1 .. n + 1
    BY <1>2
  <2> QED
    BY <1>8, <2>1, <2>2
<1>11. \A a \in 1 .. n + 1 : y[a] = l2[g[a]].cmd
  <2>1. \A a \in 1 .. n : y[a] = l2[g[a]].cmd
    BY <1>4, <1>6, <1>8
  <2>2. y[n + 1] = l2[g[n + 1]].cmd
    BY <1>6, <1>8 DEF c
  <2>3. \A a \in 1 .. n + 1 : a \in 1 .. n \/ a = n + 1
    BY <1>2
  <2> QED
    BY <2>1, <2>2, <2>3
<1>12. Lists(l2, y, J \cup {m + 1})
  <2>1. g \in [1 .. Len(y) -> J \cup {m + 1}]
    BY <1>6, <1>7
  <2>2. /\ \A a, b \in 1 .. Len(y) : a < b => g[a] < g[b]
        /\ \A j \in J \cup {m + 1} : \E a \in 1 .. Len(y) : g[a] = j
        /\ \A a \in 1 .. Len(y) : y[a] = l2[g[a]].cmd
    BY <1>6, <1>9, <1>10, <1>11
  <2> QED
    BY <2>1, <2>2, Zenon DEF Lists
<1> QED
  BY <1>3, <1>5, <1>12 DEF y, c

LEMMA LoggedTrue ==
    ASSUME NEW l \in Seq(Entry), NEW x \in Seq(Done), NEW c \in Commands \cup {Handshake},
           NEW e \in {"ok", "killed"}, TrueTo(l, x)
    PROVE  TrueTo(Append(l, [cmd |-> c, end |-> e]), x \o Effect(c))
<1> DEFINE l2 == Append(l, [cmd |-> c, end |-> e])
<1>1. PICK m \in Nat : m = Len(l)
  BY LenProperties
<1>2. /\ l2 \in Seq(Entry) /\ Len(l2) = m + 1
      /\ \A i \in 1 .. m : l2[i] = l[i]
      /\ l2[m + 1].cmd = c /\ l2[m + 1].end = e
  <2>1. [cmd |-> c, end |-> e] \in Entry
    BY DEF Entry, Ends
  <2> QED
    BY <1>1, <2>1, AppendProperties
<1> HIDE DEF l2
<1>3. PICK K \in SUBSET Entries(l, "killed") :
          Lists(l, x, Listed(l, Entries(l, "ok") \cup K))
  BY DEF TrueTo
<1> DEFINE I == Entries(l, "ok") \cup K
           K2 == IF e = "killed" THEN K \cup {m + 1} ELSE K
           I2 == Entries(l2, "ok") \cup K2
<1>4. I \in SUBSET (1 .. m)
  BY <1>1 DEF Entries
<1>5. K2 \in SUBSET Entries(l2, "killed")
  <2>1. \A i \in K : i \in 1 .. m + 1 /\ l2[i].end = "killed"
    BY <1>1, <1>2 DEF Entries
  <2>2. e = "killed" => m + 1 \in 1 .. m + 1 /\ l2[m + 1].end = "killed"
    BY <1>1, <1>2
  <2>3. \A i \in K2 : i \in 1 .. Len(l2) /\ l2[i].end = "killed"
    BY <1>2, <2>1, <2>2
  <2> QED
    BY <2>3 DEF Entries
<1>6. I2 = I \cup {m + 1}
  <2>1. \A i \in 1 .. m + 1 : i \in 1 .. m \/ i = m + 1
    BY <1>1
  <2>2. Entries(l2, "ok") = Entries(l, "ok") \cup (IF e = "ok" THEN {m + 1} ELSE {})
    BY <1>1, <1>2, <2>1 DEF Entries
  <2> QED
    BY <2>2
<1> HIDE DEF I, I2, K2
<1>7. Listed(l2, I2) = Listed(l, I) \cup (IF c.type # HND THEN {m + 1} ELSE {})
  BY <1>2, <1>4, <1>6 DEF Listed
<1>8. Listed(l, I) \in SUBSET (1 .. Len(l))
  BY <1>1, <1>4 DEF Listed
<1>9. /\ Lists(l2, x, Listed(l, I))
      /\ Lists(l2, Append(x, c), Listed(l, I) \cup {m + 1})
  <2>1. Lists(l, x, Listed(l, I))
    BY <1>3 DEF I
  <2>2. Len(l2) = Len(l) + 1 /\ \A i \in 1 .. Len(l) : l2[i] = l[i]
    BY <1>1, <1>2
  <2>3. l2[Len(l) + 1].cmd = c /\ Len(l) + 1 = m + 1
    BY <1>1, <1>2
  <2> QED
    BY <1>2, <1>8, <2>1, <2>2, <2>3, ListsOneMore
<1>10. x \o Effect(c) = IF c.type # HND THEN Append(x, c) ELSE x
  <2>1. c \in Done /\ c.type # ACK
    BY CommandFacts, SMTT(40) DEF Done, ACK, HND, ECHO, PING, GET_SPEED, SET_SPEED, APPLY,
                        SET_SLAVE_ADDR
  <2>2. x \o <<c>> = Append(x, c)
    BY <2>1, AppendIsConcat
  <2>3. x \o <<>> = x
    BY ConcatEmptySeq
  <2> QED
    BY <2>1, <2>2, <2>3 DEF Effect
<1>11. Lists(l2, x \o Effect(c), Listed(l2, I2))
  <2>1. CASE c.type # HND
    BY <1>7, <1>9, <1>10, <2>1
  <2>2. CASE c.type = HND
    <3>1. Listed(l2, I2) = Listed(l, I)
      BY <1>7, <2>2
    <3> QED
      BY <1>9, <1>10, <2>2, <3>1
  <2> QED
    BY <2>1, <2>2
<1>12. TrueTo(l2, x \o Effect(c))
  BY <1>5, <1>11 DEF TrueTo, I2
<1> QED
  BY <1>12 DEF l2

\* A restart of the board says nothing about commands.
LEMMA ResetLogged ==
    ASSUME NEW l \in Seq(Entry), NEW x \in Seq(Done), NEW c \in Commands \cup {Handshake},
           TrueTo(l, x)
    PROVE  TrueTo(Append(l, [cmd |-> c, end |-> "reset"]), x)
<1> DEFINE l2 == Append(l, [cmd |-> c, end |-> "reset"])
<1>1. PICK m \in Nat : m = Len(l)
  BY LenProperties
<1>2. /\ l2 \in Seq(Entry) /\ Len(l2) = m + 1
      /\ \A i \in 1 .. m : l2[i] = l[i]
      /\ l2[m + 1].end = "reset"
  <2>1. [cmd |-> c, end |-> "reset"] \in Entry
    BY DEF Entry, Ends
  <2> QED
    BY <1>1, <2>1, AppendProperties
<1> HIDE DEF l2
<1>3. PICK K \in SUBSET Entries(l, "killed") :
          Lists(l, x, Listed(l, Entries(l, "ok") \cup K))
  BY DEF TrueTo
<1>4. \A i \in 1 .. m + 1 : i \in 1 .. m \/ i = m + 1
  BY <1>1
<1>5. Entries(l2, "ok") = Entries(l, "ok") /\ Entries(l2, "killed") = Entries(l, "killed")
  BY <1>1, <1>2, <1>4 DEF Entries
<1> DEFINE I == Entries(l, "ok") \cup K
<1>6. I \in SUBSET (1 .. m)
  BY <1>1 DEF Entries
<1> HIDE DEF I
<1>7. Listed(l2, I) = Listed(l, I) /\ Listed(l, I) \in SUBSET (1 .. Len(l))
  BY <1>1, <1>2, <1>6 DEF Listed
<1>8. Lists(l2, x, Listed(l, I))
  <2>1. Lists(l, x, Listed(l, I))
    BY <1>3 DEF I
  <2>2. Len(l2) = Len(l) + 1 /\ \A i \in 1 .. Len(l) : l2[i] = l[i]
    BY <1>1, <1>2
  <2> QED
    BY <1>2, <1>7, <2>1, <2>2, ListsOneMore
<1>9. TrueTo(l2, x)
  BY <1>5, <1>7, <1>8 DEF TrueTo, I
<1> QED
  BY <1>9 DEF l2

-----------------------------------------------------------------------------
(* The invariant of an orderly link with a patient user *)

\* The log once the command in progress has ended in e.
Logged(e) == Append(log, [cmd |-> cmd, end |-> e])

\* When the ids must agree: after a success, and while the device is open unless the
\* board was reset since.
Reported == log = <<>> \/ log[Len(log)].end = "ok"
JustReset == log # <<>> /\ log[Len(log)].end = "reset"
Agreed == Reported \/ (open /\ ~JustReset)

\* A command that was killed, or the acknowledgement of an answer, may still be under way.
\* The client's id is the one the master will have, if they must agree.
IdleInv ==
    \/ /\ AtRest
       /\ TrueTo(log, executed)
       /\ Agreed => cid = mid
    \/ \E c \in Sent, id \in 0 .. ID_MOD - 1 :
           /\ Underway(c, id) \/ Acknowledged(c, id)
           /\ TrueTo(log, executed \o Effect(c))
           /\ Agreed => cid = next_id(id)

\* The command is under way, is acknowledged, has been carried out.
AckInv ==
    \/ /\ Underway(cmd, cid)
       /\ m2c = <<>>
       /\ TrueTo(log, executed)
    \/ /\ Acknowledged(cmd, cid)
       /\ m2c = Packet(cid, AckCommand)
       /\ TrueTo(log, executed)
    \/ /\ AtRest /\ mid = next_id(cid)
       /\ \/ m2c = Packet(cid, AckCommand)
          \/ /\ HasReply(cmd.type)
             /\ m2c = Packet(cid, AckCommand) \o Packet(mid, AnswerTo(cmd))
       /\ \A e \in {"ok", "killed"} : TrueTo(Logged(e), executed)

\* An answer longer than the master's buffer never comes.
DatInv ==
    /\ HasReply(cmd.type)
    /\ \/ /\ \E id \in 0 .. ID_MOD - 1 : Acknowledged(cmd, id)
          /\ mid = cid /\ m2c = <<>>
          /\ TrueTo(log, executed)
       \/ /\ AtRest /\ mid = cid
          /\ m2c \in {<<>>, Packet(mid, AnswerTo(cmd))}
          /\ \A e \in {"ok", "killed"} : TrueTo(Logged(e), executed)

LinkInv == /\ cpc = "idle" => IdleInv
           /\ cpc = "ack"  => AckInv
           /\ cpc = "dat"  => DatInv

LEMMA InitLink == ASSUME Init PROVE LinkInv
<1>1. TrueTo(log, executed)
  <2> DEFINE f == [a \in 1 .. 0 |-> 0]
             J == Listed(log, Entries(log, "ok") \cup {})
  <2>1. Len(log) = 0 /\ Len(executed) = 0 /\ \A i : i \notin 1 .. 0
    BY DEF Init
  <2>2. J = {}
    BY <2>1 DEF Listed, Entries
  <2>3. f \in [1 .. 0 -> J]
    BY <2>1
  <2> HIDE DEF f, J
  <2>4. Lists(log, executed, J)
    BY <2>1, <2>2, <2>3, Zenon DEF Lists
  <2>5. {} \in SUBSET Entries(log, "killed")
    OBVIOUS
  <2> QED
    BY <2>4, <2>5 DEF TrueTo, J
<1> QED
  BY <1>1 DEF Init, LinkInv, IdleInv, AtRest

\* A patient user finds the line empty.
LEMMA QuietRests ==
    ASSUME CrcIsByte, TypeInv, IdleInv, Settled
    PROVE  AtRest /\ TrueTo(log, executed) /\ (Agreed => cid = mid)
<1>1. ASSUME NEW c \in Sent, NEW id \in 0 .. ID_MOD - 1,
             Underway(c, id) \/ Acknowledged(c, id)
      PROVE  FALSE
  <2>1. state = "RECEIVING" /\ Underway(c, id)
    BY <1>1 DEF Settled, Acknowledged
  <2>2. c2m = Packet(id, c) /\ (c.type = HND => id = 0) /\ (c.type # HND => id = mid)
    BY <2>1 DEF Underway
  <2>3. PacketThere
    BY <2>1, <2>2, PacketTaken
  <2> QED
    BY <2>3 DEF Settled
<1> QED
  BY <1>1 DEF IdleInv

LEMMA StartLink ==
    ASSUME CrcIsByte, ~EAGER, TypeInv, LinkInv, NEW c \in Commands \cup {Handshake},
           NEW id \in 0 .. ID_MOD - 1, Start(c, id),
           c.type = HND => id = 0, c.type # HND => Agreed /\ id = cid
    PROVE  LinkInv' /\ AtRest /\ Underway(c, id)'
<1>1. AtRest /\ TrueTo(log, executed) /\ (Agreed => cid = mid)
  BY QuietRests DEF Start, LinkInv
<1>2. id \in Byte /\ c \in Payload
  BY IdFacts, SentFacts DEF Sent
<1>3. m2c' = <<>> /\ c2m' = Packet(id, c)
  <2>1. m2c' = Drop(m2c, Len(m2c))
    BY DEF Start, Transmit
  <2>2. Drop(m2c, Len(m2c)) = <<>>
    BY LenProperties, DropFacts DEF TypeInv, TypeOK
  <2>3. c2m' = <<>> \o Packet(id, c)
    BY <1>1 DEF Start, Transmit, AtRest, Packet
  <2>4. Packet(id, c) \in Seq(Byte)
    BY <1>2, PayloadPacket
  <2>5. <<>> \o Packet(id, c) = Packet(id, c)
    BY <2>4, ConcatEmptySeq
  <2> QED
    BY <2>1, <2>2, <2>3, <2>5
<1>4. /\ cpc' = "ack" /\ cmd' = c /\ cid' = id /\ state' = "RECEIVING" /\ mid' = mid
      /\ log' = log /\ executed' = executed
  BY <1>1 DEF Start, master, AtRest
<1>5. Underway(cmd, cid)' /\ Underway(c, id)'
  BY <1>1, <1>3, <1>4 DEF Underway, Packet, packet_craft
<1>6. TrueTo(log, executed)'
  BY <1>1, <1>4
<1> QED
  BY <1>1, <1>3, <1>4, <1>5, <1>6 DEF LinkInv, AckInv

\* The command in progress, and what is true of the log when it ends.
LEMMA CommandLogged ==
    ASSUME TypeInv, TrueTo(log, executed), NEW e \in {"ok", "killed"}
    PROVE  TrueTo(Logged(e), executed \o Effect(cmd))
BY LoggedTrue DEF TypeInv, TypeOK, Logged, Entry, Done

LEMMA NoReply ==
    ASSUME m2c = <<>>
    PROVE  ~SendFails /\ ~SendSucceeds /\ ~RecvSucceeds /\ ~RecvFails
<1>1. ~ReplyHeader
  BY DEF ReplyHeader, HEADER_SIZE
<1> QED
  BY <1>1 DEF SendFails, SendSucceeds, RecvSucceeds, RecvFails, ForeignId, ReplyThere

\* The acknowledgement is the command's own: the command does not fail.
LEMMA AckSucceeds ==
    ASSUME CrcIsByte, TypeInv, cpc = "ack", Client, NEW rest \in Seq(Byte),
           m2c = Packet(cid, AckCommand) \o rest
    PROVE  /\ SendSucceeds
           /\ m2c' = rest /\ c2m' = c2m /\ cid' = next_id(cid)
           /\ UNCHANGED <<cmd, open, state, mid, rx, executed>>
           /\ HasReply(cmd.type)  => cpc' = "dat" /\ log' = log
           /\ ~HasReply(cmd.type) => cpc' = "idle" /\ log' = Logged("ok")
<1>1. cid \in 0 .. ID_MOD - 1 /\ AckCommand \in Payload /\ AckCommand.type = ACK
  BY AckFacts DEF TypeInv, TypeOK
<1>2. /\ ~ForeignId /\ ReplyThere /\ crc_check(Reply) /\ Type(Reply) = ACK
      /\ Drop(m2c, Size(m2c)) = rest
  BY <1>1, ReplyFacts
<1>3. SendSucceeds
  BY <1>2 DEF Client, SendFails, RecvSucceeds, RecvFails
<1>4. m2c' = rest /\ c2m' = c2m /\ cid' = next_id(cid)
  BY <1>2, <1>3 DEF SendSucceeds
<1>5. /\ UNCHANGED <<cmd, open, state, mid, rx, executed>>
      /\ HasReply(cmd.type)  => cpc' = "dat" /\ log' = log
      /\ ~HasReply(cmd.type) => cpc' = "idle" /\ log' = Logged("ok")
  BY <1>3 DEF SendSucceeds, Return, master, Logged
<1> QED
  BY <1>3, <1>4, <1>5

\* Where the packet is does not depend on the client, nor on the answers.
LEMMA StageKept ==
    ASSUME NEW c, NEW id, UNCHANGED <<state, c2m, rx, mid>>
    PROVE  /\ Underway(c, id) <=> Underway(c, id)'
           /\ Acknowledged(c, id) <=> Acknowledged(c, id)'
           /\ AtRest <=> AtRest'
BY DEF Underway, Acknowledged, AtRest, Packet, packet_craft

LEMMA AckLink ==
    ASSUME CrcIsByte, TypeInv, AckInv, cpc = "ack", Client
    PROVE  /\ LinkInv'
           /\ UNCHANGED <<c2m, state, rx, executed, cmd>>
           /\ HasReply(cmd.type)  => cpc' = "dat" /\ log' = log
           /\ ~HasReply(cmd.type) => cpc' = "idle" /\ log' = Logged("ok")
<1>1. PICK c \in Sent : c = cmd
  BY DEF TypeInv, TypeOK, Sent
<1>2. PICK id \in 0 .. ID_MOD - 1 : id = cid
  BY DEF TypeInv, TypeOK
<1>3. <<>> \in Seq(Byte) /\ Packet(id, AckCommand) \in Seq(Byte)
  BY IdFacts, AckFacts, PayloadPacket
<1>4. Packet(id, AckCommand) \o <<>> = Packet(id, AckCommand)
  BY <1>3, ConcatEmptySeq
<1>5. CASE m2c = <<>>
  BY <1>5, NoReply DEF Client
<1>6. CASE /\ Acknowledged(c, id)
           /\ m2c = Packet(id, AckCommand)
           /\ TrueTo(log, executed)
  <2>1. /\ m2c' = <<>> /\ c2m' = c2m /\ cid' = next_id(id)
        /\ UNCHANGED <<cmd, open, state, mid, rx, executed>>
        /\ HasReply(c.type)  => cpc' = "dat" /\ log' = log
        /\ ~HasReply(c.type) => cpc' = "idle" /\ log' = Logged("ok")
    BY <1>1, <1>2, <1>3, <1>4, <1>6, AckSucceeds
  <2>2. Acknowledged(c, id)' /\ mid' = cid'
    BY <1>6, <2>1, StageKept DEF Acknowledged
  <2>3. ASSUME HasReply(c.type) PROVE LinkInv'
    <3>1. TrueTo(log, executed)'
      BY <1>6, <2>1, <2>3
    <3>2. HasReply(cmd.type)'
      BY <1>1, <2>1, <2>3 DEF HasReply
    <3>3. Acknowledged(cmd, id)'
      BY <1>1, <2>1, <2>2 DEF Acknowledged, Packet, packet_craft
    <3>4. DatInv'
      BY <2>1, <2>2, <3>1, <3>2, <3>3 DEF DatInv
    <3> QED
      BY <2>1, <2>3, <3>4 DEF LinkInv
  <2>4. ASSUME ~HasReply(c.type) PROVE LinkInv'
    <3>1. TrueTo(Logged("ok"), executed \o Effect(c))
      BY <1>1, <1>6, CommandLogged
    <3>2. TrueTo(log, executed \o Effect(c))'
      BY <2>1, <2>4, <3>1
    <3>3. IdleInv'
      BY <2>1, <2>2, <3>2 DEF IdleInv
    <3> QED
      BY <2>1, <2>4, <3>3 DEF LinkInv
  <2> QED
    BY <1>1, <2>1, <2>3, <2>4
<1>7. CASE /\ AtRest /\ mid = next_id(id)
           /\ \/ m2c = Packet(id, AckCommand)
              \/ /\ HasReply(c.type)
                 /\ m2c = Packet(id, AckCommand) \o Packet(mid, AnswerTo(c))
           /\ \A e \in {"ok", "killed"} : TrueTo(Logged(e), executed)
  <2>1. PICK rest \in Seq(Byte) :
            /\ m2c = Packet(id, AckCommand) \o rest
            /\ rest = <<>> \/ (HasReply(c.type) /\ rest = Packet(mid, AnswerTo(c)))
    <3>1. HasReply(c.type) => Packet(mid, AnswerTo(c)) \in Seq(Byte)
      <4>1. mid \in Byte /\ c \in Commands \cup {Handshake}
        BY <1>1, IdFacts DEF TypeInv, TypeOK
      <4> QED
        BY <4>1, AnswerFacts, PayloadPacket
    <3> QED
      BY <1>3, <1>4, <1>7, <3>1
  <2>2. /\ m2c' = rest /\ c2m' = c2m /\ cid' = next_id(id)
        /\ UNCHANGED <<cmd, open, state, mid, rx, executed>>
        /\ HasReply(c.type)  => cpc' = "dat" /\ log' = log
        /\ ~HasReply(c.type) => cpc' = "idle" /\ log' = Logged("ok")
    BY <1>1, <1>2, <2>1, AckSucceeds
  <2>3. AtRest' /\ mid' = cid'
    BY <1>7, <2>2, StageKept
  <2>4. ASSUME HasReply(c.type) PROVE LinkInv'
    <3>1. ASSUME NEW e \in {"ok", "killed"}
          PROVE  TrueTo(Logged(e), executed)'
      <4>1. Logged(e)' = Logged(e)
        BY <2>2, <2>4 DEF Logged
      <4> QED
        BY <1>7, <2>2, <4>1
    <3>2. HasReply(cmd.type)'
      BY <1>1, <2>2, <2>4 DEF HasReply
    <3>3. m2c' \in {<<>>, Packet(mid, AnswerTo(cmd))'}
      BY <1>1, <2>1, <2>2 DEF Packet, packet_craft, AnswerTo
    <3>4. DatInv'
      BY <2>3, <3>1, <3>2, <3>3 DEF DatInv
    <3> QED
      BY <2>2, <2>4, <3>4 DEF LinkInv
  <2>5. ASSUME ~HasReply(c.type) PROVE LinkInv'
    <3>1. TrueTo(log, executed)'
      BY <1>7, <2>2, <2>5
    <3>2. IdleInv'
      BY <2>3, <3>1 DEF IdleInv
    <3> QED
      BY <2>2, <2>5, <3>2 DEF LinkInv
  <2> QED
    BY <1>1, <2>2, <2>4, <2>5
<1> QED
  BY <1>1, <1>2, <1>5, <1>6, <1>7 DEF AckInv

LEMMA DatLink ==
    ASSUME CrcIsByte, TypeInv, DatInv, cpc = "dat", Client
    PROVE  /\ LinkInv' /\ AtRest
           /\ \E id \in 0 .. ID_MOD - 1 : Underway(AckCommand, id)'
           /\ cpc' = "idle" /\ log' = Logged("ok") /\ executed' = executed
<1>1. PICK c \in Commands \cup {Handshake} : c = cmd /\ HasReply(c.type)
  BY DEF TypeInv, TypeOK, DatInv
<1>2. PICK id \in 0 .. ID_MOD - 1 : id = cid
  BY DEF TypeInv, TypeOK
<1>3. m2c # <<>>
  BY NoReply DEF Client
<1>4. /\ AtRest /\ mid = id /\ m2c = Packet(id, AnswerTo(c))
      /\ \A e \in {"ok", "killed"} : TrueTo(Logged(e), executed)
  BY <1>1, <1>2, <1>3 DEF DatInv
<1>5. AnswerTo(c) \in Payload /\ (c.type = ECHO => AnswerTo(c).body = c.body)
  BY <1>1, AnswerFacts
<1>6. /\ id \in Byte
      /\ Packet(id, AnswerTo(c)) \in Seq(Byte) /\ Packet(id, AckCommand) \in Seq(Byte)
      /\ Packet(id, AnswerTo(c)) \o <<>> = Packet(id, AnswerTo(c))
      /\ <<>> \o Packet(id, AckCommand) = Packet(id, AckCommand)
      /\ <<>> \in Seq(Byte)
  BY <1>5, IdFacts, AckFacts, PayloadPacket, ConcatEmptySeq
<1>7. /\ ~ForeignId /\ ReplyThere /\ crc_check(Reply) /\ Id(Reply) = id
      /\ Size(Reply) = Len(AnswerTo(c).body) + 5
      /\ Drop(m2c, Size(m2c)) = <<>>
  BY <1>2, <1>4, <1>5, <1>6, ReplyFacts
<1>8. RecvSucceeds
  BY <1>7 DEF Client, SendFails, SendSucceeds, RecvFails
<1>9. c.type = ECHO => Size(Reply) = Len(c.body) + HEADER_SIZE + CRC_SIZE
  <2>1. PICK n \in Nat : n = Len(c.body)
    BY CommandFacts, LenProperties
  <2>2. n + 5 = n + HEADER_SIZE + CRC_SIZE
    BY DEF HEADER_SIZE, CRC_SIZE
  <2> QED
    BY <1>5, <1>7, <2>1, <2>2
<1>10. /\ cpc' = "idle" /\ cid' = next_id(id) /\ log' = Logged("ok")
       /\ c2m' = Packet(id, AckCommand)
       /\ UNCHANGED <<state, mid, executed>>
  <2>1. Return(TRUE)
    BY <1>1, <1>8, <1>9 DEF RecvSucceeds
  <2>2. c2m' = c2m \o packet_craft(id, ACK, 0, <<>>) /\ cid' = next_id(id)
    BY <1>2, <1>7, <1>8 DEF RecvSucceeds
  <2> QED
    BY <1>4, <1>6, <2>1, <2>2, AckFacts DEF Return, Logged, AtRest, master
<1>11. Underway(AckCommand, id)'
  BY <1>4, <1>10, AckFacts DEF Underway, AtRest, Packet, packet_craft, AckCommand, HND, ACK
<1>12. executed' \o Effect(AckCommand) = executed
  <2>1. executed \o <<>> = executed
    BY ConcatEmptySeq DEF TypeInv, TypeOK
  <2> QED
    BY <1>10, <2>1, AckFacts
<1>13. TrueTo(log', executed' \o Effect(AckCommand))
  BY <1>4, <1>10, <1>12
<1>14. IdleInv'
  <2>1. AckCommand \in Sent
    BY AckFacts
  <2>2. \E k \in 0 .. ID_MOD - 1 :
            /\ Underway(AckCommand, k)'
            /\ TrueTo(log', executed' \o Effect(AckCommand))
            /\ cid' = next_id(k)
    BY <1>10, <1>11, <1>13
  <2> QED
    BY <2>1, <2>2 DEF IdleInv
<1> QED
  BY <1>4, <1>10, <1>11, <1>14 DEF LinkInv

LEMMA KilledLink ==
    ASSUME TypeInv, LinkInv, ClientRestart
    PROVE  LinkInv'
<1>1. PICK c \in Sent : c = cmd
  BY DEF TypeInv, TypeOK, Sent
<1>2. PICK id \in 0 .. ID_MOD - 1 : id = cid
  BY DEF TypeInv, TypeOK
<1>3. /\ cpc' = "idle" /\ open' = FALSE /\ log' = Logged("killed")
      /\ UNCHANGED <<c2m, m2c, state, mid, rx, executed>>
      /\ cpc \in {"ack", "dat"}
  BY DEF ClientRestart, Logged, master, TypeInv, TypeOK
<1>4. ~Agreed'
  <2>1. [cmd |-> cmd, end |-> "killed"] \in Entry /\ log \in Seq(Entry)
    BY DEF Entry, Ends, TypeInv, TypeOK
  <2>2. log' # <<>> /\ log'[Len(log')] = [cmd |-> cmd, end |-> "killed"]
    BY <1>3, <2>1, AppendProperties DEF Logged
  <2>3. log'[Len(log')].end = "killed"
    BY <2>2
  <2> QED
    BY <1>3, <2>2, <2>3 DEF Agreed, Reported
<1>5. ASSUME AtRest, TrueTo(Logged("killed"), executed)
      PROVE  IdleInv'
  <2>1. AtRest' /\ TrueTo(log, executed)'
    BY <1>3, <1>5, StageKept
  <2> QED
    BY <1>3, <1>4, <2>1 DEF IdleInv
<1>6. ASSUME NEW k \in 0 .. ID_MOD - 1, Underway(c, k) \/ Acknowledged(c, k),
             TrueTo(log, executed)
      PROVE  IdleInv'
  <2>1. (Underway(c, k) \/ Acknowledged(c, k))'
    BY <1>3, <1>6, StageKept
  <2>2. TrueTo(Logged("killed"), executed \o Effect(c))
    BY <1>1, <1>6, CommandLogged
  <2>3. TrueTo(log, executed \o Effect(c))'
    BY <1>3, <2>2
  <2> QED
    BY <1>3, <1>4, <2>1, <2>3 DEF IdleInv
<1>7. CASE cpc = "ack"
  <2>1. AckInv
    BY <1>7 DEF LinkInv
  <2>2. \/ Underway(c, id) /\ TrueTo(log, executed)
        \/ Acknowledged(c, id) /\ TrueTo(log, executed)
        \/ AtRest /\ TrueTo(Logged("killed"), executed)
    BY <1>1, <1>2, <2>1 DEF AckInv
  <2> QED
    BY <1>3, <1>5, <1>6, <2>2 DEF LinkInv
<1>8. CASE cpc = "dat"
  <2>1. DatInv
    BY <1>8 DEF LinkInv
  <2>2. \/ \E k \in 0 .. ID_MOD - 1 : Acknowledged(c, k) /\ TrueTo(log, executed)
        \/ AtRest /\ TrueTo(Logged("killed"), executed)
    BY <1>1, <2>1 DEF DatInv
  <2> QED
    BY <1>3, <1>5, <1>6, <2>2 DEF LinkInv
<1> QED
  BY <1>3, <1>7, <1>8

LEMMA IdleMaster ==
    ASSUME CrcIsByte, TypeInv, IdleInv, cpc = "idle", Master
    PROVE  LinkInv'
<1>1. PICK c \in Sent, id \in 0 .. ID_MOD - 1 :
          /\ Underway(c, id) \/ Acknowledged(c, id)
          /\ TrueTo(log, executed \o Effect(c))
          /\ Agreed => cid = next_id(id)
  BY AtRestWaits DEF IdleInv
<1>2. /\ UNCHANGED <<cpc, cid, cmd, open, log>>
      /\ \/ /\ (Underway(c, id) \/ Acknowledged(c, id))'
            /\ executed' = executed
         \/ /\ Acknowledged(c, id) /\ AtRest' /\ mid' = mid
            /\ executed' = executed \o Effect(c)
  BY <1>1, MasterMoves
<1>3. Agreed' <=> Agreed
  BY <1>2 DEF Agreed, Reported, JustReset
<1>4. CASE (Underway(c, id) \/ Acknowledged(c, id))' /\ executed' = executed
  <2>1. TrueTo(log, executed \o Effect(c))'
    BY <1>1, <1>2, <1>4
  <2>2. Agreed' => cid' = next_id(id)
    BY <1>1, <1>2, <1>3
  <2>3. IdleInv'
    BY <1>4, <2>1, <2>2 DEF IdleInv
  <2> QED
    BY <1>2, <2>3 DEF LinkInv
<1>5. CASE /\ Acknowledged(c, id) /\ AtRest' /\ mid' = mid
           /\ executed' = executed \o Effect(c)
  <2>1. TrueTo(log, executed)'
    BY <1>1, <1>2, <1>5
  <2>2. Agreed' => cid' = mid'
    BY <1>1, <1>2, <1>3, <1>5 DEF Acknowledged
  <2>3. IdleInv'
    BY <1>5, <2>1, <2>2 DEF IdleInv
  <2> QED
    BY <1>2, <2>3 DEF LinkInv
<1> QED
  BY <1>2, <1>4, <1>5

LEMMA AckMaster ==
    ASSUME CrcIsByte, TypeInv, AckInv, cpc = "ack", Master
    PROVE  LinkInv'
<1>1. PICK c \in Sent : c = cmd
  BY DEF TypeInv, TypeOK, Sent
<1>2. PICK id \in 0 .. ID_MOD - 1 : id = cid
  BY DEF TypeInv, TypeOK
<1>3. /\ \/ Underway(c, id) /\ m2c = <<>>
         \/ Acknowledged(c, id) /\ m2c = Packet(id, AckCommand)
      /\ TrueTo(log, executed)
  BY <1>1, <1>2, AtRestWaits DEF AckInv
<1>4. /\ UNCHANGED <<cpc, cid, cmd, open, log>>
      /\ \/ /\ Underway(c, id) /\ Underway(c, id)'
            /\ m2c' = m2c /\ executed' = executed
         \/ /\ Underway(c, id) /\ Acknowledged(c, id)'
            /\ m2c' = m2c \o Packet(id, AckCommand) /\ executed' = executed
         \/ /\ Acknowledged(c, id) /\ AtRest' /\ mid' = mid
            /\ executed' = executed \o Effect(c)
            /\ \/ m2c' = m2c
               \/ HasReply(c.type) /\ m2c' = m2c \o Packet(mid, AnswerTo(c))
  BY <1>1, <1>3, MasterMoves
<1>5. ~(Underway(c, id) /\ Acknowledged(c, id))
  BY DEF Underway, Acknowledged
<1>6. CASE Underway(c, id) /\ Underway(c, id)' /\ m2c' = m2c /\ executed' = executed
  <2>1. Underway(cmd, cid)'
    BY <1>1, <1>2, <1>4, <1>6 DEF Underway, Packet, packet_craft
  <2>2. m2c' = <<>> /\ TrueTo(log, executed)'
    BY <1>3, <1>4, <1>5, <1>6
  <2> QED
    BY <1>4, <2>1, <2>2 DEF AckInv, LinkInv
<1>7. CASE /\ Underway(c, id) /\ Acknowledged(c, id)'
           /\ m2c' = m2c \o Packet(id, AckCommand) /\ executed' = executed
  <2>1. Acknowledged(cmd, cid)'
    BY <1>1, <1>2, <1>4, <1>7 DEF Acknowledged, Packet, packet_craft
  <2>2. Packet(id, AckCommand) \in Seq(Byte)
    BY IdFacts, AckFacts, PayloadPacket
  <2>3. m2c' = Packet(id, AckCommand) /\ TrueTo(log, executed)'
    BY <1>3, <1>4, <1>5, <1>7, <2>2, ConcatEmptySeq
  <2>4. m2c' = Packet(cid, AckCommand)'
    BY <1>2, <1>4, <2>3 DEF Packet, packet_craft
  <2> QED
    BY <1>4, <2>1, <2>3, <2>4 DEF AckInv, LinkInv
<1>8. CASE /\ Acknowledged(c, id) /\ AtRest' /\ mid' = mid
           /\ executed' = executed \o Effect(c)
           /\ \/ m2c' = m2c
              \/ HasReply(c.type) /\ m2c' = m2c \o Packet(mid, AnswerTo(c))
  <2>1. m2c = Packet(id, AckCommand) /\ mid = next_id(id)
    BY <1>3, <1>5, <1>8 DEF Acknowledged
  <2>2. ASSUME NEW e \in {"ok", "killed"}
        PROVE  TrueTo(Logged(e), executed)'
    <3>1. TrueTo(Logged(e), executed \o Effect(c))
      BY <1>1, <1>3, CommandLogged
    <3>2. Logged(e)' = Logged(e)
      BY <1>4 DEF Logged
    <3> QED
      BY <1>8, <3>1, <3>2
  <2>3. mid' = next_id(cid)'
    BY <1>2, <1>4, <1>8, <2>1 DEF next_id
  <2>4. \/ m2c' = Packet(cid, AckCommand)'
        \/ /\ HasReply(cmd.type)'
           /\ m2c' = (Packet(cid, AckCommand) \o Packet(mid, AnswerTo(cmd)))'
    BY <1>1, <1>2, <1>4, <1>8, <2>1 DEF Packet, packet_craft, HasReply, AnswerTo
  <2>5. AckInv'
    BY <1>8, <2>2, <2>3, <2>4 DEF AckInv
  <2> QED
    BY <1>4, <2>5 DEF LinkInv
<1> QED
  BY <1>4, <1>6, <1>7, <1>8

LEMMA DatMaster ==
    ASSUME CrcIsByte, TypeInv, DatInv, cpc = "dat", Master
    PROVE  LinkInv'
<1>1. PICK c \in Sent : c = cmd /\ HasReply(c.type)
  BY DEF TypeInv, TypeOK, Sent, DatInv
<1>2. PICK id \in 0 .. ID_MOD - 1 :
          /\ Acknowledged(c, id) /\ mid = cid /\ m2c = <<>> /\ TrueTo(log, executed)
  BY <1>1, AtRestWaits DEF DatInv
<1>3. ~Underway(c, id)
  BY <1>2 DEF Underway, Acknowledged
<1>4. /\ UNCHANGED <<cpc, cid, cmd, open, log>>
      /\ AtRest' /\ mid' = mid
      /\ executed' = executed \o Effect(c)
      /\ m2c' = m2c \/ m2c' = m2c \o Packet(mid, AnswerTo(c))
  BY <1>2, <1>3, MasterMoves
<1>5. m2c' \in {<<>>, Packet(mid, AnswerTo(cmd))'}
  <2>1. mid \in Byte /\ c \in Commands \cup {Handshake}
    BY <1>1, IdFacts DEF TypeInv, TypeOK
  <2>2. Packet(mid, AnswerTo(c)) \in Seq(Byte)
    BY <1>1, <2>1, AnswerFacts, PayloadPacket
  <2>3. m2c' \in {<<>>, Packet(mid, AnswerTo(c))}
    BY <1>2, <1>4, <2>2, ConcatEmptySeq
  <2> QED
    BY <1>1, <1>4, <2>3 DEF Packet, packet_craft, AnswerTo
<1>6. ASSUME NEW e \in {"ok", "killed"}
      PROVE  TrueTo(Logged(e), executed)'
  <2>1. TrueTo(Logged(e), executed \o Effect(c))
    BY <1>1, <1>2, CommandLogged
  <2>2. Logged(e)' = Logged(e)
    BY <1>4 DEF Logged
  <2> QED
    BY <1>4, <2>1, <2>2
<1>7. HasReply(cmd.type)' /\ mid' = cid'
  BY <1>1, <1>2, <1>4 DEF HasReply
<1>8. DatInv'
  BY <1>4, <1>5, <1>6, <1>7 DEF DatInv
<1> QED
  BY <1>4, <1>8 DEF LinkInv

\* The board is reset while it waits.
LEMMA ResetLink ==
    ASSUME CrcIsByte, TypeInv, LinkInv, MasterReset
    PROVE  LinkInv'
<1>1. AtRest /\ TrueTo(log, executed)
  BY QuietRests DEF MasterReset, LinkInv
<1>2. /\ cpc = "idle" /\ c2m' = <<>> /\ log' = Logged("reset")
      /\ UNCHANGED <<cpc, cid, cmd, open, state, executed>>
  BY DEF MasterReset, client, Logged
<1>3. ~Agreed'
  <2>1. [cmd |-> cmd, end |-> "reset"] \in Entry /\ log \in Seq(Entry)
    BY DEF Entry, Ends, TypeInv, TypeOK
  <2>2. log' # <<>> /\ log'[Len(log')] = [cmd |-> cmd, end |-> "reset"]
    BY <1>2, <2>1, AppendProperties DEF Logged
  <2>3. log'[Len(log')].end = "reset"
    BY <2>2
  <2> QED
    BY <2>2, <2>3 DEF Agreed, Reported, JustReset
<1>4. TrueTo(log, executed)'
  <2>1. TrueTo(Logged("reset"), executed)
    BY <1>1, ResetLogged DEF TypeInv, TypeOK, Logged, Entry, Done
  <2> QED
    BY <1>2, <2>1
<1>5. AtRest'
  BY <1>1, <1>2 DEF AtRest
<1>6. IdleInv'
  BY <1>3, <1>4, <1>5 DEF IdleInv
<1> QED
  BY <1>2, <1>6 DEF LinkInv

LEMMA NoiseStep ==
    ASSUME TypeInv, Noise
    PROVE  ~Orderly'
<1>1. log' = Append(log, [cmd |-> cmd, end |-> "noise"])
  BY DEF Noise
<1>2. [cmd |-> cmd, end |-> "noise"] \in Entry /\ log \in Seq(Entry)
  BY DEF Entry, Ends, TypeInv, TypeOK
<1>3. /\ Len(log') = Len(log) + 1 /\ Len(log) \in Nat
      /\ log'[Len(log) + 1] = [cmd |-> cmd, end |-> "noise"]
  BY <1>1, <1>2, AppendProperties
<1>4. Len(log) + 1 \in 1 .. Len(log') /\ log'[Len(log) + 1].end \in {"noise"}
  BY <1>3
<1> QED
  BY <1>4 DEF Orderly, EndedAs

\* What the steps do to the log.
LEMMA LogMoves ==
    ASSUME TypeInv, [Next]_vars
    PROVE  \/ /\ log' = log
              /\ UNCHANGED <<cpc, cmd>> \/ cpc = "idle" \/ (cmd' = cmd /\ cpc' # "idle")
           \/ \E e \in Ends : /\ log' = Append(log, [cmd |-> cmd, end |-> e])
                              /\ e = "reset" => cpc = "idle"
<1>1. CASE Connect \/ Disconnect \/ Command
  BY <1>1 DEF Connect, Disconnect, Command, Start
<1>2. CASE Client
  BY <1>2 DEF Client, SendFails, SendSucceeds, RecvSucceeds, RecvFails, Return, Ends
<1>3. CASE Master
  BY <1>3 DEF Master, Receive, Greet, Acknowledge, Refuse, Execute, client
<1>4. CASE Fault
  BY <1>4 DEF Fault, MasterReset, ClientRestart, Noise, Ends
<1>5. CASE UNCHANGED vars
  BY <1>5 DEF vars, client
<1> QED
  BY <1>1, <1>2, <1>3, <1>4, <1>5 DEF Next

\* What was disorderly remains so.
LEMMA OrderlyBefore ==
    ASSUME TypeInv, [Next]_vars, Orderly'
    PROVE  Orderly
<1>1. log \in Seq(Entry)
  BY DEF Entry, TypeInv, TypeOK
<1>2. PICK m \in Nat : m = Len(log)
  BY <1>1, LenProperties
<1>3. CASE /\ log' = log
           /\ UNCHANGED <<cpc, cmd>> \/ cpc = "idle" \/ (cmd' = cmd /\ cpc' # "idle")
  <2>1. EndedAs({"noise"})' = EndedAs({"noise"}) /\ EndedAs({"reset"})' = EndedAs({"reset"})
    BY <1>3 DEF EndedAs
  <2>2. Reconnects' => Reconnects
    BY <1>3, <2>1 DEF Reconnects
  <2> QED
    BY <2>1, <2>2 DEF Orderly
<1>4. CASE \E e \in Ends : /\ log' = Append(log, [cmd |-> cmd, end |-> e])
                           /\ e = "reset" => cpc = "idle"
  <2>1. PICK e \in Ends : /\ log' = Append(log, [cmd |-> cmd, end |-> e])
                          /\ e = "reset" => cpc = "idle"
    BY <1>4
  <2>2. [cmd |-> cmd, end |-> e] \in Entry
    BY DEF Entry, TypeInv, TypeOK
  <2>3. /\ Len(log') = m + 1
        /\ \A i \in 1 .. m : log'[i] = log[i]
        /\ log'[m + 1].cmd = cmd /\ log'[m + 1].end = e
    <3> DEFINE l2 == Append(log, [cmd |-> cmd, end |-> e])
    <3>1. /\ Len(l2) = Len(log) + 1
          /\ \A i \in 1 .. Len(log) : l2[i] = log[i]
          /\ l2[Len(log) + 1] = [cmd |-> cmd, end |-> e]
      BY <1>1, <2>2, AppendProperties
    <3>2. log' = l2
      BY <2>1
    <3> HIDE DEF l2
    <3> QED
      BY <1>2, <3>1, <3>2
  <2>4. ASSUME NEW i \in 1 .. m
        PROVE  i \in 1 .. Len(log') /\ log'[i] = log[i] /\ i < Len(log')
    BY <1>2, <2>3
  <2>5. EndedAs({"noise"}) = {}
    BY <1>2, <2>4 DEF Orderly, EndedAs
  <2>6. ASSUME NEW i \in 1 .. m, log[i].end = "reset"
        PROVE  IF i < m THEN log[i + 1].end = "reset" \/ log[i + 1].cmd = Handshake
               ELSE cpc # "idle" => cmd = Handshake
    <3>1. log'[i + 1].end = "reset" \/ log'[i + 1].cmd = Handshake
      BY <2>4, <2>6 DEF Orderly, Reconnects, EndedAs
    <3>2. CASE i < m
      <4>1. i + 1 \in 1 .. m
        BY <3>2
      <4> QED
        BY <2>4, <3>1, <3>2, <4>1
    <3>3. CASE ~(i < m)
      <4>1. i = m
        BY <3>3
      <4>2. e = "reset" \/ cmd = Handshake
        BY <2>3, <3>1, <4>1
      <4>3. cpc # "idle" => cmd = Handshake
        BY <2>1, <4>2
      <4> QED
        BY <3>3, <4>3
    <3> QED
      BY <3>2, <3>3
  <2>7. Reconnects
    BY <1>2, <2>6 DEF Reconnects, EndedAs
  <2> QED
    BY <2>5, <2>7 DEF Orderly
<1> QED
  BY <1>3, <1>4, LogMoves

\* After a reset only a handshake is in order.
LEMMA StartsOrderly ==
    ASSUME TypeInv, Orderly', NEW c \in Commands, c.type # HND, Start(c, cid)
    PROVE  ~JustReset
<1>1. cpc' = "ack" /\ cmd' = c /\ log' = log /\ c # Handshake
  BY DEF Start, Handshake
<1>2. PICK m \in Nat : m = Len(log)
  BY LenProperties DEF TypeInv, TypeOK
<1>3. ASSUME JustReset PROVE m \in 1 .. m /\ log[m].end = "reset"
  <2>1. m # 0
    BY <1>2, <1>3, EmptySeq DEF JustReset, TypeInv, TypeOK
  <2> QED
    BY <1>2, <1>3, <2>1 DEF JustReset
<1>4. ASSUME JustReset PROVE FALSE
  <2>1. m \in EndedAs({"reset"})' /\ ~(m < Len(log'))
    BY <1>1, <1>2, <1>3, <1>4 DEF EndedAs
  <2>2. cmd' = Handshake
    BY <1>1, <2>1 DEF Orderly, Reconnects
  <2> QED
    BY <1>1, <2>2
<1> QED
  BY <1>4

LEMMA LinkStep ==
    ASSUME CrcIsByte, ~EAGER, TypeInv, LinkInv, Orderly', [Next]_vars
    PROVE  LinkInv'
<1>1. 0 \in 0 .. ID_MOD - 1 /\ cid \in 0 .. ID_MOD - 1
  BY IdFacts DEF TypeInv, TypeOK
<1>2. CASE Connect
  BY <1>1, <1>2, StartLink DEF Connect, Handshake
<1>3. CASE Command
  <2>1. PICK c \in Commands : open /\ Start(c, cid)
    BY <1>3 DEF Command
  <2>2. c.type # HND
    BY <2>1, CommandsAssumption
       DEF HND, ECHO, APPLY, SET_SLAVE_ADDR
  <2>3. ~JustReset
    BY <2>1, <2>2, StartsOrderly
  <2> QED
    BY <1>1, <2>1, <2>2, <2>3, StartLink DEF Agreed
<1>4. CASE Disconnect
  <2>1. AtRest /\ TrueTo(log, executed) /\ (Agreed => cid = mid)
    BY <1>4, QuietRests DEF Disconnect, LinkInv
  <2>2. /\ open /\ open' = FALSE /\ cpc' = "idle"
        /\ UNCHANGED <<cid, state, c2m, rx, mid, log, executed>>
    BY <1>4 DEF Disconnect, master
  <2>3. Agreed' => Agreed
    BY <2>2 DEF Agreed, Reported
  <2>4. AtRest' /\ TrueTo(log, executed)' /\ (Agreed' => cid' = mid')
    BY <2>1, <2>2, <2>3, StageKept
  <2> QED
    BY <2>2, <2>4 DEF LinkInv, IdleInv
<1>5. CASE Client
  <2>1. cpc \in {"ack", "dat"}
    BY <1>5 DEF Client, SendFails, SendSucceeds, RecvSucceeds, RecvFails
  <2> QED
    BY <1>5, <2>1, AckLink, DatLink DEF LinkInv
<1>6. CASE Master
  <2>1. cpc \in {"idle", "ack", "dat"}
    BY DEF TypeInv, TypeOK
  <2> QED
    BY <1>6, <2>1, IdleMaster, AckMaster, DatMaster DEF LinkInv
<1>7. CASE Fault
  BY <1>7, NoiseStep, ResetLink, KilledLink DEF Fault
<1>8. CASE UNCHANGED vars
  <2>1. UNCHANGED <<c2m, m2c, cpc, cid, cmd, open, state, mid, rx, log, executed>>
    BY <1>8 DEF vars, client, master
  <2>2. /\ AtRest' <=> AtRest
        /\ \A c, id : /\ Underway(c, id)' <=> Underway(c, id)
                      /\ Acknowledged(c, id)' <=> Acknowledged(c, id)
    BY <2>1, StageKept
  <2>3. (Agreed' <=> Agreed) /\ \A e : Logged(e)' = Logged(e)
    BY <2>1 DEF Agreed, Reported, JustReset, Logged
  <2>4. IdleInv => IdleInv'
    <3>1. /\ TrueTo(log, executed) => TrueTo(log, executed)'
          /\ (Agreed => cid = mid) => (Agreed => cid = mid)'
      BY <2>1, <2>3
    <3>2. \A c : TrueTo(log, executed \o Effect(c)) => TrueTo(log, executed \o Effect(c))'
      BY <2>1
    <3>3. \A id : (Agreed => cid = next_id(id))
                     => (Agreed => cid = next_id(id))'
      BY <2>1, <2>3 DEF next_id
    <3> QED
      BY <2>2, <3>1, <3>2, <3>3 DEF IdleInv
  <2>5. AckInv => AckInv'
    <3>1. /\ Underway(cmd, cid) => Underway(cmd, cid)'
          /\ Acknowledged(cmd, cid) => Acknowledged(cmd, cid)'
      BY <2>1 DEF Underway, Acknowledged, Packet, packet_craft, next_id
    <3>2. /\ Packet(cid, AckCommand)' = Packet(cid, AckCommand)
          /\ Packet(mid, AnswerTo(cmd))' = Packet(mid, AnswerTo(cmd))
          /\ (mid = next_id(cid) => (mid = next_id(cid))')
          /\ (HasReply(cmd.type) => HasReply(cmd.type)')
      BY <2>1 DEF Packet, packet_craft, AckCommand, AnswerTo, next_id, HasReply
    <3>3. (\A e \in {"ok", "killed"} : TrueTo(Logged(e), executed))
              => (\A e \in {"ok", "killed"} : TrueTo(Logged(e), executed))'
      BY <2>1, <2>3
    <3> QED
      BY <2>1, <2>2, <3>1, <3>2, <3>3 DEF AckInv
  <2>6. DatInv => DatInv'
    <3>1. \A id : Acknowledged(cmd, id) => Acknowledged(cmd, id)'
      BY <2>1 DEF Acknowledged, Packet, packet_craft, next_id
    <3>2. /\ Packet(mid, AnswerTo(cmd))' = Packet(mid, AnswerTo(cmd))
          /\ (HasReply(cmd.type) => HasReply(cmd.type)')
      BY <2>1 DEF Packet, packet_craft, AnswerTo, HasReply
    <3>3. (\A e \in {"ok", "killed"} : TrueTo(Logged(e), executed))
              => (\A e \in {"ok", "killed"} : TrueTo(Logged(e), executed))'
      BY <2>1, <2>3
    <3> QED
      BY <2>1, <2>2, <3>1, <3>2, <3>3 DEF DatInv
  <2> QED
    BY <2>1, <2>4, <2>5, <2>6 DEF LinkInv
<1> QED
  BY <1>2, <1>3, <1>4, <1>5, <1>6, <1>7, <1>8 DEF Next

LEMMA LinkTheorem ==
    ASSUME CrcIsByte, ~EAGER
    PROVE  Spec => [](TypeInv /\ (Orderly => LinkInv))
<1>1. Init => TypeInv /\ LinkInv
  BY InitTypes, InitLink
<1>2. TypeInv /\ (Orderly => LinkInv) /\ [Next]_vars => (TypeInv /\ (Orderly => LinkInv))'
  BY TypeStep, LinkStep, OrderlyBefore
<1> QED
  BY <1>1, <1>2, PTL DEF Spec

\* Unless a byte was damaged, or the user did not connect again after a reset of the
\* board, a patient user's client and the master are on the same packet id and a packet
\* boundary whenever the line is quiet after a success (communication_send(),
\* communication_recv() and the master's handler count the same packets), whatever
\* clients were killed in between.
THEOREM SidesAgree ==
    ASSUME CrcIsByte, ~EAGER
    PROVE  Spec => [](Orderly => SyncedAfterSuccess)
<1>1. TypeInv /\ LinkInv => SyncedAfterSuccess
  <2> SUFFICES ASSUME TypeInv, LinkInv, Quiet, log = <<>> \/ Last(log).end = "ok"
               PROVE  cid = mid /\ c2m = <<>>
    BY DEF SyncedAfterSuccess
  <2>1. Reported
    BY DEF Reported, Last
  <2>2. AtRest /\ (Agreed => cid = mid)
    BY QuietRests DEF Quiet, LinkInv
  <2> QED
    BY <2>1, <2>2 DEF AtRest, Agreed
<1> QED
  BY <1>1, LinkTheorem, PTL

\* Under the same conditions what the client reports is true (communication.h): the master
\* has carried out the commands that were reported successful, once each and in order, and
\* besides them at most those that were killed.
THEOREM ReportsHold ==
    ASSUME CrcIsByte, ~EAGER
    PROVE  Spec => [](Orderly => ReportsAreTrue)
<1>1. TypeInv /\ LinkInv => ReportsAreTrue
  <2> SUFFICES ASSUME TypeInv, LinkInv, Quiet
               PROVE  \E K \in SUBSET Unclear : CarriedOut(EndedAs({"ok"}) \cup K)
    BY DEF ReportsAreTrue
  <2>1. TrueTo(log, executed)
    BY QuietRests DEF Quiet, LinkInv
  <2>2. PICK K \in SUBSET Entries(log, "killed") :
            Lists(log, executed, Listed(log, Entries(log, "ok") \cup K))
    BY <2>1 DEF TrueTo
  <2>3. /\ Entries(log, "ok") = EndedAs({"ok"})
        /\ Entries(log, "killed") = EndedAs({"killed"})
    BY DEF Entries, EndedAs
  <2>4. CarriedOut(EndedAs({"ok"}) \cup K)
    BY <2>2, <2>3 DEF CarriedOut, Lists, Listed
  <2>5. K \in SUBSET Unclear
    BY <2>2, <2>3 DEF Unclear
  <2> QED
    BY <2>4, <2>5
<1> QED
  BY <1>1, LinkTheorem, PTL

-----------------------------------------------------------------------------
(* The link implements a service *)

Duty(c) == IF c.type \in {HND, ACK} THEN {} ELSE {c}

LEMMA DuePacket ==
    ASSUME CrcIsByte, NEW c \in Sent, NEW id \in Byte
    PROVE  DueOf(Packet(id, c)) = Duty(c)
<1> DEFINE p == Packet(id, c)
<1>1. /\ c.type \in {HND, ACK, ECHO, PING, GET_SPEED, SET_SPEED, APPLY, SET_SLAVE_ADDR}
      /\ c = [type |-> c.type, sel |-> c.sel, body |-> c.body] /\ c \in Payload
  BY SentFacts
<1>2. /\ Len(p) \in Nat /\ 5 <= Len(p) /\ Size(p) = Len(p)
      /\ Type(p) = c.type /\ Selector(p) = c.sel /\ Body(p) = c.body
  BY <1>1, PayloadPacket
<1> HIDE DEF p
<1>3. Len(p) > HEADER_SIZE
  BY <1>2 DEF HEADER_SIZE
<1>4. Order(p) = c
  BY <1>1, <1>2 DEF Order
<1>5. CASE c.type \in {HND, ACK}
  <2>1. ~IsOrder(p)
    BY <1>2, <1>5 DEF IsOrder, HND, ACK, ECHO, APPLY, SET_SLAVE_ADDR
  <2> QED
    BY <1>5, <2>1 DEF DueOf, Duty, p
<1>6. CASE c.type \notin {HND, ACK}
  <2>1. IsOrder(p)
    BY <1>1, <1>2, <1>6 DEF IsOrder, ECHO, PING, GET_SPEED, SET_SPEED, APPLY, SET_SLAVE_ADDR
  <2> QED
    BY <1>2, <1>3, <1>4, <1>6, <2>1 DEF DueOf, Duty, p
<1> QED
  BY <1>5, <1>6

LEMMA DutyFacts ==
    /\ Duty(Handshake) = {} /\ Duty(AckCommand) = {}
    /\ \A c \in Commands \cup {Handshake} : Duty(c) = {c} \ {Handshake}
<1>1. Handshake.type = HND /\ AckCommand.type = ACK
  BY DEF Handshake, AckCommand
<1>2. ASSUME NEW c \in Commands
      PROVE  c.type \notin {HND, ACK} /\ c # Handshake
  BY <1>1, CommandsAssumption
     DEF HND, ACK, ECHO, APPLY, SET_SLAVE_ADDR
<1> QED
  BY <1>1, <1>2 DEF Duty

\* What the board has still to do is the command of the packet that is under way.
LEMMA DueStages ==
    ASSUME CrcIsByte, NEW c \in Sent, NEW id \in 0 .. ID_MOD - 1
    PROVE  /\ AtRest => Due = {}
           /\ AtRest' => Due' = {}
           /\ Underway(c, id) \/ Acknowledged(c, id) => Due = Duty(c)
           /\ (Underway(c, id) \/ Acknowledged(c, id))' => Due' = Duty(c)
<1>1. DueOf(Packet(id, c)) = Duty(c)
  BY IdFacts, DuePacket
<1>2. DueOf(<<>>) = {}
  <2>1. ~(Len(<<>>) > HEADER_SIZE)
    BY DEF HEADER_SIZE
  <2> QED
    BY <2>1 DEF DueOf
<1>3. Packet(id, c)' = Packet(id, c)
  BY DEF Packet, packet_craft
<1> QED
  BY <1>1, <1>2, <1>3 DEF AtRest, Underway, Acknowledged, Due

LEMMA ServesAsk ==
    ASSUME CrcIsByte, ~EAGER, TypeInv, LinkInv, NEW c \in Commands \cup {Handshake},
           NEW id \in 0 .. ID_MOD - 1, Start(c, id),
           c.type = HND => id = 0, c.type # HND => Agreed /\ id = cid
    PROVE  Service!Ask
<1>1. AtRest /\ Underway(c, id)' /\ c \in Sent
  BY StartLink DEF Sent
<1>2. Due = {} /\ Due' = {c} \ {Handshake}
  BY <1>1, DueStages, DutyFacts
<1>3. Awaited = {} /\ Awaited' = {c} /\ executed' = executed /\ log' = log
  BY DEF Start, Awaited
<1> QED
  BY <1>2, <1>3 DEF Service!Ask

\* A call ends; what is due stays.
LEMMA ServesEnd ==
    ASSUME cpc # "idle", cpc' = "idle", NEW e, log' = Logged(e), Due' = Due,
           executed' = executed
    PROVE  Service!End(e)
<1>1. Awaited = {cmd} /\ Awaited' = {}
  BY DEF Awaited
<1> QED
  BY <1>1 DEF Service!End, Logged

LEMMA ServesClient ==
    ASSUME CrcIsByte, TypeInv, LinkInv, Client
    PROVE  Service!Next \/ UNCHANGED Service!vars
<1>1. CASE cpc = "ack"
  <2>1. /\ UNCHANGED <<c2m, state, rx, executed, cmd>>
        /\ HasReply(cmd.type)  => cpc' = "dat" /\ log' = log
        /\ ~HasReply(cmd.type) => cpc' = "idle" /\ log' = Logged("ok")
    BY <1>1, AckLink DEF LinkInv
  <2>2. Due' = Due
    BY <2>1 DEF Due
  <2>3. CASE HasReply(cmd.type)
    <3>1. Awaited' = Awaited
      BY <1>1, <2>1, <2>3 DEF Awaited
    <3> QED
      BY <2>1, <2>2, <2>3, <3>1 DEF Service!vars
  <2>4. CASE ~HasReply(cmd.type)
    <3>1. Service!End("ok")
      BY <1>1, <2>1, <2>2, <2>4, ServesEnd
    <3>2. Awaited \cap {c \in Commands : HasReply(c.type)} = {}
      BY <2>4 DEF Awaited
    <3> QED
      BY <3>1, <3>2 DEF Service!Next, Service!Succeed
  <2> QED
    BY <2>3, <2>4
<1>2. CASE cpc = "dat"
  <2>1. /\ AtRest /\ cpc' = "idle" /\ log' = Logged("ok") /\ executed' = executed
        /\ \E id \in 0 .. ID_MOD - 1 : Underway(AckCommand, id)'
    BY <1>2, DatLink DEF LinkInv
  <2>2. Due = {} /\ Due' = {}
    BY <2>1, AckFacts, DueStages, DutyFacts
  <2>3. Service!End("ok")
    BY <1>2, <2>1, <2>2, ServesEnd
  <2> QED
    BY <2>2, <2>3 DEF Service!Next, Service!Succeed
<1> QED
  BY <1>1, <1>2 DEF Client, SendFails, SendSucceeds, RecvSucceeds, RecvFails

LEMMA ServesMaster ==
    ASSUME CrcIsByte, TypeInv, LinkInv, Master
    PROVE  Service!Next \/ UNCHANGED Service!vars
<1>1. PICK c \in Sent, id \in 0 .. ID_MOD - 1 : Underway(c, id) \/ Acknowledged(c, id)
  <2>1. cmd \in Sent /\ cid \in 0 .. ID_MOD - 1 /\ cpc \in {"idle", "ack", "dat"}
    BY DEF TypeInv, TypeOK, Sent
  <2>2. ~AtRest
    BY AtRestWaits
  <2>3. CASE cpc = "idle"
    BY <2>2, <2>3 DEF LinkInv, IdleInv
  <2>4. CASE cpc = "ack"
    BY <2>1, <2>2, <2>4 DEF LinkInv, AckInv
  <2>5. CASE cpc = "dat"
    BY <2>1, <2>2, <2>5 DEF LinkInv, DatInv
  <2> QED
    BY <2>1, <2>3, <2>4, <2>5
<1>2. /\ UNCHANGED <<cpc, cmd, log>>
      /\ \/ (Underway(c, id) \/ Acknowledged(c, id))' /\ executed' = executed
         \/ AtRest' /\ executed' = executed \o Effect(c)
  BY <1>1, MasterMoves
<1>3. Awaited' = Awaited /\ log' = log
  BY <1>2 DEF Awaited
<1>4. Due = Duty(c)
  BY <1>1, DueStages
<1>5. CASE (Underway(c, id) \/ Acknowledged(c, id))' /\ executed' = executed
  <2>1. Due' = Duty(c)
    BY <1>5, DueStages
  <2> QED
    BY <1>3, <1>4, <1>5, <2>1 DEF Service!vars
<1>6. CASE AtRest' /\ executed' = executed \o Effect(c)
  <2>1. Due' = {}
    BY <1>6, DueStages
  <2>2. CASE c.type \in {HND, ACK}
    <3>1. executed \o <<>> = executed
      BY ConcatEmptySeq DEF TypeInv, TypeOK
    <3>2. Due = {} /\ executed' = executed
      BY <1>4, <1>6, <2>2, <3>1 DEF Duty, Effect
    <3> QED
      BY <1>3, <2>1, <3>2 DEF Service!vars
  <2>3. CASE c.type \notin {HND, ACK}
    <3>1. c \in Done
      BY SentFacts DEF Payload, Done
    <3>2. executed \o <<c>> = Append(executed, c)
      BY <3>1, AppendIsConcat DEF TypeInv, TypeOK, Done
    <3>3. Due = {c} /\ executed' = Append(executed, c)
      BY <1>4, <1>6, <2>3, <3>2 DEF Duty, Effect
    <3> QED
      BY <1>3, <2>1, <3>3 DEF Service!Next, Service!CarryOut
  <2> QED
    BY <2>2, <2>3
<1> QED
  BY <1>2, <1>5, <1>6

LEMMA ServesFault ==
    ASSUME CrcIsByte, TypeInv, LinkInv, MasterReset \/ ClientRestart
    PROVE  Service!Next
<1>1. CASE MasterReset
  <2>1. AtRest
    BY <1>1, QuietRests DEF MasterReset, LinkInv
  <2>2. /\ cpc = "idle" /\ cpc' = "idle" /\ c2m' = <<>> /\ state' = state
        /\ executed' = executed /\ log' = Append(log, [cmd |-> cmd, end |-> "reset"])
    BY <1>1 DEF MasterReset, client
  <2>3. AtRest'
    BY <2>1, <2>2 DEF AtRest
  <2>4. Due = {} /\ Due' = {}
    BY <2>1, <2>3, AckFacts, IdFacts, DueStages
  <2>5. Awaited = {} /\ Awaited' = {} /\ cmd \in Commands \cup {Handshake}
    BY <2>2 DEF Awaited, TypeInv, TypeOK
  <2> QED
    BY <2>2, <2>4, <2>5 DEF Service!Next, Service!Restart
<1>2. CASE ClientRestart
  <2>1. /\ cpc # "idle" /\ cpc' = "idle" /\ log' = Logged("killed")
        /\ UNCHANGED <<c2m, state, rx, executed>>
    BY <1>2 DEF ClientRestart, Logged, master
  <2>2. Due' = Due
    BY <2>1 DEF Due
  <2>3. Service!End("killed")
    BY <2>1, <2>2, ServesEnd
  <2> QED
    BY <2>3 DEF Service!Next, Service!Die
<1> QED
  BY <1>1, <1>2

LEMMA ServesStep ==
    ASSUME CrcIsByte, ~EAGER, TypeInv, LinkInv, Orderly', [Next]_vars
    PROVE  Service!Next \/ UNCHANGED Service!vars
<1>1. 0 \in 0 .. ID_MOD - 1 /\ cid \in 0 .. ID_MOD - 1
  BY IdFacts DEF TypeInv, TypeOK
<1>2. CASE Connect
  BY <1>1, <1>2, ServesAsk DEF Connect, Handshake, Service!Next
<1>3. CASE Command
  <2>1. PICK c \in Commands : open /\ Start(c, cid)
    BY <1>3 DEF Command
  <2>2. c.type # HND
    BY <2>1, CommandsAssumption
       DEF HND, ECHO, APPLY, SET_SLAVE_ADDR
  <2>3. Agreed
    BY <2>1, <2>2, StartsOrderly DEF Agreed
  <2> QED
    BY <1>1, <2>1, <2>2, <2>3, ServesAsk DEF Service!Next
<1>4. CASE Disconnect
  BY <1>4 DEF Disconnect, master, Service!vars, Awaited, Due
<1>5. CASE Client
  BY <1>5, ServesClient
<1>6. CASE Master
  BY <1>6, ServesMaster
<1>7. CASE Fault
  BY <1>7, NoiseStep, ServesFault DEF Fault
<1>8. CASE UNCHANGED vars
  BY <1>8 DEF vars, client, master, Service!vars, Awaited, Due
<1> QED
  BY <1>2, <1>3, <1>4, <1>5, <1>6, <1>7, <1>8 DEF Next

\* As long as the link is orderly, the client, the line and the master's handler implement
\* CommandService: a command is carried out once, in order, before the next is asked for
\* and before its answer is reported, also when its client died.
THEOREM ServiceImplemented ==
    ASSUME CrcIsByte, ~EAGER
    PROVE  Spec => ImplementsService
<1>1. Init => Service!Init
  <2> SUFFICES ASSUME Init PROVE Service!Init
    OBVIOUS
  <2>1. AtRest /\ Awaited = {} /\ executed = <<>> /\ log = <<>>
    BY DEF Init, AtRest, Awaited
  <2>2. Due = {}
    <3>1. ~(Len(<<>>) > HEADER_SIZE)
      BY DEF HEADER_SIZE
    <3> QED
      BY <2>1, <3>1 DEF AtRest, Due, DueOf
  <2> QED
    BY <2>1, <2>2 DEF Service!Init
<1>2. /\ TypeInv /\ (Orderly => LinkInv)
      /\ [Next]_vars
      => [Orderly' => Service!Next]_(Service!vars)
  BY ServesStep, OrderlyBefore, CrcIsByte
<1> QED
  BY <1>1, <1>2, LinkTheorem, PTL DEF Spec, ImplementsService

====

---- MODULE CrcProofs ----
(***************************************************************************)
(* CrcFrame's properties, proved for messages of any length and of any     *)
(* bytes.  A byte is the sum of its bits, so Xor adds bit by bit and one   *)
(* Shift, hence a division round and the whole loop, is linear: what the   *)
(* check says of a damaged message is what it says of the damage alone.    *)
(* The table is the division because its entry for 2c, and for 2c + 1,     *)
(* follows from the one for c.  A burst is one byte that was shifted; one  *)
(* bit leaves remainders that are no single bit for as long as a second    *)
(* bit is at most 14 bytes behind, so that bit cannot cancel them.  Loops  *)
(* are taken with UpTo: induction as the least number outside a set.       *)
(***************************************************************************)
EXTENDS CrcFrame, SequenceTheorems, WellFoundedInduction, TLAPS

-----------------------------------------------------------------------------
(* Bytes as vectors of eight bits *)

\* The bit of a byte that has the weight m.
Bit(a, m) == (a \div m) % 2

LEMMA ByteFacts == \A b : b \in Byte <=> b \in Nat /\ b <= 255
BY DEF Byte

LEMMA BitFacts ==
    ASSUME NEW a \in Byte
    PROVE  /\ \A m \in {1, 2, 4, 8, 16, 32, 64, 128} : Bit(a, m) \in {0, 1}
           /\ a = Bit(a, 1) + 2 * Bit(a, 2) + 4 * Bit(a, 4) + 8 * Bit(a, 8)
                  + 16 * Bit(a, 16) + 32 * Bit(a, 32) + 64 * Bit(a, 64) + 128 * Bit(a, 128)
BY DEF Byte, Bit

\* The bits of a sum of weights are the ones it was made of.
LEMMA SumBits ==
    ASSUME NEW b0 \in {0, 1}, NEW b1 \in {0, 1}, NEW b2 \in {0, 1}, NEW b3 \in {0, 1},
           NEW b4 \in {0, 1}, NEW b5 \in {0, 1}, NEW b6 \in {0, 1}, NEW b7 \in {0, 1},
           NEW s, s = b0 + 2 * b1 + 4 * b2 + 8 * b3 + 16 * b4 + 32 * b5 + 64 * b6 + 128 * b7
    PROVE  /\ s \in Byte
           /\ Bit(s, 1) = b0 /\ Bit(s, 2) = b1 /\ Bit(s, 4) = b2 /\ Bit(s, 8) = b3
           /\ Bit(s, 16) = b4 /\ Bit(s, 32) = b5 /\ Bit(s, 64) = b6 /\ Bit(s, 128) = b7
BY DEF Byte, Bit

LEMMA XorBits ==
    ASSUME NEW a \in Byte, NEW b \in Byte
    PROVE  /\ Xor(a, b) \in Byte
           /\ \A m \in {1, 2, 4, 8, 16, 32, 64, 128} :
                  Bit(Xor(a, b), m) = (Bit(a, m) + Bit(b, m)) % 2
<1> DEFINE x(m) == (Bit(a, m) + Bit(b, m)) % 2
<1>1. \A m \in {1, 2, 4, 8, 16, 32, 64, 128} : x(m) \in {0, 1}
  BY BitFacts
<1>2. Xor(a, b) = x(1) + 2 * x(2) + 4 * x(4) + 8 * x(8) + 16 * x(16)
                  + 32 * x(32) + 64 * x(64) + 128 * x(128)
  BY DEF Xor, Bit, Byte
<1> QED
  <2> HIDE DEF x
  <2>1. x(1) \in {0, 1} /\ x(2) \in {0, 1} /\ x(4) \in {0, 1} /\ x(8) \in {0, 1}
        /\ x(16) \in {0, 1} /\ x(32) \in {0, 1} /\ x(64) \in {0, 1} /\ x(128) \in {0, 1}
    BY <1>1
  <2>2. /\ Xor(a, b) \in Byte
        /\ \A m \in {1, 2, 4, 8, 16, 32, 64, 128} : Bit(Xor(a, b), m) = x(m)
    BY <1>2, <2>1, SumBits
  <2> QED
    BY <2>2 DEF x

\* Two bytes with the same bits are the same.
LEMMA SameBits ==
    ASSUME NEW a \in Byte, NEW b \in Byte,
           \A m \in {1, 2, 4, 8, 16, 32, 64, 128} : Bit(a, m) = Bit(b, m)
    PROVE  a = b
BY BitFacts

LEMMA XorIs ==
    ASSUME NEW a \in Byte, NEW b \in Byte, NEW x \in Byte,
           \A m \in {1, 2, 4, 8, 16, 32, 64, 128} : Bit(x, m) = (Bit(a, m) + Bit(b, m)) % 2
    PROVE  Xor(a, b) = x
BY XorBits, SameBits

LEMMA XorFacts ==
    ASSUME NEW a \in Byte, NEW b \in Byte
    PROVE  /\ Xor(a, b) \in Byte
           /\ Xor(a, b) = Xor(b, a)
           /\ Xor(a, 0) = a
           /\ Xor(a, a) = 0
<1>1. Xor(a, b) \in Byte
  BY XorBits
<1>2. Xor(a, b) = Xor(b, a)
  <2>1. Xor(b, a) \in Byte
    BY XorBits
  <2>2. ASSUME NEW m \in {1, 2, 4, 8, 16, 32, 64, 128}
        PROVE  Bit(Xor(b, a), m) = (Bit(a, m) + Bit(b, m)) % 2
    <3>1. Bit(Xor(b, a), m) = (Bit(b, m) + Bit(a, m)) % 2
      BY XorBits
    <3>2. Bit(a, m) \in {0, 1} /\ Bit(b, m) \in {0, 1}
      BY BitFacts
    <3> QED
      BY <3>1, <3>2
  <2> QED
    BY <2>1, <2>2, XorIs
<1>3. Xor(a, 0) = a /\ Xor(a, a) = 0
  BY DEF Xor, Byte
<1> QED
  BY <1>1, <1>2, <1>3

LEMMA XorAssociative ==
    ASSUME NEW a \in Byte, NEW b \in Byte, NEW c \in Byte
    PROVE  Xor(a, Xor(b, c)) = Xor(Xor(a, b), c)
<1> DEFINE l == Xor(a, Xor(b, c))
           r == Xor(Xor(a, b), c)
<1>1. l \in Byte /\ r \in Byte /\ Xor(b, c) \in Byte /\ Xor(a, b) \in Byte
  BY XorBits
<1>2. ASSUME NEW m \in {1, 2, 4, 8, 16, 32, 64, 128}
      PROVE  Bit(l, m) = Bit(r, m)
  <2>1. Bit(l, m) = (Bit(a, m) + ((Bit(b, m) + Bit(c, m)) % 2)) % 2
    BY <1>1, XorBits
  <2>2. Bit(r, m) = (((Bit(a, m) + Bit(b, m)) % 2) + Bit(c, m)) % 2
    BY <1>1, XorBits
  <2>3. Bit(a, m) \in {0, 1} /\ Bit(b, m) \in {0, 1} /\ Bit(c, m) \in {0, 1}
    BY BitFacts
  <2> QED
    BY <2>1, <2>2, <2>3
<1> HIDE DEF l, r
<1>3. l = r
  BY <1>1, <1>2, SameBits
<1> QED
  BY <1>3 DEF l, r

\* Bytes differ where their exclusive or is not zero.
LEMMA XorZero ==
    ASSUME NEW a \in Byte, NEW b \in Byte, Xor(a, b) = 0
    PROVE  a = b
<1>1. 0 \in Byte
  BY DEF Byte
<1>2. Xor(a, Xor(b, b)) = Xor(Xor(a, b), b)
  BY XorAssociative
<1> QED
  BY <1>1, <1>2, XorFacts

-----------------------------------------------------------------------------
(* One bit, one byte and the table *)

LEMMA ShiftFacts ==
    ASSUME NEW a \in Byte
    PROVE  /\ Shift[a] \in Byte
           /\ a < 128 => Shift[a] = 2 * a
           /\ Shift[a] = 0 <=> a = 0
<1>1. Shift[a] = IF a >= 128 THEN Xor((2 * a) % 256, 7) ELSE 2 * a
  BY DEF Shift, CRC_POLY
<1>2. CASE a < 128
  BY <1>1, <1>2 DEF Byte
<1>3. CASE a >= 128
  <2>1. (2 * a) % 256 \in Byte /\ 7 \in Byte /\ (2 * a) % 256 # 7
    BY <1>3 DEF Byte
  <2>2. Xor((2 * a) % 256, 7) \in Byte /\ Xor((2 * a) % 256, 7) # 0
    BY <2>1, XorFacts, XorZero
  <2> QED
    BY <1>1, <1>3, <2>2 DEF Byte
<1> QED
  BY <1>2, <1>3 DEF Byte

\* Doubling moves every bit to the next weight and drops the highest.
LEMMA DoubleBits ==
    ASSUME NEW a \in Byte, NEW d, d = (2 * a) % 256
    PROVE  /\ d \in Byte /\ (a >= 128 <=> Bit(a, 128) = 1)
           /\ Bit(d, 1) = 0 /\ Bit(d, 2) = Bit(a, 1) /\ Bit(d, 4) = Bit(a, 2)
           /\ Bit(d, 8) = Bit(a, 4) /\ Bit(d, 16) = Bit(a, 8) /\ Bit(d, 32) = Bit(a, 16)
           /\ Bit(d, 64) = Bit(a, 32) /\ Bit(d, 128) = Bit(a, 64)
<1>1. /\ Bit(a, 1) \in {0, 1} /\ Bit(a, 2) \in {0, 1} /\ Bit(a, 4) \in {0, 1}
      /\ Bit(a, 8) \in {0, 1} /\ Bit(a, 16) \in {0, 1} /\ Bit(a, 32) \in {0, 1}
      /\ Bit(a, 64) \in {0, 1} /\ Bit(a, 128) \in {0, 1}
  BY BitFacts
<1>2. a = Bit(a, 1) + 2 * Bit(a, 2) + 4 * Bit(a, 4) + 8 * Bit(a, 8) + 16 * Bit(a, 16)
          + 32 * Bit(a, 32) + 64 * Bit(a, 64) + 128 * Bit(a, 128)
  BY BitFacts
<1>3. a >= 128 <=> Bit(a, 128) = 1
  BY <1>1, <1>2
<1>4. d = 0 + 2 * Bit(a, 1) + 4 * Bit(a, 2) + 8 * Bit(a, 4) + 16 * Bit(a, 8)
          + 32 * Bit(a, 16) + 64 * Bit(a, 32) + 128 * Bit(a, 64)
  BY <1>1, <1>2
<1>5. 0 \in {0, 1}
  OBVIOUS
<1> QED
  BY <1>1, <1>3, <1>4, <1>5, SumBits

LEMMA ShiftBits ==
    ASSUME NEW a \in Byte
    PROVE  /\ Bit(Shift[a], 1) = Bit(a, 128)
           /\ Bit(Shift[a], 2) = (Bit(a, 1) + Bit(a, 128)) % 2
           /\ Bit(Shift[a], 4) = (Bit(a, 2) + Bit(a, 128)) % 2
           /\ Bit(Shift[a], 8) = Bit(a, 4) /\ Bit(Shift[a], 16) = Bit(a, 8)
           /\ Bit(Shift[a], 32) = Bit(a, 16) /\ Bit(Shift[a], 64) = Bit(a, 32)
           /\ Bit(Shift[a], 128) = Bit(a, 64)
<1>1. PICK d \in Byte : d = (2 * a) % 256
  BY DEF Byte
<1>2. Shift[a] = IF a >= 128 THEN Xor(d, 7) ELSE d
  BY <1>1 DEF Shift, CRC_POLY, Byte
<1>3. \A m \in {1, 2, 4, 8, 16, 32, 64, 128} : Bit(a, m) \in {0, 1}
  BY BitFacts
<1>4. CASE a < 128
  BY <1>1, <1>2, <1>3, <1>4, DoubleBits, ByteFacts
<1>5. CASE a >= 128
  <2>1. 7 \in Byte
    BY DEF Byte
  <2>2. /\ Bit(7, 1) = 1 /\ Bit(7, 2) = 1 /\ Bit(7, 4) = 1 /\ Bit(7, 8) = 0
        /\ Bit(7, 16) = 0 /\ Bit(7, 32) = 0 /\ Bit(7, 64) = 0 /\ Bit(7, 128) = 0
    BY DEF Bit
  <2>3. \A m \in {1, 2, 4, 8, 16, 32, 64, 128} :
            Bit(Shift[a], m) = (Bit(d, m) + Bit(7, m)) % 2
    BY <1>2, <1>5, <2>1, XorBits
  <2> QED
    BY <1>1, <1>3, <1>5, <2>2, <2>3, DoubleBits
<1> QED
  BY <1>4, <1>5, ByteFacts

LEMMA ShiftLinear ==
    ASSUME NEW a \in Byte, NEW b \in Byte
    PROVE  Shift[Xor(a, b)] = Xor(Shift[a], Shift[b])
<1> DEFINE l == Shift[Xor(a, b)]
           r == Xor(Shift[a], Shift[b])
<1>1. /\ Xor(a, b) \in Byte /\ Shift[a] \in Byte /\ Shift[b] \in Byte
      /\ l \in Byte /\ r \in Byte
  BY XorFacts, ShiftFacts
<1>2. ASSUME NEW m \in {1, 2, 4, 8, 16, 32, 64, 128}
      PROVE  Bit(l, m) = Bit(r, m)
  <2>1. \A n \in {1, 2, 4, 8, 16, 32, 64, 128} :
            /\ Bit(a, n) \in {0, 1} /\ Bit(b, n) \in {0, 1}
            /\ Bit(Xor(a, b), n) = (Bit(a, n) + Bit(b, n)) % 2
    BY BitFacts, XorBits
  <2>2. Bit(r, m) = (Bit(Shift[a], m) + Bit(Shift[b], m)) % 2
    BY <1>1, XorBits
  <2> HIDE DEF r
  <2> QED
    BY <1>1, <2>1, <2>2, ShiftBits
<1> HIDE DEF l, r
<1>3. l = r
  BY <1>1, <1>2, SameBits
<1> QED
  BY <1>3 DEF l, r

\* Eight shifts, one after the other.
Chain(c) == <<c, Shift[c], Shift[Shift[c]], Shift[Shift[Shift[c]]],
              Shift[Shift[Shift[Shift[c]]]], Shift[Shift[Shift[Shift[Shift[c]]]]],
              Shift[Shift[Shift[Shift[Shift[Shift[c]]]]]],
              Shift[Shift[Shift[Shift[Shift[Shift[Shift[c]]]]]]],
              LongDivision[c]>>

LEMMA ChainFacts ==
    ASSUME NEW c \in Byte
    PROVE  /\ Chain(c)[1] = c
           /\ \A k \in 1 .. 8 : Chain(c)[k + 1] = Shift[Chain(c)[k]]
           /\ \A k \in 1 .. 9 : Chain(c)[k] \in Byte /\ (Chain(c)[k] = 0 <=> c = 0)
           /\ Chain(c)[9] = LongDivision[c]
<1>1. LongDivision[c] = Shift[Shift[Shift[Shift[Shift[Shift[Shift[Shift[c]]]]]]]]
  BY DEF LongDivision
<1>2. Chain(c)[1] = c /\ Chain(c)[9] = LongDivision[c]
  BY DEF Chain
<1>3. \A k \in 1 .. 8 : Chain(c)[k + 1] = Shift[Chain(c)[k]]
  <2>1. /\ Chain(c)[2] = Shift[Chain(c)[1]] /\ Chain(c)[3] = Shift[Chain(c)[2]]
        /\ Chain(c)[4] = Shift[Chain(c)[3]] /\ Chain(c)[5] = Shift[Chain(c)[4]]
        /\ Chain(c)[6] = Shift[Chain(c)[5]] /\ Chain(c)[7] = Shift[Chain(c)[6]]
        /\ Chain(c)[8] = Shift[Chain(c)[7]] /\ Chain(c)[9] = Shift[Chain(c)[8]]
    BY <1>1 DEF Chain
  <2>2. ASSUME NEW k \in 1 .. 8, NEW m \in 2 .. 9, m = k + 1
        PROVE  Chain(c)[m] = Shift[Chain(c)[k]]
    <3>1. \/ (k = 1 /\ m = 2) \/ (k = 2 /\ m = 3) \/ (k = 3 /\ m = 4) \/ (k = 4 /\ m = 5)
          \/ (k = 5 /\ m = 6) \/ (k = 6 /\ m = 7) \/ (k = 7 /\ m = 8) \/ (k = 8 /\ m = 9)
      BY <2>2
    <3> QED
      BY <2>1, <3>1, Zenon
  <2>3. \A k \in 1 .. 8 : k + 1 \in 2 .. 9
    OBVIOUS
  <2> QED
    BY <2>2, <2>3
<1>4. \A k \in 1 .. 9 : Chain(c)[k] \in Byte /\ (Chain(c)[k] = 0 <=> c = 0)
  BY <1>2, <1>3, ShiftFacts
<1> QED
  BY <1>2, <1>3, <1>4

\* Induction, by the least number that is not in a set.
LEMMA UpTo ==
    ASSUME NEW L \in Nat, NEW S, 0 \in S, \A n \in 1 .. L : n - 1 \in S => n \in S
    PROVE  \A n \in 0 .. L : n \in S
<1> DEFINE Below == {p \in Nat \X Nat : p[1] < p[2]}
           Rest == (0 .. L) \ S
<1>1. SUFFICES ASSUME Rest # {} PROVE FALSE
  OBVIOUS
<1>2. IsWellFoundedOn(Below, Nat)
  <2>1. IsWellFoundedOn({p \in Nat \X Nat : p[1] < p[2]}, Nat)
    BY NatLessThanWellFounded DEF OpToRel
  <2> QED
    BY <2>1
<1>3. Rest \subseteq Nat
  OBVIOUS
<1> HIDE DEF Below
<1>4. PICK x \in Rest : \A y \in Rest : <<y, x>> \notin Below
  <2> HIDE DEF Rest
  <2> QED
    BY <1>1, <1>2, <1>3, WFMin
<1>5. \A y \in Rest : ~(y < x)
  BY <1>3, <1>4 DEF Below
<1>6. x \in 1 .. L /\ x \notin S
  OBVIOUS
<1>7. x - 1 \in 0 .. L /\ x - 1 < x
  BY <1>6
<1>8. x - 1 \in S
  BY <1>5, <1>7
<1> QED
  BY <1>6, <1>8

LEMMA LongFacts ==
    ASSUME NEW a \in Byte
    PROVE  /\ LongDivision[a] \in Byte
           /\ LongDivision[a] = 0 <=> a = 0
           /\ LongDivision[Shift[a]] = Shift[LongDivision[a]]
<1>1. LongDivision[a] \in Byte /\ (LongDivision[a] = 0 <=> a = 0)
  BY ChainFacts
<1>2. Shift[a] \in Byte
  BY ShiftFacts
<1>3. LongDivision[Shift[a]] = Shift[LongDivision[a]]
  BY <1>2 DEF LongDivision
<1> QED
  BY <1>1, <1>3

LEMMA ChainLinear ==
    ASSUME NEW a \in Byte, NEW b \in Byte
    PROVE  \A k \in 1 .. 9 : Chain(Xor(a, b))[k] = Xor(Chain(a)[k], Chain(b)[k])
<1> DEFINE S == {n \in 0 .. 8 :
                    Chain(Xor(a, b))[n + 1] = Xor(Chain(a)[n + 1], Chain(b)[n + 1])}
<1>1. Xor(a, b) \in Byte
  BY XorFacts
<1>2. 0 \in S
  BY <1>1, ChainFacts
<1>3. ASSUME NEW n \in 1 .. 8, n - 1 \in S
      PROVE  n \in S
  <2>1. n + 1 \in 1 .. 9 /\ n \in 1 .. 9 /\ n \in 0 .. 8 /\ (n - 1) + 1 = n
    OBVIOUS
  <2>2. Chain(Xor(a, b))[n] = Xor(Chain(a)[n], Chain(b)[n])
    BY <1>3, <2>1
  <2>3. /\ Chain(Xor(a, b))[n + 1] = Shift[Chain(Xor(a, b))[n]]
        /\ Chain(a)[n + 1] = Shift[Chain(a)[n]]
        /\ Chain(b)[n + 1] = Shift[Chain(b)[n]]
    BY <1>1, ChainFacts
  <2>4. Chain(a)[n] \in Byte /\ Chain(b)[n] \in Byte
    BY <2>1, ChainFacts
  <2> QED
    BY <2>1, <2>2, <2>3, <2>4, ShiftLinear
<1>4. \A n \in 0 .. 8 : n \in S
  <2> HIDE DEF S
  <2>1. 8 \in Nat
    OBVIOUS
  <2> QED
    BY <1>2, <1>3, <2>1, UpTo
<1>5. ASSUME NEW k \in 1 .. 9
      PROVE  k - 1 \in 0 .. 8 /\ (k - 1) + 1 = k
  OBVIOUS
<1> QED
  BY <1>4, <1>5

LEMMA LongLinear ==
    ASSUME NEW a \in Byte, NEW b \in Byte
    PROVE  LongDivision[Xor(a, b)] = Xor(LongDivision[a], LongDivision[b])
<1>1. Xor(a, b) \in Byte /\ 9 \in 1 .. 9
  BY XorFacts
<1> QED
  BY <1>1, ChainLinear, ChainFacts

\* Exclusive or with 7 inverts the last three bits.
Flip7(a) == 8 * (a \div 8) + (7 - (a % 8))

LEMMA FlipFacts ==
    ASSUME NEW a \in Byte
    PROVE  /\ Xor(a, 7) = Flip7(a)
           /\ Shift[a] = IF a >= 128 THEN Flip7(2 * a - 256) ELSE 2 * a
<1>1. \A b \in Byte : Xor(b, 7) = Flip7(b)
  <2> SUFFICES ASSUME NEW b \in Byte PROVE Xor(b, 7) = Flip7(b)
    OBVIOUS
  <2>1. /\ Bit(b, 1) \in {0, 1} /\ Bit(b, 2) \in {0, 1} /\ Bit(b, 4) \in {0, 1}
        /\ Bit(b, 8) \in {0, 1} /\ Bit(b, 16) \in {0, 1} /\ Bit(b, 32) \in {0, 1}
        /\ Bit(b, 64) \in {0, 1} /\ Bit(b, 128) \in {0, 1}
    BY BitFacts
  <2>2. b = Bit(b, 1) + 2 * Bit(b, 2) + 4 * Bit(b, 4) + 8 * Bit(b, 8) + 16 * Bit(b, 16)
            + 32 * Bit(b, 32) + 64 * Bit(b, 64) + 128 * Bit(b, 128)
    BY BitFacts
  <2>3. PICK y : y = Flip7(b)
    OBVIOUS
  <2>4. PICK n1, n2, n4 \in {0, 1} :
            n1 = 1 - Bit(b, 1) /\ n2 = 1 - Bit(b, 2) /\ n4 = 1 - Bit(b, 4)
    BY <2>1
  <2>5. y = n1 + 2 * n2 + 4 * n4 + 8 * Bit(b, 8) + 16 * Bit(b, 16)
            + 32 * Bit(b, 32) + 64 * Bit(b, 64) + 128 * Bit(b, 128)
    <3>1. PICK c1, c2, c4, c8, c16, c32, c64, c128 \in {0, 1} :
              /\ c1 = Bit(b, 1) /\ c2 = Bit(b, 2) /\ c4 = Bit(b, 4) /\ c8 = Bit(b, 8)
              /\ c16 = Bit(b, 16) /\ c32 = Bit(b, 32) /\ c64 = Bit(b, 64)
              /\ c128 = Bit(b, 128)
      BY <2>1
    <3>2. b = c1 + 2 * c2 + 4 * c4 + 8 * c8 + 16 * c16 + 32 * c32 + 64 * c64 + 128 * c128
      BY <2>2, <3>1
    <3>3. b \div 8 = c8 + 2 * c16 + 4 * c32 + 8 * c64 + 16 * c128
      BY <3>2
    <3>4. b % 8 = c1 + 2 * c2 + 4 * c4
      BY <3>2
    <3>5. y = 8 * (c8 + 2 * c16 + 4 * c32 + 8 * c64 + 16 * c128)
              + (7 - (c1 + 2 * c2 + 4 * c4))
      BY <2>3, <3>3, <3>4 DEF Flip7
    <3>6. y = n1 + 2 * n2 + 4 * n4 + 8 * c8 + 16 * c16 + 32 * c32 + 64 * c64 + 128 * c128
      BY <2>4, <3>1, <3>5
    <3> QED
      BY <3>1, <3>6
  <2>6. /\ y \in Byte
        /\ Bit(y, 1) = n1 /\ Bit(y, 2) = n2 /\ Bit(y, 4) = n4
        /\ Bit(y, 8) = Bit(b, 8) /\ Bit(y, 16) = Bit(b, 16) /\ Bit(y, 32) = Bit(b, 32)
        /\ Bit(y, 64) = Bit(b, 64) /\ Bit(y, 128) = Bit(b, 128)
    BY <2>1, <2>5, SumBits
  <2>7. 7 \in Byte
    BY DEF Byte
  <2>8. /\ Bit(7, 1) = 1 /\ Bit(7, 2) = 1 /\ Bit(7, 4) = 1 /\ Bit(7, 8) = 0
        /\ Bit(7, 16) = 0 /\ Bit(7, 32) = 0 /\ Bit(7, 64) = 0 /\ Bit(7, 128) = 0
    BY DEF Bit
  <2>9. \A m \in {1, 2, 4, 8, 16, 32, 64, 128} : Bit(y, m) = (Bit(b, m) + Bit(7, m)) % 2
    BY <2>1, <2>4, <2>6, <2>8
  <2> QED
    BY <2>3, <2>6, <2>7, <2>9, XorIs
<1>2. Shift[a] = IF a >= 128 THEN Xor((2 * a) % 256, 7) ELSE 2 * a
  BY DEF Shift, CRC_POLY
<1>3. a >= 128 => (2 * a) % 256 \in Byte /\ (2 * a) % 256 = 2 * a - 256
  BY DEF Byte
<1> QED
  BY <1>1, <1>2, <1>3

\* The table's first entry, and the two whose number is twice that of another.
LEMMA TableEntries ==
    /\ crc8_table_0x07[1] = 0
    /\ \A c \in 0 .. 255 : crc8_table_0x07[c + 1] \in 0 .. 255
    /\ \A c \in 0 .. 127 :
           LET t == crc8_table_0x07[c + 1]
           IN  /\ crc8_table_0x07[2 * c + 1]
                      = IF t >= 128 THEN Flip7(2 * t - 256) ELSE 2 * t
               /\ crc8_table_0x07[2 * c + 2] = Flip7(crc8_table_0x07[2 * c + 1])
<1>1. crc8_table_0x07[1] = 0
  BY DEF crc8_table_0x07
<1>2. \A c \in 0 .. 255 : crc8_table_0x07[c + 1] \in 0 .. 255
  BY DEF crc8_table_0x07
<1>3. \A c \in 0 .. 127 :
          LET t == crc8_table_0x07[c + 1]
          IN  /\ crc8_table_0x07[2 * c + 1]
                     = IF t >= 128 THEN Flip7(2 * t - 256) ELSE 2 * t
              /\ crc8_table_0x07[2 * c + 2] = Flip7(crc8_table_0x07[2 * c + 1])
  BY DEF crc8_table_0x07, Flip7
<1> QED
  BY <1>1, <1>2, <1>3

\* Doubling a byte is a shift, and the byte after that has its last bit set.
LEMMA LongDoubles ==
    ASSUME NEW c \in Byte, c < 128
    PROVE  /\ LongDivision[2 * c] = Shift[LongDivision[c]]
           /\ LongDivision[2 * c + 1] = Xor(LongDivision[2 * c], 7)
<1>1. 2 * c \in Byte /\ 1 \in Byte
  BY ByteFacts
<1>2. Shift[c] = 2 * c
  BY ShiftFacts
<1>3. LongDivision[1] = 7
  <2>1. /\ 1 \in Byte /\ 2 \in Byte /\ 4 \in Byte /\ 8 \in Byte /\ 16 \in Byte
        /\ 32 \in Byte /\ 64 \in Byte /\ 128 \in Byte
    BY DEF Byte
  <2>2. \A b \in Byte : b < 128 => Shift[b] = 2 * b
    BY ShiftFacts
  <2>3. /\ Shift[1] = 2 /\ Shift[2] = 4 /\ Shift[4] = 8 /\ Shift[8] = 16 /\ Shift[16] = 32
        /\ Shift[32] = 64 /\ Shift[64] = 128
    BY <2>1, <2>2
  <2>4. Shift[128] = 7
    BY <2>1, FlipFacts DEF Flip7
  <2>5. LongDivision[1] = Shift[Shift[Shift[Shift[Shift[Shift[Shift[Shift[1]]]]]]]]
    BY <2>1 DEF LongDivision
  <2>6. Shift[Shift[Shift[Shift[Shift[Shift[Shift[Shift[1]]]]]]]] = 7
    BY <2>3, <2>4
  <2> QED
    BY <2>5, <2>6, Zenon
<1>4. 2 * c + 1 = Xor(2 * c, 1)
  BY DEF Xor, Byte
<1> QED
  BY <1>1, <1>2, <1>3, <1>4, LongFacts, LongLinear

\* The entries of a byte's double and of the next byte, from the byte's own.
LEMMA TableDoubles ==
    ASSUME NEW d \in Byte, d < 128, crc8_table_0x07[d + 1] = LongDivision[d]
    PROVE  /\ crc8_table_0x07[2 * d + 1] = LongDivision[2 * d]
           /\ crc8_table_0x07[2 * d + 2] = LongDivision[2 * d + 1]
<1>1. d \in 0 .. 127 /\ 2 * d \in Byte
  BY ByteFacts
<1>2. LongDivision[d] \in Byte /\ LongDivision[2 * d] \in Byte
  BY <1>1, LongFacts
<1>3. PICK t \in Byte : t = crc8_table_0x07[d + 1]
  BY <1>2
<1>4. /\ crc8_table_0x07[2 * d + 1] = IF t >= 128 THEN Flip7(2 * t - 256) ELSE 2 * t
      /\ crc8_table_0x07[2 * d + 2] = Flip7(crc8_table_0x07[2 * d + 1])
  BY <1>1, <1>3, TableEntries
<1>5. Shift[t] = IF t >= 128 THEN Flip7(2 * t - 256) ELSE 2 * t
  BY FlipFacts
<1>6. crc8_table_0x07[2 * d + 1] = LongDivision[2 * d]
  BY <1>3, <1>4, <1>5, LongDoubles
<1>7. Xor(LongDivision[2 * d], 7) = Flip7(LongDivision[2 * d])
  BY <1>2, FlipFacts
<1> QED
  BY <1>4, <1>6, <1>7, LongDoubles

\* The lookup table is the table of the division by the polynomial.
LEMMA TableIsDivision ==
    \A c \in Byte : crc8_table_0x07[c + 1] = LongDivision[c]
<1> DEFINE Right(c) == crc8_table_0x07[c + 1] = LongDivision[c]
           S == {n \in Nat : \A c \in 0 .. n : Right(c)}
<1>1. 0 \in S
  <2>1. 0 \in Byte
    BY DEF Byte
  <2>2. LongDivision[0] = 0
    BY <2>1, LongFacts
  <2>3. crc8_table_0x07[0 + 1] = 0
    <3>1. 0 + 1 = 1
      OBVIOUS
    <3> QED
      BY <3>1, TableEntries, Zenon
  <2>4. \A c \in 0 .. 0 : c = 0
    OBVIOUS
  <2> QED
    BY <2>2, <2>3, <2>4
<1>2. ASSUME NEW m \in Nat, NEW n \in 1 .. m, m <= 255, n - 1 \in S
      PROVE  n \in S
  <2> HIDE DEF Right
  <2>1. PICK d \in Nat : d < n /\ (n = 2 * d \/ n = 2 * d + 1)
    <3>1. n \div 2 \in Nat /\ n \div 2 < n
          /\ (n = 2 * (n \div 2) \/ n = 2 * (n \div 2) + 1)
      OBVIOUS
    <3> QED
      BY <3>1
  <2>2. Right(d)
    BY <1>2, <2>1
  <2>3. d \in Byte /\ d < 128
    BY <1>2, <2>1, ByteFacts
  <2>4. Right(n)
    <3>1. /\ crc8_table_0x07[2 * d + 1] = LongDivision[2 * d]
          /\ crc8_table_0x07[2 * d + 2] = LongDivision[2 * d + 1]
      BY <2>2, <2>3, TableDoubles DEF Right
    <3>2. (2 * d + 1) + 1 = 2 * d + 2
      OBVIOUS
    <3> QED
      BY <2>1, <3>1, <3>2 DEF Right
  <2> QED
    BY <1>2, <2>4
<1> HIDE DEF S
<1>3. 255 \in Nat /\ 255 <= 255
  OBVIOUS
<1>4. \A n \in 0 .. 255 : n \in S
  <2>1. PICK m \in Nat : m = 255
    OBVIOUS
  <2>2. \A n \in 0 .. m : n \in S
    BY <1>1, <1>2, <2>1, UpTo
  <2> QED
    BY <2>1, <2>2
<1>5. 255 \in S
  BY <1>4
<1> QED
  BY <1>5 DEF Byte, S

-----------------------------------------------------------------------------
(* The loop of crc() and crc_check() *)

LEMMA RoundFacts ==
    ASSUME NEW c \in Byte, NEW b \in Byte
    PROVE  /\ crc_division_round[c][b] = LongDivision[Xor(c, b)]
           /\ LongDivision[Xor(c, b)] \in Byte
<1>1. Xor(c, b) \in Byte
  BY XorFacts
<1>2. crc_division_round[c][b] = crc8_table_0x07[Xor(c, b) + 1]
  BY DEF crc_division_round
<1> QED
  BY <1>1, <1>2, TableIsDivision, LongFacts

\* The remainders after each byte.
IsRunTo(r, data, k) ==
    /\ r \in [0 .. k -> Byte]
    /\ r[0] = 0
    /\ \A n \in 1 .. k : r[n] = LongDivision[Xor(r[n - 1], data[n])]

IsRun(r, data) == IsRunTo(r, data, Len(data))

LEMMA RunGoesOn ==
    ASSUME NEW data, NEW k \in Nat, k # 0, NEW r, IsRunTo(r, data, k - 1), data[k] \in Byte
    PROVE  \E q : IsRunTo(q, data, k)
<1> DEFINE q == [n \in 0 .. k |->
                    IF n < k THEN r[n] ELSE LongDivision[Xor(r[k - 1], data[k])]]
<1>1. /\ r \in [0 .. k - 1 -> Byte] /\ r[0] = 0 /\ k - 1 \in 0 .. k - 1
      /\ \A n \in 1 .. k - 1 : r[n] = LongDivision[Xor(r[n - 1], data[n])]
  BY DEF IsRunTo
<1>2. r[k - 1] \in Byte
  BY <1>1
<1>3. LongDivision[Xor(r[k - 1], data[k])] \in Byte
  BY <1>2, XorFacts, LongFacts
<1>4. q \in [0 .. k -> Byte] /\ q[0] = 0
  BY <1>1, <1>3
<1>5. ASSUME NEW n \in 1 .. k
      PROVE  q[n] = LongDivision[Xor(q[n - 1], data[n])]
  <2>1. n - 1 \in 0 .. k /\ n \in 0 .. k /\ n - 1 < k /\ q[n - 1] = r[n - 1]
    OBVIOUS
  <2>2. CASE n < k
    BY <1>1, <2>1, <2>2
  <2>3. CASE n = k
    BY <2>1, <2>3
  <2> QED
    BY <2>2, <2>3
<1>6. IsRunTo(q, data, k)
  <2> HIDE DEF q
  <2> QED
    BY <1>4, <1>5 DEF IsRunTo
<1> QED
  BY <1>6

LEMMA RunExists ==
    ASSUME NEW data \in Seq(Byte)
    PROVE  \E r : IsRun(r, data)
<1> DEFINE S == {k \in Nat : \E r : IsRunTo(r, data, k)}
<1>1. PICK L \in Nat : L = Len(data)
  OBVIOUS
<1>2. 0 \in S
  <2> DEFINE r == [n \in 0 .. 0 |-> 0]
  <2>1. r \in [0 .. 0 -> Byte] /\ r[0] = 0
    BY ByteFacts
  <2>2. IsRunTo(r, data, 0)
    BY <2>1 DEF IsRunTo
  <2> QED
    BY <2>2
<1>3. ASSUME NEW n \in 1 .. L, n - 1 \in S
      PROVE  n \in S
  <2>1. n \in Nat /\ n # 0 /\ data[n] \in Byte
    BY <1>1, ElementOfSeq
  <2>2. \E r : IsRunTo(r, data, n - 1)
    BY <1>3
  <2>3. \E q : IsRunTo(q, data, n)
    BY <2>1, <2>2, RunGoesOn
  <2> QED
    BY <2>1, <2>3
<1>4. \A n \in 0 .. L : n \in S
  <2> HIDE DEF S
  <2> QED
    BY <1>2, <1>3, UpTo
<1>5. L \in S
  BY <1>4
<1> QED
  BY <1>1, <1>5 DEF IsRun

\* The remainder of a sequence is the last value of its run.
LEMMA RunIsRemainder ==
    ASSUME NEW data \in Seq(Byte), NEW r, IsRun(r, data)
    PROVE  crc(data) = r[Len(data)] /\ crc_check(data) = r[Len(data)]
<1> DEFINE Loop(f) == f = [n \in 0 .. Len(data) |->
                              IF n = 0 THEN 0 ELSE crc_division_round[f[n - 1]][data[n]]]
           after == CHOOSE f : Loop(f)
<1>1. Len(data) \in Nat
  OBVIOUS
<1>2. r \in [0 .. Len(data) -> Byte] /\ r[0] = 0
  BY DEF IsRun, IsRunTo
<1>3. ASSUME NEW n \in 1 .. Len(data)
      PROVE  r[n] = crc_division_round[r[n - 1]][data[n]]
  <2>1. data[n] \in Byte /\ n - 1 \in 0 .. Len(data)
    BY ElementOfSeq
  <2> QED
    BY <1>2, <2>1, RoundFacts DEF IsRun, IsRunTo
<1>4. Loop(r)
  BY <1>1, <1>2, <1>3
<1>5. Loop(after)
  BY <1>4
<1>6. Remainder(data, 0) = after[Len(data)]
  BY DEF Remainder
<1>7. after = r
  <2> DEFINE S == {n \in 0 .. Len(data) : after[n] = r[n]}
  <2> HIDE DEF after
  <2>1. 0 \in S
    BY <1>1, <1>2, <1>5
  <2>2. ASSUME NEW n \in 1 .. Len(data), n - 1 \in S
        PROVE  n \in S
    <3>1. n \in 0 .. Len(data) /\ n # 0
      BY <1>1
    <3>2. after[n] = crc_division_round[after[n - 1]][data[n]]
      BY <1>5, <3>1
    <3> QED
      BY <1>3, <2>2, <3>1, <3>2
  <2>3. \A n \in 0 .. Len(data) : n \in S
    <3> HIDE DEF S
    <3> QED
      BY <1>1, <2>1, <2>2, UpTo
  <2> QED
    BY <1>2, <1>5, <2>3
<1> HIDE DEF after
<1> QED
  BY <1>6, <1>7 DEF crc, crc_check, CRC_INIT

\* The remainder of what a run has seen does not depend on what follows.
LEMMA CrcAppend ==
    ASSUME NEW data \in Seq(Byte), NEW b \in Byte
    PROVE  /\ crc(data) \in Byte /\ crc_check(data) = crc(data)
           /\ crc(Append(data, b)) = LongDivision[Xor(crc(data), b)]
<1>1. PICK L \in Nat : L = Len(data)
  OBVIOUS
<1>2. /\ Append(data, b) \in Seq(Byte) /\ Len(Append(data, b)) = L + 1
      /\ Append(data, b)[L + 1] = b
      /\ \A n \in 1 .. L : Append(data, b)[n] = data[n]
  BY <1>1, AppendProperties
<1>3. PICK q : IsRun(q, Append(data, b))
  BY <1>2, RunExists
<1>4. /\ q \in [0 .. L + 1 -> Byte] /\ q[0] = 0
      /\ \A n \in 1 .. L + 1 : q[n] = LongDivision[Xor(q[n - 1], Append(data, b)[n])]
  BY <1>2, <1>3 DEF IsRun, IsRunTo
<1> DEFINE r == [n \in 0 .. L |-> q[n]]
<1>5. IsRun(r, data)
  <2>1. r \in [0 .. L -> Byte] /\ r[0] = 0
    BY <1>4
  <2>2. ASSUME NEW n \in 1 .. L
        PROVE  r[n] = LongDivision[Xor(r[n - 1], data[n])]
    <3>1. n \in 1 .. L + 1 /\ n \in 0 .. L /\ n - 1 \in 0 .. L
      OBVIOUS
    <3> QED
      BY <1>2, <1>4, <3>1
  <2> HIDE DEF r
  <2> QED
    BY <1>1, <2>1, <2>2 DEF IsRun, IsRunTo
<1>6. crc(data) = q[L] /\ crc_check(data) = q[L] /\ q[L] \in Byte
  <2>1. crc(data) = r[L] /\ crc_check(data) = r[L]
    BY <1>1, <1>5, RunIsRemainder
  <2> QED
    BY <1>4, <2>1
<1>7. crc(Append(data, b)) = q[L + 1]
  BY <1>2, <1>3, RunIsRemainder
<1>8. L + 1 \in 1 .. L + 1 /\ (L + 1) - 1 = L
  OBVIOUS
<1> QED
  BY <1>2, <1>4, <1>6, <1>7, <1>8

LEMMA CrcEmpty == crc(<<>>) = 0
<1>1. <<>> \in Seq(Byte) /\ Len(<<>>) = 0
  BY EmptySeq
<1>2. PICK r : IsRun(r, <<>>)
  BY <1>1, RunExists
<1> QED
  BY <1>1, <1>2, RunIsRemainder DEF IsRun, IsRunTo

\* Where two sequences differ.
IsDifference(e, f, g) ==
    /\ e \in Seq(Byte) /\ f \in Seq(Byte) /\ g \in Seq(Byte)
    /\ Len(e) = Len(f) /\ Len(g) = Len(f)
    /\ \A n \in 1 .. Len(f) : e[n] = Xor(f[n], g[n])

LEMMA XorOfXors ==
    ASSUME NEW a \in Byte, NEW b \in Byte, NEW c \in Byte, NEW d \in Byte
    PROVE  Xor(Xor(a, b), Xor(c, d)) = Xor(Xor(a, c), Xor(b, d))
<1>1. /\ Xor(c, d) \in Byte /\ Xor(b, d) \in Byte /\ Xor(b, c) \in Byte
      /\ Xor(b, c) = Xor(c, b)
  BY XorFacts
<1>2. Xor(Xor(a, b), Xor(c, d)) = Xor(a, Xor(b, Xor(c, d)))
  BY <1>1, XorAssociative
<1>3. Xor(b, Xor(c, d)) = Xor(Xor(b, c), d)
  BY XorAssociative
<1>4. Xor(Xor(c, b), d) = Xor(c, Xor(b, d))
  BY XorAssociative
<1>5. Xor(a, Xor(c, Xor(b, d))) = Xor(Xor(a, c), Xor(b, d))
  BY <1>1, XorAssociative
<1> QED
  BY <1>1, <1>2, <1>3, <1>4, <1>5

\* The check sees of two sequences exactly where they differ.
LEMMA CrcLinear ==
    ASSUME NEW e, NEW f, NEW g, IsDifference(e, f, g)
    PROVE  crc_check(e) = Xor(crc_check(f), crc_check(g))
<1>1. PICK L \in Nat : L = Len(e) /\ L = Len(f) /\ L = Len(g)
  BY DEF IsDifference
<1>2. e \in Seq(Byte) /\ f \in Seq(Byte) /\ g \in Seq(Byte)
  BY DEF IsDifference
<1>3. PICK p, q, r : IsRun(p, e) /\ IsRun(q, f) /\ IsRun(r, g)
  BY <1>2, RunExists
<1>4. /\ p \in [0 .. L -> Byte] /\ q \in [0 .. L -> Byte] /\ r \in [0 .. L -> Byte]
      /\ p[0] = 0 /\ q[0] = 0 /\ r[0] = 0
      /\ \A n \in 1 .. L : /\ p[n] = LongDivision[Xor(p[n - 1], e[n])]
                           /\ q[n] = LongDivision[Xor(q[n - 1], f[n])]
                           /\ r[n] = LongDivision[Xor(r[n - 1], g[n])]
  BY <1>1, <1>3 DEF IsRun, IsRunTo
<1> DEFINE S == {n \in 0 .. L : p[n] = Xor(q[n], r[n])}
<1>5. 0 \in S
  <2>1. 0 \in Byte
    BY ByteFacts
  <2> QED
    BY <1>4, <2>1, XorFacts
<1>6. ASSUME NEW n \in 1 .. L, n - 1 \in S
      PROVE  n \in S
  <2>1. /\ n \in 0 .. L /\ n - 1 \in 0 .. L
        /\ p[n - 1] \in Byte /\ q[n - 1] \in Byte /\ r[n - 1] \in Byte
    BY <1>4
  <2>2. e[n] \in Byte /\ f[n] \in Byte /\ g[n] \in Byte /\ e[n] = Xor(f[n], g[n])
    BY <1>1, <1>2, ElementOfSeq DEF IsDifference
  <2>3. Xor(q[n - 1], f[n]) \in Byte /\ Xor(r[n - 1], g[n]) \in Byte
    BY <2>1, <2>2, XorFacts
  <2>4. Xor(p[n - 1], e[n]) = Xor(Xor(q[n - 1], f[n]), Xor(r[n - 1], g[n]))
    BY <1>6, <2>1, <2>2, XorOfXors
  <2>5. p[n] = Xor(q[n], r[n])
    BY <1>4, <2>3, <2>4, LongLinear
  <2> QED
    BY <2>1, <2>5
<1>7. L \in S
  <2>1. \A n \in 0 .. L : n \in S
    <3> HIDE DEF S
    <3> QED
      BY <1>5, <1>6, UpTo
  <2> QED
    BY <2>1
<1> QED
  BY <1>1, <1>2, <1>3, <1>7, RunIsRemainder

-----------------------------------------------------------------------------
(* Damage *)

\* Undamaged bytes neither make a remainder nor take one away.
LEMMA RunOverZeros ==
    ASSUME NEW L \in Nat, NEW r, NEW e, IsRunTo(r, e, L),
           NEW i \in 0 .. L, NEW j \in i .. L,
           \A n \in i + 1 .. j : e[n] = 0
    PROVE  r[j] = 0 <=> r[i] = 0
<1> DEFINE S == {n \in 0 .. j - i : r[i + n] = 0 <=> r[i] = 0}
<1>1. j - i \in Nat /\ i + (j - i) = j /\ i + 0 = i
  OBVIOUS
<1>2. 0 \in S
  BY <1>1
<1>3. ASSUME NEW n \in 1 .. j - i, n - 1 \in S
      PROVE  n \in S
  <2>1. PICK m \in 1 .. L : m = i + n
    BY <1>1
  <2>2. i + (n - 1) = m - 1 /\ m \in i + 1 .. j /\ m - 1 \in 0 .. L /\ n \in 0 .. j - i
    BY <2>1
  <2>3. r[m] = LongDivision[Xor(r[m - 1], e[m])] /\ e[m] = 0 /\ r[m - 1] \in Byte
    BY <2>2 DEF IsRunTo
  <2>4. Xor(r[m - 1], 0) = r[m - 1]
    BY <2>3, XorFacts
  <2>5. r[m] = 0 <=> r[m - 1] = 0
    BY <2>3, <2>4, LongFacts
  <2> QED
    BY <1>3, <2>1, <2>2, <2>5
<1>4. j - i \in S
  <2>1. \A n \in 0 .. j - i : n \in S
    <3> HIDE DEF S
    <3> QED
      BY <1>1, <1>2, <1>3, UpTo
  <2> QED
    BY <1>1, <2>1
<1> QED
  BY <1>1, <1>4

\* The bytes from "from" to "to" are damaged, the others are not.
IsDamage(e, from, to) ==
    /\ e \in Seq(Byte)
    /\ from \in 1 .. Len(e) /\ to \in from .. Len(e)
    /\ \A n \in 1 .. Len(e) : n < from \/ n > to => e[n] = 0

\* What the check sees is what the damaged bytes leave.
LEMMA DamageRun ==
    ASSUME NEW e, NEW from, NEW to, IsDamage(e, from, to)
    PROVE  \E r : /\ IsRunTo(r, e, to) /\ e[from] \in Byte
                  /\ r[from] = LongDivision[e[from]]
                  /\ crc_check(e) = 0 <=> r[to] = 0
<1>1. PICK L \in Nat : L = Len(e)
  BY DEF IsDamage
<1>2. /\ e \in Seq(Byte) /\ from \in 1 .. L /\ to \in from .. L
      /\ \A n \in 1 .. L : n < from \/ n > to => e[n] = 0
  BY <1>1 DEF IsDamage
<1>3. PICK q : IsRun(q, e)
  BY <1>2, RunExists
<1>4. IsRunTo(q, e, L) /\ q \in [0 .. L -> Byte] /\ q[0] = 0
  BY <1>1, <1>3 DEF IsRun, IsRunTo
<1>5. crc_check(e) = q[L]
  BY <1>1, <1>2, <1>3, RunIsRemainder
<1>6. q[L] = 0 <=> q[to] = 0
  <2>1. to \in 0 .. L /\ L \in to .. L /\ \A n \in to + 1 .. L : e[n] = 0
    BY <1>2
  <2> QED
    BY <1>4, <2>1, RunOverZeros
<1>7. q[from] = LongDivision[e[from]]
  <2>1. 0 \in 0 .. L /\ from - 1 \in 0 .. L /\ \A n \in 0 + 1 .. from - 1 : e[n] = 0
    BY <1>2
  <2>2. q[from - 1] = 0
    BY <1>4, <2>1, RunOverZeros
  <2>3. e[from] \in Byte /\ 0 \in Byte
    BY <1>1, <1>2, ElementOfSeq, ByteFacts
  <2>4. Xor(0, e[from]) = e[from]
    BY <2>3, XorFacts
  <2> QED
    BY <1>2, <1>4, <2>2, <2>4 DEF IsRunTo
<1> DEFINE r == [n \in 0 .. to |-> q[n]]
<1>8. IsRunTo(r, e, to)
  <2>1. r \in [0 .. to -> Byte] /\ r[0] = 0
    BY <1>2, <1>4
  <2>2. ASSUME NEW n \in 1 .. to
        PROVE  r[n] = LongDivision[Xor(r[n - 1], e[n])]
    <3>1. n \in 1 .. L /\ n \in 0 .. to /\ n - 1 \in 0 .. to
      BY <1>2
    <3> QED
      BY <1>4, <3>1 DEF IsRunTo
  <2> HIDE DEF r
  <2> QED
    BY <2>1, <2>2 DEF IsRunTo
<1>9. r[from] = q[from] /\ r[to] = q[to]
  BY <1>2
<1>10. e[from] \in Byte
  BY <1>1, <1>2, ElementOfSeq
<1> HIDE DEF r
<1> QED
  BY <1>5, <1>6, <1>7, <1>8, <1>9, <1>10

\* One damaged byte.
LEMMA ByteDetected ==
    ASSUME NEW e, NEW at, IsDamage(e, at, at), e[at] # 0
    PROVE  crc_check(e) # 0
BY DamageRun, LongFacts

\* A burst that touches two bytes: shifted to the end of the second one, it is a byte.
LEMMA WordDetected ==
    ASSUME NEW e, NEW at \in Nat, IsDamage(e, at, at + 1),
           Xor(LongDivision[e[at]], e[at + 1]) # 0
    PROVE  crc_check(e) # 0
<1>1. PICK r : /\ IsRunTo(r, e, at + 1) /\ e[at] \in Byte
               /\ r[at] = LongDivision[e[at]]
               /\ crc_check(e) = 0 <=> r[at + 1] = 0
  BY DamageRun
<1>2. at + 1 \in 1 .. at + 1 /\ (at + 1) - 1 = at
  OBVIOUS
<1>3. r[at + 1] = LongDivision[Xor(r[at], e[at + 1])]
  BY <1>1, <1>2 DEF IsRunTo
<1>4. e[at + 1] \in Byte
  BY ElementOfSeq DEF IsDamage
<1>5. Xor(r[at], e[at + 1]) \in Byte
  BY <1>1, <1>4, LongFacts, XorFacts
<1> QED
  BY <1>1, <1>3, <1>5, LongFacts

\* Shifts that carry nothing out multiply.
LEMMA Multiples ==
    ASSUME NEW c \in Byte
    PROVE  /\ 2 * c <= 255 => Chain(c)[2] = 2 * c
           /\ 4 * c <= 255 => Chain(c)[3] = 4 * c
           /\ 8 * c <= 255 => Chain(c)[4] = 8 * c
           /\ 16 * c <= 255 => Chain(c)[5] = 16 * c
           /\ 32 * c <= 255 => Chain(c)[6] = 32 * c
           /\ 64 * c <= 255 => Chain(c)[7] = 64 * c
           /\ 128 * c <= 255 => Chain(c)[8] = 128 * c
<1>1. \A b \in Byte : 2 * b <= 255 => Shift[b] = 2 * b
  BY ShiftFacts, ByteFacts
<1>2. Chain(c)[1] = c
  BY ChainFacts
<1>3. \A k \in 1 .. 8 : Chain(c)[k + 1] = Shift[Chain(c)[k]]
  BY ChainFacts
<1>4. 2 * c <= 255 => Chain(c)[2] = 2 * c
  <2>1. Chain(c)[2] = Shift[Chain(c)[1]]
    <3>1. 1 \in 1 .. 8 /\ 1 + 1 = 2
      OBVIOUS
    <3> QED
      BY <1>3, <3>1, Zenon
  <2>2. 2 * c <= 255 => 1 * c \in Byte /\ 1 * c <= 255
                              /\ 2 * (1 * c) = 2 * c
    BY ByteFacts
  <2> QED
    BY <1>1, <1>2, <2>1, <2>2
<1>5. 4 * c <= 255 => Chain(c)[3] = 4 * c
  <2>1. Chain(c)[3] = Shift[Chain(c)[2]]
    <3>1. 2 \in 1 .. 8 /\ 2 + 1 = 3
      OBVIOUS
    <3> QED
      BY <1>3, <3>1, Zenon
  <2>2. 4 * c <= 255 => 2 * c \in Byte /\ 2 * c <= 255
                              /\ 2 * (2 * c) = 4 * c
    BY ByteFacts
  <2> QED
    BY <1>1, <1>4, <2>1, <2>2
<1>6. 8 * c <= 255 => Chain(c)[4] = 8 * c
  <2>1. Chain(c)[4] = Shift[Chain(c)[3]]
    <3>1. 3 \in 1 .. 8 /\ 3 + 1 = 4
      OBVIOUS
    <3> QED
      BY <1>3, <3>1, Zenon
  <2>2. 8 * c <= 255 => 4 * c \in Byte /\ 4 * c <= 255
                              /\ 2 * (4 * c) = 8 * c
    BY ByteFacts
  <2> QED
    BY <1>1, <1>5, <2>1, <2>2
<1>7. 16 * c <= 255 => Chain(c)[5] = 16 * c
  <2>1. Chain(c)[5] = Shift[Chain(c)[4]]
    <3>1. 4 \in 1 .. 8 /\ 4 + 1 = 5
      OBVIOUS
    <3> QED
      BY <1>3, <3>1, Zenon
  <2>2. 16 * c <= 255 => 8 * c \in Byte /\ 8 * c <= 255
                              /\ 2 * (8 * c) = 16 * c
    BY ByteFacts
  <2> QED
    BY <1>1, <1>6, <2>1, <2>2
<1>8. 32 * c <= 255 => Chain(c)[6] = 32 * c
  <2>1. Chain(c)[6] = Shift[Chain(c)[5]]
    <3>1. 5 \in 1 .. 8 /\ 5 + 1 = 6
      OBVIOUS
    <3> QED
      BY <1>3, <3>1, Zenon
  <2>2. 32 * c <= 255 => 16 * c \in Byte /\ 16 * c <= 255
                              /\ 2 * (16 * c) = 32 * c
    BY ByteFacts
  <2> QED
    BY <1>1, <1>7, <2>1, <2>2
<1>9. 64 * c <= 255 => Chain(c)[7] = 64 * c
  <2>1. Chain(c)[7] = Shift[Chain(c)[6]]
    <3>1. 6 \in 1 .. 8 /\ 6 + 1 = 7
      OBVIOUS
    <3> QED
      BY <1>3, <3>1, Zenon
  <2>2. 64 * c <= 255 => 32 * c \in Byte /\ 32 * c <= 255
                              /\ 2 * (32 * c) = 64 * c
    BY ByteFacts
  <2> QED
    BY <1>1, <1>8, <2>1, <2>2
<1>10. 128 * c <= 255 => Chain(c)[8] = 128 * c
  <2>1. Chain(c)[8] = Shift[Chain(c)[7]]
    <3>1. 7 \in 1 .. 8 /\ 7 + 1 = 8
      OBVIOUS
    <3> QED
      BY <1>3, <3>1, Zenon
  <2>2. 128 * c <= 255 => 64 * c \in Byte /\ 64 * c <= 255
                              /\ 2 * (64 * c) = 128 * c
    BY ByteFacts
  <2> QED
    BY <1>1, <1>9, <2>1, <2>2
<1> QED
  BY <1>4, <1>5, <1>6, <1>7, <1>8, <1>9, <1>10

\* Eight shifts are some and then the others.
LEMMA ChainSplits ==
    ASSUME NEW c \in Byte, NEW x \in Byte
    PROVE  /\ x = Chain(c)[2] => Chain(x)[8] = LongDivision[c]
           /\ x = Chain(c)[3] => Chain(x)[7] = LongDivision[c]
           /\ x = Chain(c)[4] => Chain(x)[6] = LongDivision[c]
           /\ x = Chain(c)[5] => Chain(x)[5] = LongDivision[c]
           /\ x = Chain(c)[6] => Chain(x)[4] = LongDivision[c]
           /\ x = Chain(c)[7] => Chain(x)[3] = LongDivision[c]
           /\ x = Chain(c)[8] => Chain(x)[2] = LongDivision[c]
<1>1. LongDivision[c] = Shift[Shift[Shift[Shift[Shift[Shift[Shift[Shift[c]]]]]]]]
  BY DEF LongDivision
<1> QED
  BY <1>1 DEF Chain

\* The two parts of a burst have no bit in common.
LEMMA BurstParts ==
    ASSUME NEW m \in Byte
    PROVE  /\ Xor(2 * (m \div 2), m % 2) = m
           /\ Xor(4 * (m \div 4), m % 4) = m
           /\ Xor(8 * (m \div 8), m % 8) = m
           /\ Xor(16 * (m \div 16), m % 16) = m
           /\ Xor(32 * (m \div 32), m % 32) = m
           /\ Xor(64 * (m \div 64), m % 64) = m
           /\ Xor(128 * (m \div 128), m % 128) = m
<1>1. /\ Bit(m, 1) \in {0, 1} /\ Bit(m, 2) \in {0, 1} /\ Bit(m, 4) \in {0, 1}
      /\ Bit(m, 8) \in {0, 1} /\ Bit(m, 16) \in {0, 1} /\ Bit(m, 32) \in {0, 1}
      /\ Bit(m, 64) \in {0, 1} /\ Bit(m, 128) \in {0, 1} /\ 0 \in {0, 1}
  BY BitFacts
<1>2. m = Bit(m, 1) + 2 * Bit(m, 2) + 4 * Bit(m, 4) + 8 * Bit(m, 8) + 16 * Bit(m, 16)
          + 32 * Bit(m, 32) + 64 * Bit(m, 64) + 128 * Bit(m, 128)
  BY BitFacts
<1>3. Xor(2 * (m \div 2), m % 2) = m
  <2>1. PICK x, r : x = 2 * (m \div 2) /\ r = m % 2
    OBVIOUS
  <2>2. x = 0 + 2 * Bit(m, 2) + 4 * Bit(m, 4) + 8 * Bit(m, 8) + 16 * Bit(m, 16)
            + 32 * Bit(m, 32) + 64 * Bit(m, 64) + 128 * Bit(m, 128)
    BY <1>1, <1>2, <2>1
  <2>3. r = Bit(m, 1) + 2 * 0 + 4 * 0 + 8 * 0 + 16 * 0 + 32 * 0 + 64 * 0 + 128 * 0
    BY <1>1, <1>2, <2>1
  <2>4. /\ x \in Byte
        /\ Bit(x, 1) = 0 /\ Bit(x, 2) = Bit(m, 2) /\ Bit(x, 4) = Bit(m, 4)
        /\ Bit(x, 8) = Bit(m, 8) /\ Bit(x, 16) = Bit(m, 16) /\ Bit(x, 32) = Bit(m, 32)
        /\ Bit(x, 64) = Bit(m, 64) /\ Bit(x, 128) = Bit(m, 128)
    BY <1>1, <2>2, SumBits
  <2>5. /\ r \in Byte
        /\ Bit(r, 1) = Bit(m, 1) /\ Bit(r, 2) = 0 /\ Bit(r, 4) = 0
        /\ Bit(r, 8) = 0 /\ Bit(r, 16) = 0 /\ Bit(r, 32) = 0
        /\ Bit(r, 64) = 0 /\ Bit(r, 128) = 0
    BY <1>1, <2>3, SumBits
  <2>6. \A w \in {1, 2, 4, 8, 16, 32, 64, 128} : Bit(m, w) = (Bit(x, w) + Bit(r, w)) % 2
    BY <1>1, <2>4, <2>5
  <2>7. Xor(x, r) = m
    BY <2>4, <2>5, <2>6, XorIs
  <2> QED
    BY <2>1, <2>7
<1>4. Xor(4 * (m \div 4), m % 4) = m
  <2>1. PICK x, r : x = 4 * (m \div 4) /\ r = m % 4
    OBVIOUS
  <2>2. x = 0 + 2 * 0 + 4 * Bit(m, 4) + 8 * Bit(m, 8) + 16 * Bit(m, 16)
            + 32 * Bit(m, 32) + 64 * Bit(m, 64) + 128 * Bit(m, 128)
    BY <1>1, <1>2, <2>1
  <2>3. r = Bit(m, 1) + 2 * Bit(m, 2) + 4 * 0 + 8 * 0 + 16 * 0 + 32 * 0 + 64 * 0 + 128 * 0
    BY <1>1, <1>2, <2>1
  <2>4. /\ x \in Byte
        /\ Bit(x, 1) = 0 /\ Bit(x, 2) = 0 /\ Bit(x, 4) = Bit(m, 4)
        /\ Bit(x, 8) = Bit(m, 8) /\ Bit(x, 16) = Bit(m, 16) /\ Bit(x, 32) = Bit(m, 32)
        /\ Bit(x, 64) = Bit(m, 64) /\ Bit(x, 128) = Bit(m, 128)
    BY <1>1, <2>2, SumBits
  <2>5. /\ r \in Byte
        /\ Bit(r, 1) = Bit(m, 1) /\ Bit(r, 2) = Bit(m, 2) /\ Bit(r, 4) = 0
        /\ Bit(r, 8) = 0 /\ Bit(r, 16) = 0 /\ Bit(r, 32) = 0
        /\ Bit(r, 64) = 0 /\ Bit(r, 128) = 0
    BY <1>1, <2>3, SumBits
  <2>6. \A w \in {1, 2, 4, 8, 16, 32, 64, 128} : Bit(m, w) = (Bit(x, w) + Bit(r, w)) % 2
    BY <1>1, <2>4, <2>5
  <2>7. Xor(x, r) = m
    BY <2>4, <2>5, <2>6, XorIs
  <2> QED
    BY <2>1, <2>7
<1>5. Xor(8 * (m \div 8), m % 8) = m
  <2>1. PICK x, r : x = 8 * (m \div 8) /\ r = m % 8
    OBVIOUS
  <2>2. x = 0 + 2 * 0 + 4 * 0 + 8 * Bit(m, 8) + 16 * Bit(m, 16)
            + 32 * Bit(m, 32) + 64 * Bit(m, 64) + 128 * Bit(m, 128)
    BY <1>1, <1>2, <2>1
  <2>3. r = Bit(m, 1) + 2 * Bit(m, 2) + 4 * Bit(m, 4) + 8 * 0 + 16 * 0
            + 32 * 0 + 64 * 0 + 128 * 0
    BY <1>1, <1>2, <2>1
  <2>4. /\ x \in Byte
        /\ Bit(x, 1) = 0 /\ Bit(x, 2) = 0 /\ Bit(x, 4) = 0
        /\ Bit(x, 8) = Bit(m, 8) /\ Bit(x, 16) = Bit(m, 16) /\ Bit(x, 32) = Bit(m, 32)
        /\ Bit(x, 64) = Bit(m, 64) /\ Bit(x, 128) = Bit(m, 128)
    BY <1>1, <2>2, SumBits
  <2>5. /\ r \in Byte
        /\ Bit(r, 1) = Bit(m, 1) /\ Bit(r, 2) = Bit(m, 2) /\ Bit(r, 4) = Bit(m, 4)
        /\ Bit(r, 8) = 0 /\ Bit(r, 16) = 0 /\ Bit(r, 32) = 0
        /\ Bit(r, 64) = 0 /\ Bit(r, 128) = 0
    BY <1>1, <2>3, SumBits
  <2>6. \A w \in {1, 2, 4, 8, 16, 32, 64, 128} : Bit(m, w) = (Bit(x, w) + Bit(r, w)) % 2
    BY <1>1, <2>4, <2>5
  <2>7. Xor(x, r) = m
    BY <2>4, <2>5, <2>6, XorIs
  <2> QED
    BY <2>1, <2>7
<1>6. Xor(16 * (m \div 16), m % 16) = m
  <2>1. PICK x, r : x = 16 * (m \div 16) /\ r = m % 16
    OBVIOUS
  <2>2. x = 0 + 2 * 0 + 4 * 0 + 8 * 0 + 16 * Bit(m, 16) + 32 * Bit(m, 32)
            + 64 * Bit(m, 64) + 128 * Bit(m, 128)
    BY <1>1, <1>2, <2>1
  <2>3. r = Bit(m, 1) + 2 * Bit(m, 2) + 4 * Bit(m, 4) + 8 * Bit(m, 8)
            + 16 * 0 + 32 * 0 + 64 * 0 + 128 * 0
    BY <1>1, <1>2, <2>1
  <2>4. /\ x \in Byte
        /\ Bit(x, 1) = 0 /\ Bit(x, 2) = 0 /\ Bit(x, 4) = 0
        /\ Bit(x, 8) = 0 /\ Bit(x, 16) = Bit(m, 16) /\ Bit(x, 32) = Bit(m, 32)
        /\ Bit(x, 64) = Bit(m, 64) /\ Bit(x, 128) = Bit(m, 128)
    BY <1>1, <2>2, SumBits
  <2>5. /\ r \in Byte
        /\ Bit(r, 1) = Bit(m, 1) /\ Bit(r, 2) = Bit(m, 2) /\ Bit(r, 4) = Bit(m, 4)
        /\ Bit(r, 8) = Bit(m, 8) /\ Bit(r, 16) = 0 /\ Bit(r, 32) = 0
        /\ Bit(r, 64) = 0 /\ Bit(r, 128) = 0
    BY <1>1, <2>3, SumBits
  <2>6. \A w \in {1, 2, 4, 8, 16, 32, 64, 128} : Bit(m, w) = (Bit(x, w) + Bit(r, w)) % 2
    BY <1>1, <2>4, <2>5
  <2>7. Xor(x, r) = m
    BY <2>4, <2>5, <2>6, XorIs
  <2> QED
    BY <2>1, <2>7
<1>7. Xor(32 * (m \div 32), m % 32) = m
  <2>1. PICK x, r : x = 32 * (m \div 32) /\ r = m % 32
    OBVIOUS
  <2>2. x = 0 + 2 * 0 + 4 * 0 + 8 * 0 + 16 * 0 + 32 * Bit(m, 32)
            + 64 * Bit(m, 64) + 128 * Bit(m, 128)
    BY <1>1, <1>2, <2>1
  <2>3. r = Bit(m, 1) + 2 * Bit(m, 2) + 4 * Bit(m, 4) + 8 * Bit(m, 8)
            + 16 * Bit(m, 16) + 32 * 0 + 64 * 0 + 128 * 0
    BY <1>1, <1>2, <2>1
  <2>4. /\ x \in Byte
        /\ Bit(x, 1) = 0 /\ Bit(x, 2) = 0 /\ Bit(x, 4) = 0
        /\ Bit(x, 8) = 0 /\ Bit(x, 16) = 0 /\ Bit(x, 32) = Bit(m, 32)
        /\ Bit(x, 64) = Bit(m, 64) /\ Bit(x, 128) = Bit(m, 128)
    BY <1>1, <2>2, SumBits
  <2>5. /\ r \in Byte
        /\ Bit(r, 1) = Bit(m, 1) /\ Bit(r, 2) = Bit(m, 2) /\ Bit(r, 4) = Bit(m, 4)
        /\ Bit(r, 8) = Bit(m, 8) /\ Bit(r, 16) = Bit(m, 16) /\ Bit(r, 32) = 0
        /\ Bit(r, 64) = 0 /\ Bit(r, 128) = 0
    BY <1>1, <2>3, SumBits
  <2>6. \A w \in {1, 2, 4, 8, 16, 32, 64, 128} : Bit(m, w) = (Bit(x, w) + Bit(r, w)) % 2
    BY <1>1, <2>4, <2>5
  <2>7. Xor(x, r) = m
    BY <2>4, <2>5, <2>6, XorIs
  <2> QED
    BY <2>1, <2>7
<1>8. Xor(64 * (m \div 64), m % 64) = m
  <2>1. PICK x, r : x = 64 * (m \div 64) /\ r = m % 64
    OBVIOUS
  <2>2. x = 0 + 2 * 0 + 4 * 0 + 8 * 0 + 16 * 0 + 32 * 0 + 64 * Bit(m, 64)
            + 128 * Bit(m, 128)
    BY <1>1, <1>2, <2>1
  <2>3. r = Bit(m, 1) + 2 * Bit(m, 2) + 4 * Bit(m, 4) + 8 * Bit(m, 8)
            + 16 * Bit(m, 16) + 32 * Bit(m, 32) + 64 * 0 + 128 * 0
    BY <1>1, <1>2, <2>1
  <2>4. /\ x \in Byte
        /\ Bit(x, 1) = 0 /\ Bit(x, 2) = 0 /\ Bit(x, 4) = 0
        /\ Bit(x, 8) = 0 /\ Bit(x, 16) = 0 /\ Bit(x, 32) = 0
        /\ Bit(x, 64) = Bit(m, 64) /\ Bit(x, 128) = Bit(m, 128)
    BY <1>1, <2>2, SumBits
  <2>5. /\ r \in Byte
        /\ Bit(r, 1) = Bit(m, 1) /\ Bit(r, 2) = Bit(m, 2) /\ Bit(r, 4) = Bit(m, 4)
        /\ Bit(r, 8) = Bit(m, 8) /\ Bit(r, 16) = Bit(m, 16) /\ Bit(r, 32) = Bit(m, 32)
        /\ Bit(r, 64) = 0 /\ Bit(r, 128) = 0
    BY <1>1, <2>3, SumBits
  <2>6. \A w \in {1, 2, 4, 8, 16, 32, 64, 128} : Bit(m, w) = (Bit(x, w) + Bit(r, w)) % 2
    BY <1>1, <2>4, <2>5
  <2>7. Xor(x, r) = m
    BY <2>4, <2>5, <2>6, XorIs
  <2> QED
    BY <2>1, <2>7
<1>9. Xor(128 * (m \div 128), m % 128) = m
  <2>1. PICK x, r : x = 128 * (m \div 128) /\ r = m % 128
    OBVIOUS
  <2>2. x = 0 + 2 * 0 + 4 * 0 + 8 * 0 + 16 * 0 + 32 * 0 + 64 * 0 + 128 * Bit(m, 128)
    BY <1>1, <1>2, <2>1
  <2>3. r = Bit(m, 1) + 2 * Bit(m, 2) + 4 * Bit(m, 4) + 8 * Bit(m, 8)
            + 16 * Bit(m, 16) + 32 * Bit(m, 32) + 64 * Bit(m, 64) + 128 * 0
    BY <1>1, <1>2, <2>1
  <2>4. /\ x \in Byte
        /\ Bit(x, 1) = 0 /\ Bit(x, 2) = 0 /\ Bit(x, 4) = 0
        /\ Bit(x, 8) = 0 /\ Bit(x, 16) = 0 /\ Bit(x, 32) = 0
        /\ Bit(x, 64) = 0 /\ Bit(x, 128) = Bit(m, 128)
    BY <1>1, <2>2, SumBits
  <2>5. /\ r \in Byte
        /\ Bit(r, 1) = Bit(m, 1) /\ Bit(r, 2) = Bit(m, 2) /\ Bit(r, 4) = Bit(m, 4)
        /\ Bit(r, 8) = Bit(m, 8) /\ Bit(r, 16) = Bit(m, 16) /\ Bit(r, 32) = Bit(m, 32)
        /\ Bit(r, 64) = Bit(m, 64) /\ Bit(r, 128) = 0
    BY <1>1, <2>3, SumBits
  <2>6. \A w \in {1, 2, 4, 8, 16, 32, 64, 128} : Bit(m, w) = (Bit(x, w) + Bit(r, w)) % 2
    BY <1>1, <2>4, <2>5
  <2>7. Xor(x, r) = m
    BY <2>4, <2>5, <2>6, XorIs
  <2> QED
    BY <2>1, <2>7
<1> QED
  BY <1>3, <1>4, <1>5, <1>6, <1>7, <1>8, <1>9

\* The parts of a burst that begins s bits before the end of a byte.
IsSplit(s, mask, high, low) ==
    high = mask \div 2^s /\ low = (mask * 2^(8 - s)) % 256

\* A burst that touches two bytes is one byte, shifted.
LEMMA BurstLeaves ==
    ASSUME NEW s \in 1 .. 7, NEW mask \in 1 .. 255, NEW high, NEW low,
           IsSplit(s, mask, high, low)
    PROVE  /\ high \in Byte /\ low \in Byte
           /\ Xor(LongDivision[high], low) # 0
<1>1. mask \in Byte /\ mask \in Nat /\ mask <= 255 /\ mask # 0
  BY ByteFacts
<1>2. CASE s = 1
  <2>1. high = mask \div 2 /\ low = (mask * 128) % 256
    <3>1. 2^s = 2 /\ 2^(8 - s) = 128
      BY <1>2
    <3> QED
      BY <3>1 DEF IsSplit
  <2>2. PICK x \in Byte, r \in Byte : x = 2 * (mask \div 2) /\ r = mask % 2
    BY <1>1, ByteFacts
  <2>3. /\ high \in Byte /\ low \in Byte /\ 2 * high <= 255 /\ x = 2 * high
        /\ 128 * r <= 255 /\ low = 128 * r
    BY <1>1, <2>1, <2>2, ByteFacts
  <2>4. Xor(x, r) = mask
    BY <1>1, <2>2, BurstParts
  <2>5. Chain(x)[8] = LongDivision[high]
    BY <2>2, <2>3, Multiples, ChainSplits
  <2>6. Chain(r)[8] = low
    BY <2>2, <2>3, Multiples
  <2>7. 8 \in 1 .. 9
    OBVIOUS
  <2>8. Chain(Xor(x, r))[8] = Xor(Chain(x)[8], Chain(r)[8])
    BY <2>2, <2>7, ChainLinear
  <2>9. Chain(mask)[8] # 0
    BY <1>1, <2>7, ChainFacts
  <2> QED
    BY <2>3, <2>4, <2>5, <2>6, <2>8, <2>9
<1>3. CASE s = 2
  <2>1. high = mask \div 4 /\ low = (mask * 64) % 256
    <3>1. 2^s = 4 /\ 2^(8 - s) = 64
      BY <1>3
    <3> QED
      BY <3>1 DEF IsSplit
  <2>2. PICK x \in Byte, r \in Byte : x = 4 * (mask \div 4) /\ r = mask % 4
    BY <1>1, ByteFacts
  <2>3. /\ high \in Byte /\ low \in Byte /\ 4 * high <= 255 /\ x = 4 * high
        /\ 64 * r <= 255 /\ low = 64 * r
    BY <1>1, <2>1, <2>2, ByteFacts
  <2>4. Xor(x, r) = mask
    BY <1>1, <2>2, BurstParts
  <2>5. Chain(x)[7] = LongDivision[high]
    BY <2>2, <2>3, Multiples, ChainSplits
  <2>6. Chain(r)[7] = low
    BY <2>2, <2>3, Multiples
  <2>7. 7 \in 1 .. 9
    OBVIOUS
  <2>8. Chain(Xor(x, r))[7] = Xor(Chain(x)[7], Chain(r)[7])
    BY <2>2, <2>7, ChainLinear
  <2>9. Chain(mask)[7] # 0
    BY <1>1, <2>7, ChainFacts
  <2> QED
    BY <2>3, <2>4, <2>5, <2>6, <2>8, <2>9
<1>4. CASE s = 3
  <2>1. high = mask \div 8 /\ low = (mask * 32) % 256
    <3>1. 2^s = 8 /\ 2^(8 - s) = 32
      BY <1>4
    <3> QED
      BY <3>1 DEF IsSplit
  <2>2. PICK x \in Byte, r \in Byte : x = 8 * (mask \div 8) /\ r = mask % 8
    BY <1>1, ByteFacts
  <2>3. /\ high \in Byte /\ low \in Byte /\ 8 * high <= 255 /\ x = 8 * high
        /\ 32 * r <= 255 /\ low = 32 * r
    BY <1>1, <2>1, <2>2, ByteFacts
  <2>4. Xor(x, r) = mask
    BY <1>1, <2>2, BurstParts
  <2>5. Chain(x)[6] = LongDivision[high]
    BY <2>2, <2>3, Multiples, ChainSplits
  <2>6. Chain(r)[6] = low
    BY <2>2, <2>3, Multiples
  <2>7. 6 \in 1 .. 9
    OBVIOUS
  <2>8. Chain(Xor(x, r))[6] = Xor(Chain(x)[6], Chain(r)[6])
    BY <2>2, <2>7, ChainLinear
  <2>9. Chain(mask)[6] # 0
    BY <1>1, <2>7, ChainFacts
  <2> QED
    BY <2>3, <2>4, <2>5, <2>6, <2>8, <2>9
<1>5. CASE s = 4
  <2>1. high = mask \div 16 /\ low = (mask * 16) % 256
    <3>1. 2^s = 16 /\ 2^(8 - s) = 16
      BY <1>5
    <3> QED
      BY <3>1 DEF IsSplit
  <2>2. PICK x \in Byte, r \in Byte : x = 16 * (mask \div 16) /\ r = mask % 16
    BY <1>1, ByteFacts
  <2>3. /\ high \in Byte /\ low \in Byte /\ 16 * high <= 255 /\ x = 16 * high
        /\ 16 * r <= 255 /\ low = 16 * r
    BY <1>1, <2>1, <2>2, ByteFacts
  <2>4. Xor(x, r) = mask
    BY <1>1, <2>2, BurstParts
  <2>5. Chain(x)[5] = LongDivision[high]
    BY <2>2, <2>3, Multiples, ChainSplits
  <2>6. Chain(r)[5] = low
    BY <2>2, <2>3, Multiples
  <2>7. 5 \in 1 .. 9
    OBVIOUS
  <2>8. Chain(Xor(x, r))[5] = Xor(Chain(x)[5], Chain(r)[5])
    BY <2>2, <2>7, ChainLinear
  <2>9. Chain(mask)[5] # 0
    BY <1>1, <2>7, ChainFacts
  <2> QED
    BY <2>3, <2>4, <2>5, <2>6, <2>8, <2>9
<1>6. CASE s = 5
  <2>1. high = mask \div 32 /\ low = (mask * 8) % 256
    <3>1. 2^s = 32 /\ 2^(8 - s) = 8
      BY <1>6
    <3> QED
      BY <3>1 DEF IsSplit
  <2>2. PICK x \in Byte, r \in Byte : x = 32 * (mask \div 32) /\ r = mask % 32
    BY <1>1, ByteFacts
  <2>3. /\ high \in Byte /\ low \in Byte /\ 32 * high <= 255 /\ x = 32 * high
        /\ 8 * r <= 255 /\ low = 8 * r
    BY <1>1, <2>1, <2>2, ByteFacts
  <2>4. Xor(x, r) = mask
    BY <1>1, <2>2, BurstParts
  <2>5. Chain(x)[4] = LongDivision[high]
    BY <2>2, <2>3, Multiples, ChainSplits
  <2>6. Chain(r)[4] = low
    BY <2>2, <2>3, Multiples
  <2>7. 4 \in 1 .. 9
    OBVIOUS
  <2>8. Chain(Xor(x, r))[4] = Xor(Chain(x)[4], Chain(r)[4])
    BY <2>2, <2>7, ChainLinear
  <2>9. Chain(mask)[4] # 0
    BY <1>1, <2>7, ChainFacts
  <2> QED
    BY <2>3, <2>4, <2>5, <2>6, <2>8, <2>9
<1>7. CASE s = 6
  <2>1. high = mask \div 64 /\ low = (mask * 4) % 256
    <3>1. 2^s = 64 /\ 2^(8 - s) = 4
      BY <1>7
    <3> QED
      BY <3>1 DEF IsSplit
  <2>2. PICK x \in Byte, r \in Byte : x = 64 * (mask \div 64) /\ r = mask % 64
    BY <1>1, ByteFacts
  <2>3. /\ high \in Byte /\ low \in Byte /\ 64 * high <= 255 /\ x = 64 * high
        /\ 4 * r <= 255 /\ low = 4 * r
    BY <1>1, <2>1, <2>2, ByteFacts
  <2>4. Xor(x, r) = mask
    BY <1>1, <2>2, BurstParts
  <2>5. Chain(x)[3] = LongDivision[high]
    BY <2>2, <2>3, Multiples, ChainSplits
  <2>6. Chain(r)[3] = low
    BY <2>2, <2>3, Multiples
  <2>7. 3 \in 1 .. 9
    OBVIOUS
  <2>8. Chain(Xor(x, r))[3] = Xor(Chain(x)[3], Chain(r)[3])
    BY <2>2, <2>7, ChainLinear
  <2>9. Chain(mask)[3] # 0
    BY <1>1, <2>7, ChainFacts
  <2> QED
    BY <2>3, <2>4, <2>5, <2>6, <2>8, <2>9
<1>8. CASE s = 7
  <2>1. high = mask \div 128 /\ low = (mask * 2) % 256
    <3>1. 2^s = 128 /\ 2^(8 - s) = 2
      BY <1>8
    <3> QED
      BY <3>1 DEF IsSplit
  <2>2. PICK x \in Byte, r \in Byte : x = 128 * (mask \div 128) /\ r = mask % 128
    BY <1>1, ByteFacts
  <2>3. /\ high \in Byte /\ low \in Byte /\ 128 * high <= 255 /\ x = 128 * high
        /\ 2 * r <= 255 /\ low = 2 * r
    BY <1>1, <2>1, <2>2, ByteFacts
  <2>4. Xor(x, r) = mask
    BY <1>1, <2>2, BurstParts
  <2>5. Chain(x)[2] = LongDivision[high]
    BY <2>2, <2>3, Multiples, ChainSplits
  <2>6. Chain(r)[2] = low
    BY <2>2, <2>3, Multiples
  <2>7. 2 \in 1 .. 9
    OBVIOUS
  <2>8. Chain(Xor(x, r))[2] = Xor(Chain(x)[2], Chain(r)[2])
    BY <2>2, <2>7, ChainLinear
  <2>9. Chain(mask)[2] # 0
    BY <1>1, <2>7, ChainFacts
  <2> QED
    BY <2>3, <2>4, <2>5, <2>6, <2>8, <2>9
<1> QED
  BY <1>2, <1>3, <1>4, <1>5, <1>6, <1>7, <1>8

\* The remainders that one bit leaves, shift after shift.
Orbit == <<
      1,   2,   4,   8,  16,  32,  64, 128,   7,  14,  28,  56, 112, 224, 199,
    137,  21,  42,  84, 168,  87, 174,  91, 182, 107, 214, 171,  81, 162,  67,
    134,  11,  22,  44,  88, 176, 103, 206, 155,  49,  98, 196, 143,  25,  50,
    100, 200, 151,  41,  82, 164,  79, 158,  59, 118, 236, 223, 185, 117, 234,
    211, 161,  69, 138,  19,  38,  76, 152,  55, 110, 220, 191, 121, 242, 227,
    193, 133,  13,  26,  52, 104, 208, 167,  73, 146,  35,  70, 140,  31,  62,
    124, 248, 247, 233, 213, 173,  93, 186, 115, 230, 203, 145,  37,  74, 148,
     47,  94, 188, 127, 254, 251, 241, 229, 205, 157,  61, 122, 244, 239, 217 >>

LEMMA OrbitValues ==
    /\ \A i \in 1 .. 120 : Orbit[i] \in 0 .. 255
    /\ \A i \in 1 .. 119 :
           Orbit[i + 1]
               = IF Orbit[i] >= 128 THEN Flip7(2 * Orbit[i] - 256) ELSE 2 * Orbit[i]
    /\ \A i \in 9 .. 120 : Orbit[i] \notin {1, 2, 4, 8, 16, 32, 64, 128}
<1>1. \A i \in 1 .. 120 : Orbit[i] \in 0 .. 255
  BY DEF Orbit
<1>2. \A i \in 1 .. 119 :
          Orbit[i + 1] = IF Orbit[i] >= 128 THEN Flip7(2 * Orbit[i] - 256) ELSE 2 * Orbit[i]
  BY DEF Orbit, Flip7
<1>3. \A i \in 9 .. 120 : Orbit[i] \notin {1, 2, 4, 8, 16, 32, 64, 128}
  BY DEF Orbit
<1> QED
  BY <1>1, <1>2, <1>3

LEMMA OrbitShifts ==
    /\ \A i \in 1 .. 120 : Orbit[i] \in Byte
    /\ \A i \in 1 .. 119 : Orbit[i + 1] = Shift[Orbit[i]]
<1>1. \A i \in 1 .. 120 : Orbit[i] \in Byte
  BY OrbitValues DEF Byte
<1>2. ASSUME NEW i \in 1 .. 119
      PROVE  Orbit[i + 1] = Shift[Orbit[i]]
  <2>1. i \in 1 .. 120
    OBVIOUS
  <2>2. Orbit[i] \in Byte
    BY <1>1, <2>1
  <2>3. Shift[Orbit[i]]
            = IF Orbit[i] >= 128 THEN Flip7(2 * Orbit[i] - 256) ELSE 2 * Orbit[i]
    BY <2>2, FlipFacts
  <2> QED
    BY <2>3, OrbitValues
<1> QED
  BY <1>1, <1>2

LEMMA OrbitDivides ==
    ASSUME NEW i \in 1 .. 112
    PROVE  LongDivision[Orbit[i]] = Orbit[i + 8]
<1>1. /\ i \in 1 .. 119 /\ i + 1 \in 1 .. 119 /\ i + 2 \in 1 .. 119 /\ i + 3 \in 1 .. 119
      /\ i + 4 \in 1 .. 119 /\ i + 5 \in 1 .. 119 /\ i + 6 \in 1 .. 119
      /\ i + 7 \in 1 .. 119 /\ i \in 1 .. 120
      /\ (i + 1) + 1 = i + 2 /\ (i + 2) + 1 = i + 3 /\ (i + 3) + 1 = i + 4
      /\ (i + 4) + 1 = i + 5 /\ (i + 5) + 1 = i + 6 /\ (i + 6) + 1 = i + 7
      /\ (i + 7) + 1 = i + 8
  OBVIOUS
<1>2. /\ Orbit[i + 1] = Shift[Orbit[i]] /\ Orbit[i + 2] = Shift[Orbit[i + 1]]
      /\ Orbit[i + 3] = Shift[Orbit[i + 2]] /\ Orbit[i + 4] = Shift[Orbit[i + 3]]
      /\ Orbit[i + 5] = Shift[Orbit[i + 4]] /\ Orbit[i + 6] = Shift[Orbit[i + 5]]
      /\ Orbit[i + 7] = Shift[Orbit[i + 6]] /\ Orbit[i + 8] = Shift[Orbit[i + 7]]
  BY <1>1, OrbitShifts
<1>3. Orbit[i] \in Byte
  BY <1>1, OrbitShifts
<1>4. LongDivision[Orbit[i]]
          = Shift[Shift[Shift[Shift[Shift[Shift[Shift[Shift[Orbit[i]]]]]]]]]
  BY <1>3 DEF LongDivision
<1> QED
  BY <1>2, <1>4, Zenon

\* Where one bit starts.
LEMMA OrbitStarts ==
    ASSUME NEW j \in 0 .. 7
    PROVE  /\ 2^j \in {1, 2, 4, 8, 16, 32, 64, 128} /\ 2^j \in Byte
           /\ Orbit[j + 1] = 2^j
<1>1. /\ Orbit[1] = 1 /\ Orbit[2] = 2 /\ Orbit[3] = 4 /\ Orbit[4] = 8 /\ Orbit[5] = 16
      /\ Orbit[6] = 32 /\ Orbit[7] = 64 /\ Orbit[8] = 128
  BY DEF Orbit
<1>2. \A m \in {1, 2, 4, 8, 16, 32, 64, 128} : m \in Byte
  BY DEF Byte
<1>3. CASE j = 0
  <2>1. 2^j = 1 /\ j + 1 = 1
    BY <1>3
  <2> QED
    BY <1>1, <1>2, <2>1
<1>4. CASE j = 1
  <2>1. 2^j = 2 /\ j + 1 = 2
    BY <1>4
  <2> QED
    BY <1>1, <1>2, <2>1
<1>5. CASE j = 2
  <2>1. 2^j = 4 /\ j + 1 = 3
    BY <1>5
  <2> QED
    BY <1>1, <1>2, <2>1
<1>6. CASE j = 3
  <2>1. 2^j = 8 /\ j + 1 = 4
    BY <1>6
  <2> QED
    BY <1>1, <1>2, <2>1
<1>7. CASE j = 4
  <2>1. 2^j = 16 /\ j + 1 = 5
    BY <1>7
  <2> QED
    BY <1>1, <1>2, <2>1
<1>8. CASE j = 5
  <2>1. 2^j = 32 /\ j + 1 = 6
    BY <1>8
  <2> QED
    BY <1>1, <1>2, <2>1
<1>9. CASE j = 6
  <2>1. 2^j = 64 /\ j + 1 = 7
    BY <1>9
  <2> QED
    BY <1>1, <1>2, <2>1
<1>10. CASE j = 7
  <2>1. 2^j = 128 /\ j + 1 = 8
    BY <1>10
  <2> QED
    BY <1>1, <1>2, <2>1
<1> QED
  BY <1>3, <1>4, <1>5, <1>6, <1>7, <1>8, <1>9, <1>10

\* Two bits, at most 14 bytes apart.
LEMMA BitsDetected ==
    ASSUME NEW e, NEW a \in Nat, NEW b \in Nat, IsDamage(e, a, b), a < b, b <= a + 14,
           NEW j \in 0 .. 7, e[a] = 2^j, NEW k \in 0 .. 7, e[b] = 2^k,
           \A n \in a + 1 .. b - 1 : e[n] = 0
    PROVE  crc_check(e) # 0
<1>1. PICK r : /\ IsRunTo(r, e, b) /\ r[a] = LongDivision[e[a]]
               /\ crc_check(e) = 0 <=> r[b] = 0
  BY DamageRun
<1>2. PICK d \in 1 .. 14 : b = a + d
  <2>1. b - a \in 1 .. 14 /\ b = a + (b - a)
    OBVIOUS
  <2> QED
    BY <2>1
<1>3. a \in 1 .. b
  BY DEF IsDamage
<1> DEFINE S == {m \in 0 .. d - 1 : r[a + m] = Orbit[(j + 9) + 8 * m]}
<1>4. 0 \in S
  <2>1. j + 1 \in 1 .. 112 /\ (j + 1) + 8 = j + 9 /\ (j + 9) + 8 * 0 = j + 9
        /\ a + 0 = a /\ 0 \in 0 .. d - 1
    OBVIOUS
  <2>2. r[a] = Orbit[j + 9]
    <3>1. e[a] = Orbit[j + 1]
      BY OrbitStarts
    <3>2. LongDivision[Orbit[j + 1]] = Orbit[(j + 1) + 8]
      BY <2>1, OrbitDivides
    <3> QED
      BY <1>1, <2>1, <3>1, <3>2
  <2> QED
    BY <2>1, <2>2
<1>5. ASSUME NEW m \in 1 .. d - 1, m - 1 \in S
      PROVE  m \in S
  <2>1. PICK i \in 1 .. 112 : i = (j + 9) + 8 * (m - 1) /\ i + 8 = (j + 9) + 8 * m
    <3>1. (j + 9) + 8 * (m - 1) \in 1 .. 112
          /\ ((j + 9) + 8 * (m - 1)) + 8 = (j + 9) + 8 * m
      OBVIOUS
    <3> QED
      BY <3>1
  <2>2. PICK n \in 1 .. b : n = a + m /\ n - 1 = a + (m - 1) /\ n \in a + 1 .. b - 1
    <3>1. a + m \in 1 .. b /\ (a + m) - 1 = a + (m - 1) /\ a + m \in a + 1 .. b - 1
      BY <1>2
    <3> QED
      BY <3>1
  <2>3. r[n - 1] = Orbit[i]
    BY <1>5, <2>1, <2>2
  <2>4. r[n] = LongDivision[Xor(r[n - 1], e[n])] /\ e[n] = 0
    BY <1>1, <2>2 DEF IsRunTo
  <2>5. Orbit[i] \in Byte
    <3>1. i \in 1 .. 120
      OBVIOUS
    <3> QED
      BY <3>1, OrbitShifts
  <2>6. Xor(Orbit[i], 0) = Orbit[i]
    BY <2>5, XorFacts
  <2>7. r[n] = Orbit[i + 8]
    BY <2>3, <2>4, <2>6, OrbitDivides
  <2>8. m \in 0 .. d - 1
    OBVIOUS
  <2> QED
    BY <2>1, <2>2, <2>7, <2>8
<1>6. d - 1 \in S
  <2>1. d - 1 \in Nat /\ d - 1 \in 0 .. d - 1
    OBVIOUS
  <2> HIDE DEF S
  <2>2. \A m \in 0 .. d - 1 : m \in S
    BY <1>4, <1>5, <2>1, UpTo
  <2> QED
    BY <2>1, <2>2
<1>7. PICK i \in 9 .. 120 : i = (j + 9) + 8 * (d - 1)
  <2>1. (j + 9) + 8 * (d - 1) \in 9 .. 120
    OBVIOUS
  <2> QED
    BY <2>1
<1>8. r[b - 1] = Orbit[i]
  <2>1. a + (d - 1) = b - 1
    BY <1>2
  <2> QED
    BY <1>6, <1>7, <2>1
<1>9. Orbit[i] \in Byte /\ Orbit[i] \notin {1, 2, 4, 8, 16, 32, 64, 128}
  <2>1. i \in 1 .. 120
    OBVIOUS
  <2> QED
    BY <2>1, OrbitShifts, OrbitValues
<1>10. e[b] \in Byte /\ Orbit[i] # e[b]
  BY <1>9, OrbitStarts
<1>11. Xor(Orbit[i], e[b]) \in Byte /\ Xor(Orbit[i], e[b]) # 0
  BY <1>9, <1>10, XorFacts, XorZero
<1>12. r[b] = LongDivision[Xor(r[b - 1], e[b])]
  <2>1. b \in 1 .. b
    BY <1>2
  <2> QED
    BY <1>1, <2>1 DEF IsRunTo
<1> QED
  BY <1>1, <1>8, <1>11, <1>12, LongFacts

-----------------------------------------------------------------------------
(* A damaged message *)

\* The check fails on a message that passed before and was then damaged by e, where it
\* fails on e.
LEMMA DamageSeen ==
    ASSUME NEW f \in Seq(Byte), NEW g \in Seq(Byte), NEW e \in Seq(Byte),
           Len(g) = Len(f), Len(e) = Len(f),
           \A n \in 1 .. Len(f) : g[n] = Xor(f[n], e[n]),
           crc_check(f) = 0, crc_check(e) # 0
    PROVE  crc_check(g) # 0
<1>1. ASSUME NEW n \in 1 .. Len(f)
      PROVE  e[n] = Xor(f[n], g[n])
  <2>1. f[n] \in Byte /\ e[n] \in Byte /\ g[n] = Xor(f[n], e[n])
    BY ElementOfSeq
  <2>2. Xor(f[n], Xor(f[n], e[n])) = Xor(Xor(f[n], f[n]), e[n])
    BY <2>1, XorAssociative
  <2>3. Xor(f[n], f[n]) = 0 /\ Xor(e[n], 0) = e[n] /\ Xor(0, e[n]) = Xor(e[n], 0)
    BY <2>1, XorFacts, ByteFacts
  <2> QED
    BY <2>1, <2>2, <2>3
<1>2. IsDifference(e, f, g)
  BY <1>1 DEF IsDifference
<1>3. crc_check(e) = Xor(crc_check(f), crc_check(g))
  BY <1>2, CrcLinear
<1>4. 0 \in Byte
  BY DEF Byte
<1>5. Xor(0, 0) = 0
  BY <1>4, XorFacts
<1> QED
  BY <1>3, <1>5

\* The damage of two bytes, or of one.
Damage(a, x, b, y, L) == [n \in 1 .. L |-> IF n = a THEN x ELSE IF n = b THEN y ELSE 0]

LEMMA DamageFacts ==
    ASSUME NEW L \in Nat, NEW a \in 1 .. L, NEW b \in 1 .. L, a <= b,
           NEW x \in Byte, NEW y \in Byte, NEW e, e = Damage(a, x, b, y, L)
    PROVE  /\ e \in Seq(Byte) /\ Len(e) = L /\ IsDamage(e, a, b)
<1>1. e \in [1 .. L -> Byte]
  BY ByteFacts DEF Damage
<1>2. e \in Seq(Byte) /\ Len(e) = L
  BY <1>1
<1>3. b \in a .. L /\ \A n \in 1 .. L : n < a \/ n > b => e[n] = 0
  BY DEF Damage
<1>4. IsDamage(e, a, b)
  BY <1>2, <1>3 DEF IsDamage
<1> QED
  BY <1>2, <1>4

IsFlip(f, g, a, x) == g = [f EXCEPT ![a] = Xor(@, x)]

IsFlip2(f, g, a, x, b, y) == g = [f EXCEPT ![a] = Xor(@, x), ![b] = Xor(@, y)]

LEMMA FlipDetected ==
    ASSUME NEW f \in Seq(Byte), crc_check(f) = 0, NEW at \in 1 .. Len(f),
           NEW mask \in Byte, mask # 0, NEW g, IsFlip(f, g, at, mask)
    PROVE  g \in Seq(Byte) /\ Len(g) = Len(f) /\ crc_check(g) # 0
<1>1. PICK L \in Nat : L = Len(f)
  OBVIOUS
<1>2. PICK e : e = Damage(at, mask, at, mask, L)
  OBVIOUS
<1>3. /\ e \in Seq(Byte) /\ Len(e) = L /\ IsDamage(e, at, at) /\ e[at] # 0
  <2>1. at \in 1 .. L /\ at <= at
    BY <1>1
  <2>2. e \in Seq(Byte) /\ Len(e) = L /\ IsDamage(e, at, at)
    BY <1>2, <2>1, DamageFacts
  <2>3. e[at] = mask
    BY <1>2, <2>1 DEF Damage
  <2> QED
    BY <2>2, <2>3
<1>4. crc_check(e) # 0
  BY <1>3, ByteDetected
<1>5. \A n \in 1 .. L : f[n] \in Byte
  BY <1>1, ElementOfSeq
<1>6. \A n \in 1 .. L : Xor(f[n], mask) \in Byte /\ Xor(f[n], 0) = f[n]
  BY <1>5, XorFacts
<1>7. \A n \in 1 .. L : g[n] = Xor(f[n], e[n])
  BY <1>1, <1>2, <1>6 DEF Damage, IsFlip
<1>8. g \in Seq(Byte) /\ Len(g) = L
  BY <1>1, <1>6, ExceptSeq DEF IsFlip
<1> QED
  BY <1>1, <1>3, <1>4, <1>7, <1>8, DamageSeen

LEMMA Flip2Facts ==
    ASSUME NEW f \in Seq(Byte), NEW a \in 1 .. Len(f), NEW b \in 1 .. Len(f), a < b,
           NEW x \in Byte, NEW y \in Byte,
           NEW g, IsFlip2(f, g, a, x, b, y),
           NEW e, e = Damage(a, x, b, y, Len(f))
    PROVE  /\ g \in Seq(Byte) /\ Len(g) = Len(f) /\ e \in Seq(Byte) /\ Len(e) = Len(f)
           /\ \A n \in 1 .. Len(f) : g[n] = Xor(f[n], e[n])
<1>1. PICK L \in Nat : L = Len(f)
  OBVIOUS
<1>2. e \in Seq(Byte) /\ Len(e) = L
  <2>1. a \in 1 .. L /\ b \in 1 .. L /\ a <= b /\ e = Damage(a, x, b, y, L)
    BY <1>1
  <2> QED
    BY <2>1, DamageFacts
<1>3. \A n \in 1 .. L : f[n] \in Byte
  BY <1>1, ElementOfSeq
<1>4. \A n \in 1 .. L : /\ Xor(f[n], x) \in Byte /\ Xor(f[n], y) \in Byte
                        /\ Xor(f[n], 0) = f[n]
  BY <1>3, XorFacts
<1>5. \A n \in 1 .. L : g[n] = Xor(f[n], e[n])
  BY <1>1, <1>4 DEF Damage, IsFlip2
<1>6. PICK h : h = [f EXCEPT ![a] = Xor(@, x)]
  OBVIOUS
<1>7. h \in Seq(Byte) /\ Len(h) = L
  BY <1>1, <1>4, <1>6, ExceptSeq
<1>8. g = [h EXCEPT ![b] = Xor(f[b], y)]
  BY <1>6 DEF IsFlip2
<1>9. g \in Seq(Byte) /\ Len(g) = L
  BY <1>1, <1>4, <1>7, <1>8, ExceptSeq
<1> QED
  BY <1>1, <1>2, <1>5, <1>9

-----------------------------------------------------------------------------
(* The invariant *)

\* While the divider works on the last byte, what it divides is what the table would turn
\* into the checksum so far; a closed message passes the check.
LineInv ==
    /\ frame \in Seq(Byte) /\ reg \in Byte /\ bits \in 0 .. 8
    /\ phase \in {"open", "closed", "damaged"}
    /\ phase = "open" =>
           /\ Len(frame) <= MAX_LEN
           /\ \E c \in Byte : LongDivision[c] = crc(frame) /\ reg = Chain(c)[9 - bits]
    /\ phase # "open" => bits = 0 /\ Len(frame) <= MAX_LEN + 1
    /\ phase = "closed" => crc_check(frame) = 0

LEMMA InitInv == Init => LineInv
<1> SUFFICES ASSUME Init PROVE LineInv
  OBVIOUS
<1>1. 0 \in Byte
  BY DEF Byte
<1>2. frame = <<>> /\ reg = 0 /\ bits = 0 /\ phase = "open"
  BY DEF Init, CRC_INIT
<1>3. <<>> \in Seq(Byte) /\ Len(<<>>) = 0
  BY EmptySeq
<1>4. LongDivision[0] = crc(frame) /\ reg = Chain(0)[9]
  BY <1>1, <1>2, CrcEmpty, LongFacts, ChainFacts
<1>5. 9 - bits = 9 /\ 0 \in 0 .. 8 /\ 0 <= MAX_LEN
  BY <1>2, LenAssumption
<1> QED
  BY <1>1, <1>2, <1>3, <1>4, <1>5 DEF LineInv

LEMMA FeedInv ==
    ASSUME LineInv, Feed
    PROVE  LineInv'
<1>1. /\ frame \in Seq(Byte) /\ reg \in Byte /\ phase = "open" /\ bits = 0
      /\ Len(frame) < MAX_LEN /\ bits' = 8 /\ phase' = "open"
  BY DEF LineInv, Feed
<1>2. PICK c \in Byte : LongDivision[c] = crc(frame) /\ reg = Chain(c)[9]
  <2>1. 9 - bits = 9
    BY <1>1
  <2> QED
    BY <1>1, <2>1 DEF LineInv
<1>3. PICK byte \in Byte : frame' = Append(frame, byte) /\ reg' = Xor(reg, byte)
  BY SampleAssumption DEF Feed
<1>4. reg = crc(frame)
  BY <1>2, ChainFacts
<1>5. frame' \in Seq(Byte) /\ Len(frame') = Len(frame) + 1
  BY <1>1, <1>3, AppendProperties
<1>6. reg' \in Byte
  BY <1>1, <1>3, XorFacts
<1>7. LongDivision[reg'] = crc(frame')
  BY <1>1, <1>3, <1>4, CrcAppend
<1>8. reg' = Chain(reg')[9 - bits']
  <2>1. 9 - bits' = 1
    BY <1>1
  <2> QED
    BY <1>6, <2>1, ChainFacts
<1>9. Len(frame') <= MAX_LEN
  <2>1. Len(frame) \in Nat
    BY <1>1
  <2> QED
    BY <1>1, <1>5, <2>1, LenAssumption
<1>10. bits' \in 0 .. 8
  BY <1>1
<1> QED
  BY <1>1, <1>5, <1>6, <1>7, <1>8, <1>9, <1>10 DEF LineInv

LEMMA DivideInv ==
    ASSUME LineInv, Divide
    PROVE  LineInv'
<1>1. /\ reg \in Byte /\ bits \in 1 .. 8 /\ phase = "open" /\ bits' = bits - 1
      /\ reg' = Shift[reg] /\ frame' = frame /\ phase' = phase
  BY DEF LineInv, Divide
<1>2. PICK c \in Byte : LongDivision[c] = crc(frame) /\ reg = Chain(c)[9 - bits]
  BY <1>1 DEF LineInv
<1>3. PICK k \in 1 .. 8 : k = 9 - bits /\ k + 1 = 9 - bits'
  <2>1. 9 - bits \in 1 .. 8 /\ (9 - bits) + 1 = 9 - bits'
    BY <1>1
  <2> QED
    BY <2>1
<1>4. Chain(c)[k + 1] = Shift[Chain(c)[k]]
  BY <1>3, ChainFacts
<1>5. reg' = Chain(c)[9 - bits']
  BY <1>1, <1>2, <1>3, <1>4
<1>6. reg' \in Byte /\ bits' \in 0 .. 8
  BY <1>1, ShiftFacts
<1> QED
  BY <1>1, <1>2, <1>5, <1>6 DEF LineInv

\* The checksum divides itself away.
LEMMA CloseInv ==
    ASSUME LineInv, Close
    PROVE  LineInv'
<1>1. /\ frame \in Seq(Byte) /\ reg \in Byte /\ phase = "open" /\ bits = 0
      /\ Len(frame) <= MAX_LEN /\ frame' = Append(frame, crc(frame))
      /\ phase' = "closed" /\ reg' = reg /\ bits' = bits
  BY DEF LineInv, Close
<1>2. 0 \in Byte
  BY DEF Byte
<1>3. crc(frame) \in Byte
  BY <1>1, <1>2, CrcAppend
<1>4. frame' \in Seq(Byte) /\ Len(frame') = Len(frame) + 1
  BY <1>1, <1>3, AppendProperties
<1>5. crc_check(frame') = crc(frame')
  BY <1>2, <1>4, CrcAppend
<1>6. crc(frame') = LongDivision[Xor(crc(frame), crc(frame))]
  BY <1>1, <1>3, CrcAppend
<1>7. crc_check(frame') = 0
  BY <1>2, <1>3, <1>5, <1>6, XorFacts, LongFacts
<1>8. Len(frame') <= MAX_LEN + 1
  <2>1. Len(frame) \in Nat
    BY <1>1
  <2> QED
    BY <1>1, <1>4, <2>1, LenAssumption
<1>9. bits' \in 0 .. 8
  BY <1>1
<1> QED
  BY <1>1, <1>4, <1>7, <1>8, <1>9 DEF LineInv

LEMMA BurstStep ==
    ASSUME LineInv, Burst
    PROVE  frame' \in Seq(Byte) /\ Len(frame') = Len(frame) /\ crc_check(frame') # 0
<1>1. frame \in Seq(Byte) /\ crc_check(frame) = 0
  BY DEF LineInv, Burst, Damageable
<1>2. PICK at \in 1 .. Len(frame), mask \in 1 .. 255 :
          \/ Flip(at, mask)
          \/ \E s \in 1 .. 7 :
                 /\ at < Len(frame)
                 /\ mask >= 2^s
                 /\ Flip2(at, mask \div 2^s, at + 1, (mask * 2^(8 - s)) % 256)
  BY DEF Burst
<1>3. CASE Flip(at, mask)
  <2>1. mask \in Byte /\ mask # 0
    BY ByteFacts
  <2>2. IsFlip(frame, frame', at, mask)
    BY <1>3 DEF Flip, IsFlip
  <2> QED
    BY <1>1, <2>1, <2>2, FlipDetected
<1>4. ASSUME NEW s \in 1 .. 7, at < Len(frame), mask >= 2^s,
             Flip2(at, mask \div 2^s, at + 1, (mask * 2^(8 - s)) % 256)
      PROVE  frame' \in Seq(Byte) /\ Len(frame') = Len(frame) /\ crc_check(frame') # 0
  <2>1. PICK high, low : IsSplit(s, mask, high, low)
    BY DEF IsSplit
  <2>2. high \in Byte /\ low \in Byte /\ Xor(LongDivision[high], low) # 0
    BY <1>4, <2>1, BurstLeaves
  <2>3. frame' = [frame EXCEPT ![at] = Xor(@, high), ![at + 1] = Xor(@, low)]
    BY <1>4, <2>1 DEF Flip2, IsSplit
  <2>4. PICK b \in 1 .. Len(frame) : b = at + 1
    <3>1. at + 1 \in 1 .. Len(frame)
      BY <1>1, <1>4
    <3> QED
      BY <3>1
  <2>5. at \in Nat /\ at < b /\ at <= b /\ at # b /\ Len(frame) \in Nat
    BY <1>1, <2>4
  <2>6. PICK e : e = Damage(at, high, b, low, Len(frame))
    OBVIOUS
  <2>7. /\ frame' \in Seq(Byte) /\ Len(frame') = Len(frame)
        /\ e \in Seq(Byte) /\ Len(e) = Len(frame)
        /\ \A n \in 1 .. Len(frame) : frame'[n] = Xor(frame[n], e[n])
    <3>1. IsFlip2(frame, frame', at, high, b, low)
      BY <2>3, <2>4 DEF IsFlip2
    <3> QED
      BY <1>1, <2>2, <2>5, <2>6, <3>1, Flip2Facts
  <2>8. IsDamage(e, at, at + 1)
    BY <2>2, <2>4, <2>5, <2>6, DamageFacts
  <2>9. e[at] = high /\ e[at + 1] = low
    BY <2>4, <2>5, <2>6 DEF Damage
  <2>10. crc_check(e) # 0
    BY <2>2, <2>5, <2>8, <2>9, WordDetected
  <2> QED
    BY <1>1, <2>7, <2>10, DamageSeen
<1> QED
  BY <1>2, <1>3, <1>4

LEMMA TwoBitsStep ==
    ASSUME LineInv, TwoBits
    PROVE  /\ frame' \in Seq(Byte) /\ Len(frame') = Len(frame)
           /\ MAX_LEN <= 14 => crc_check(frame') # 0
<1>1. frame \in Seq(Byte) /\ crc_check(frame) = 0 /\ Len(frame) <= MAX_LEN + 1
  BY DEF LineInv, TwoBits, Damageable
<1>2. PICK a \in 1 .. Len(frame), b \in 1 .. Len(frame), j \in 0 .. 7, k \in 0 .. 7 :
          a < b /\ Flip2(a, 2^j, b, 2^k)
  BY DEF TwoBits
<1>3. PICK x \in Byte, y \in Byte : x = 2^j /\ y = 2^k
  BY OrbitStarts
<1>4. IsFlip2(frame, frame', a, x, b, y)
  BY <1>2, <1>3 DEF Flip2, IsFlip2
<1>5. Len(frame) \in Nat
  BY <1>1
<1>6. a < b /\ a <= b /\ a \in Nat /\ b \in Nat /\ a # b
  BY <1>2, <1>5
<1>7. PICK e : e = Damage(a, x, b, y, Len(frame))
  OBVIOUS
<1>8. /\ frame' \in Seq(Byte) /\ Len(frame') = Len(frame)
      /\ e \in Seq(Byte) /\ Len(e) = Len(frame)
      /\ \A n \in 1 .. Len(frame) : frame'[n] = Xor(frame[n], e[n])
  BY <1>1, <1>4, <1>6, <1>7, Flip2Facts
<1>9. IsDamage(e, a, b) /\ \A n \in a + 1 .. b - 1 : e[n] = 0
  <2>1. IsDamage(e, a, b)
    BY <1>5, <1>6, <1>7, DamageFacts
  <2>2. \A n \in a + 1 .. b - 1 : e[n] = 0
    BY <1>5, <1>6, <1>7 DEF Damage
  <2> QED
    BY <2>1, <2>2
<1>10. e[a] = x /\ e[b] = y
  BY <1>6, <1>7 DEF Damage
<1>11. ASSUME MAX_LEN <= 14
       PROVE  crc_check(frame') # 0
  <2>1. b <= a + 14
    BY <1>1, <1>5, <1>6, <1>11, LenAssumption
  <2>2. e[a] = 2^j /\ e[b] = 2^k
    BY <1>3, <1>10
  <2>3. crc_check(e) # 0
    BY <1>2, <1>6, <1>9, <2>1, <2>2, BitsDetected
  <2> QED
    BY <1>1, <1>5, <1>8, <2>3, DamageSeen
<1> QED
  BY <1>5, <1>8, <1>11

LEMMA DamageInv ==
    ASSUME LineInv, Burst \/ TwoBits
    PROVE  LineInv'
<1>1. /\ reg \in Byte /\ bits = 0 /\ Len(frame) <= MAX_LEN + 1
      /\ reg' = reg /\ bits' = bits /\ phase' = "damaged"
  BY DEF LineInv, Burst, TwoBits, Damageable
<1>2. frame' \in Seq(Byte) /\ Len(frame') = Len(frame)
  BY BurstStep, TwoBitsStep
<1>3. bits' \in 0 .. 8
  BY <1>1
<1> QED
  BY <1>1, <1>2, <1>3 DEF LineInv

LEMMA NextInv == LineInv /\ [Next]_vars => LineInv'
<1> SUFFICES ASSUME LineInv, [Next]_vars PROVE LineInv'
  OBVIOUS
<1>1. CASE Feed
  BY <1>1, FeedInv
<1>2. CASE Divide
  BY <1>2, DivideInv
<1>3. CASE Close
  BY <1>3, CloseInv
<1>4. CASE Burst \/ TwoBits
  BY <1>4, DamageInv
<1>5. CASE UNCHANGED vars
  BY <1>5 DEF vars, LineInv, Chain
<1> QED
  BY <1>1, <1>2, <1>3, <1>4, <1>5 DEF Next

THEOREM LineSafe == Spec => []LineInv
<1>1. QED
  BY InitInv, NextInv, PTL DEF Spec

-----------------------------------------------------------------------------
(* The theorems *)

\* What crc() returns is a byte, for every message: the checksum fits the packet's last
\* byte.
THEOREM ChecksumIsByte == \A m \in Seq(Byte) : crc(m) \in Byte
<1>1. 0 \in Byte
  BY DEF Byte
<1> QED
  BY <1>1, CrcAppend

\* The table and the bit by bit division agree, for messages of any length.
THEOREM TableAlwaysDivides == Spec => []TableDivides
<1>1. LineInv => TableDivides
  <2> SUFFICES ASSUME LineInv, phase = "open", bits = 0 PROVE crc(frame) = reg
    BY DEF TableDivides
  <2>1. 9 - bits = 9
    OBVIOUS
  <2>2. PICK c \in Byte : LongDivision[c] = crc(frame) /\ reg = Chain(c)[9]
    BY <2>1 DEF LineInv
  <2> QED
    BY <2>2, ChainFacts
<1> QED
  BY <1>1, LineSafe, PTL

\* A message that arrives as it was closed passes the check, whatever its length.
THEOREM IntactAlwaysPasses == Spec => []IntactPasses
<1>1. LineInv => IntactPasses
  BY DEF LineInv, IntactPasses
<1> QED
  BY <1>1, LineSafe, PTL

\* A burst of up to eight bits is seen in a message of any length.
THEOREM BurstsAreSeen == Spec => [][Burst => crc_check(frame') # 0]_vars
<1>1. LineInv /\ [Next]_vars => [Burst => crc_check(frame') # 0]_vars
  BY BurstStep
<1> QED
  BY <1>1, LineSafe, PTL DEF Spec

\* With at most 14 bytes before the checksum a burst and two damaged bits are both seen.
THEOREM DamageAlwaysDetected ==
    ASSUME MAX_LEN <= 14
    PROVE  Spec => []DamageIsDetected
<1>1. Init => DamageIsDetected
  BY DEF Init, DamageIsDetected
<1>2. LineInv /\ DamageIsDetected /\ [Next]_vars => DamageIsDetected'
  <2> SUFFICES ASSUME LineInv, DamageIsDetected, [Next]_vars, phase' = "damaged"
               PROVE  crc_check(frame') # 0
    BY DEF DamageIsDetected
  <2>1. CASE Burst
    BY <2>1, BurstStep
  <2>2. CASE TwoBits
    BY <2>2, TwoBitsStep
  <2>3. CASE Feed \/ Close
    BY <2>3 DEF Feed, Close
  <2>4. CASE Divide \/ UNCHANGED vars
    <3>1. frame' = frame /\ phase' = phase
      BY <2>4 DEF Divide, vars
    <3> QED
      BY <3>1 DEF DamageIsDetected
  <2> QED
    BY <2>1, <2>2, <2>3, <2>4 DEF Next
<1> QED
  BY <1>1, <1>2, LineSafe, PTL DEF Spec
====

---- MODULE Crc8 ----
(***************************************************************************)
(* crc.c, the same in the client and in the master: CRC-8 with polynomial  *)
(* 0x07 and initial value 0.                                               *)
(***************************************************************************)
EXTENDS Integers, Sequences

CRC_POLY == 7
CRC_INIT == 0

Byte == 0 .. 255

Xor(a, b) ==
    LET bit(k) == (((a \div 2^k) + (b \div 2^k)) % 2) * 2^k
    IN  bit(0) + bit(1) + bit(2) + bit(3) + bit(4) + bit(5) + bit(6) + bit(7)

\* One bit of the division: shift in eight bits, subtract the polynomial if the
\* most significant bit was set.
Shift == [c \in Byte |-> IF c >= 128 THEN Xor((2 * c) % 256, CRC_POLY) ELSE 2 * c]

\* The bit by bit division round, used when the polynomial is not the default one.
LongDivision ==
    [c \in Byte |-> Shift[Shift[Shift[Shift[Shift[Shift[Shift[Shift[c]]]]]]]]]

\* The lookup table of the default polynomial.
crc8_table_0x07 == <<
      0,   7,  14,   9,  28,  27,  18,  21,  56,  63,  54,  49,  36,  35,  42,  45,
    112, 119, 126, 121, 108, 107,  98, 101,  72,  79,  70,  65,  84,  83,  90,  93,
    224, 231, 238, 233, 252, 251, 242, 245, 216, 223, 214, 209, 196, 195, 202, 205,
    144, 151, 158, 153, 140, 139, 130, 133, 168, 175, 166, 161, 180, 179, 186, 189,
    199, 192, 201, 206, 219, 220, 213, 210, 255, 248, 241, 246, 227, 228, 237, 234,
    183, 176, 185, 190, 171, 172, 165, 162, 143, 136, 129, 134, 147, 148, 157, 154,
     39,  32,  41,  46,  59,  60,  53,  50,  31,  24,  17,  22,   3,   4,  13,  10,
     87,  80,  89,  94,  75,  76,  69,  66, 111, 104,  97, 102, 115, 116, 125, 122,
    137, 142, 135, 128, 149, 146, 155, 156, 177, 182, 191, 184, 173, 170, 163, 164,
    249, 254, 247, 240, 229, 226, 235, 236, 193, 198, 207, 200, 221, 218, 211, 212,
    105, 110, 103,  96, 117, 114, 123, 124,  81,  86,  95,  88,  77,  74,  67,  68,
     25,  30,  23,  16,   5,   2,  11,  12,  33,  38,  47,  40,  61,  58,  51,  52,
     78,  73,  64,  71,  82,  85,  92,  91, 118, 113, 120, 127, 106, 109, 100,  99,
     62,  57,  48,  55,  34,  37,  44,  43,   6,   1,   8,  15,  26,  29,  20,  19,
    174, 169, 160, 167, 178, 181, 188, 187, 150, 145, 152, 159, 138, 141, 132, 131,
    222, 217, 208, 215, 194, 197, 204, 203, 230, 225, 232, 239, 250, 253, 244, 243 >>

\* Mutant: the byte is added, with its carries.
crc_division_round_sum ==
    [c \in Byte |-> [byte \in Byte |-> crc8_table_0x07[((c + byte) % 256) + 1]]]

crc_division_round ==
    [c \in Byte |-> [byte \in Byte |-> crc8_table_0x07[Xor(c, byte) + 1]]]

\* Mutant: the first byte is skipped.
Remainder_from_1(data, init) ==
    LET after[n \in 0 .. Len(data)] ==
            IF n <= 1 THEN init ELSE crc_division_round[after[n - 1]][data[n]]
    IN  after[Len(data)]

\* The remainder of dividing the bytes, starting from the given value.
Remainder(data, init) ==
    LET after[n \in 0 .. Len(data)] ==
            IF n = 0 THEN init ELSE crc_division_round[after[n - 1]][data[n]]
    IN  after[Len(data)]

\* Mutant: another initial value than the check's.
crc_init_ff(data) == Remainder(data, 255)

crc(data) == Remainder(data, CRC_INIT)

\* The division of a message and its checksum: the remainder, 0 if it is intact.
crc_check(data) == Remainder(data, 0)

====

------------------------------- MODULE Crc16 --------------------------------
(***************************************************************************)
(* crc/crc16.c: the check value of a frame, computed from two tables of    *)
(* bytes, against its definition, the division of the frame's bits by the  *)
(* polynomial x^16 + x^15 + x^2 + 1.  A step is one turn of the loop.      *)
(***************************************************************************)
EXTENDS Integers, Sequences, Bitwise, Functions

CONSTANTS
    MaxLen,     \* bound on the length of a frame
    Later       \* the bytes after the first, which is any byte

VARIABLES crc_hi, crc_lo, frame

vars == <<crc_hi, crc_lo, frame>>

Byte == 0..255

arr_crc_hi == <<
      0, 193, 129,  64,   1, 192, 128,  65,   1, 192, 128,  65,   0, 193, 129,  64,
      1, 192, 128,  65,   0, 193, 129,  64,   0, 193, 129,  64,   1, 192, 128,  65,
      1, 192, 128,  65,   0, 193, 129,  64,   0, 193, 129,  64,   1, 192, 128,  65,
      0, 193, 129,  64,   1, 192, 128,  65,   1, 192, 128,  65,   0, 193, 129,  64,
      1, 192, 128,  65,   0, 193, 129,  64,   0, 193, 129,  64,   1, 192, 128,  65,
      0, 193, 129,  64,   1, 192, 128,  65,   1, 192, 128,  65,   0, 193, 129,  64,
      0, 193, 129,  64,   1, 192, 128,  65,   1, 192, 128,  65,   0, 193, 129,  64,
      1, 192, 128,  65,   0, 193, 129,  64,   0, 193, 129,  64,   1, 192, 128,  65,
      1, 192, 128,  65,   0, 193, 129,  64,   0, 193, 129,  64,   1, 192, 128,  65,
      0, 193, 129,  64,   1, 192, 128,  65,   1, 192, 128,  65,   0, 193, 129,  64,
      0, 193, 129,  64,   1, 192, 128,  65,   1, 192, 128,  65,   0, 193, 129,  64,
      1, 192, 128,  65,   0, 193, 129,  64,   0, 193, 129,  64,   1, 192, 128,  65,
      0, 193, 129,  64,   1, 192, 128,  65,   1, 192, 128,  65,   0, 193, 129,  64,
      1, 192, 128,  65,   0, 193, 129,  64,   0, 193, 129,  64,   1, 192, 128,  65,
      1, 192, 128,  65,   0, 193, 129,  64,   0, 193, 129,  64,   1, 192, 128,  65,
      0, 193, 129,  64,   1, 192, 128,  65,   1, 192, 128,  65,   0, 193, 129,  64>>

arr_crc_lo == <<
      0, 192, 193,   1, 195,   3,   2, 194, 198,   6,   7, 199,   5, 197, 196,   4,
    204,  12,  13, 205,  15, 207, 206,  14,  10, 202, 203,  11, 201,   9,   8, 200,
    216,  24,  25, 217,  27, 219, 218,  26,  30, 222, 223,  31, 221,  29,  28, 220,
     20, 212, 213,  21, 215,  23,  22, 214, 210,  18,  19, 211,  17, 209, 208,  16,
    240,  48,  49, 241,  51, 243, 242,  50,  54, 246, 247,  55, 245,  53,  52, 244,
     60, 252, 253,  61, 255,  63,  62, 254, 250,  58,  59, 251,  57, 249, 248,  56,
     40, 232, 233,  41, 235,  43,  42, 234, 238,  46,  47, 239,  45, 237, 236,  44,
    228,  36,  37, 229,  39, 231, 230,  38,  34, 226, 227,  35, 225,  33,  32, 224,
    160,  96,  97, 161,  99, 163, 162,  98, 102, 166, 167, 103, 165, 101, 100, 164,
    108, 172, 173, 109, 175, 111, 110, 174, 170, 106, 107, 171, 105, 169, 168, 104,
    120, 184, 185, 121, 187, 123, 122, 186, 190, 126, 127, 191, 125, 189, 188, 124,
    180, 116, 117, 181, 119, 183, 182, 118, 114, 178, 179, 115, 177, 113, 112, 176,
     80, 144, 145,  81, 147,  83,  82, 146, 150,  86,  87, 151,  85, 149, 148,  84,
    156,  92,  93, 157,  95, 159, 158,  94,  90, 154, 155,  91, 153,  89,  88, 152,
    136,  72,  73, 137,  75, 139, 138,  74,  78, 142, 143,  79, 141,  77,  76, 140,
     68, 132, 133,  69, 135,  71,  70, 134, 130,  66,  67, 131,  65, 129, 128,  64>>

TypeOK == crc_hi \in Byte /\ crc_lo \in Byte /\ frame \in Seq(Byte)

Init == crc_hi = 255 /\ crc_lo = 255 /\ frame = <<>>

\* What one byte makes of the two halves.
StepSwapped(hi, lo, b) == LET index == hi ^^ b IN           \* seeded fault
    <<arr_crc_lo[index + 1], lo ^^ arr_crc_hi[index + 1]>>
Step(hi, lo, b) == LET index == lo ^^ b IN
    <<arr_crc_lo[index + 1], hi ^^ arr_crc_hi[index + 1]>>

Next ==
    /\ Len(frame) < MaxLen
    /\ \E b \in IF frame = <<>> THEN Byte ELSE Later :
          LET halves == Step(crc_hi, crc_lo, b) IN
          /\ crc_hi' = halves[1] /\ crc_lo' = halves[2]
          /\ frame' = Append(frame, b)

Spec == Init /\ [][Next]_vars

CRC16 == 256 * crc_hi + crc_lo

\* Division of a register by the polynomial, bit by bit (40961 = 0xA001, the
\* polynomial with its lowest power first).
Bits(r, k) == LET D[i \in 0..k] == IF i = 0 THEN r
                                   ELSE IF D[i - 1] % 2 = 0 THEN D[i - 1] \div 2
                                   ELSE (D[i - 1] \div 2) ^^ 40961
              IN D[k]
Division == LET D[i \in 0..Len(frame)] ==
                   IF i = 0 THEN 65535 ELSE Bits(D[i - 1] ^^ frame[i], 8)
            IN D[Len(frame)]

\* The tables and the order of the halves compute the remainder of the
\* division.
IsRemainder == CRC16 = Division

\* A receiver that runs CRC16 over a frame followed by its check value, low
\* byte first, gets 0.
ReceiverGetsZero ==
    LET low == Step(crc_hi, crc_lo, crc_lo) IN Step(low[1], low[2], crc_hi) = <<0, 0>>
=============================================================================

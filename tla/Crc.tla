-------------------------------- MODULE Crc --------------------------------
(***************************************************************************)
(* crc.c as crc.h configures it (CRC-CCITT, no reflection, no final xor):  *)
(* the table-driven crcFast that guards the frames of the I2C loader, and  *)
(* the bit-by-bit crcSlow it must agree with.  A byte or a remainder is    *)
(* the set of its bits that are 1, so ^ is the symmetric difference.       *)
(***************************************************************************)
EXTENDS Naturals, Sequences, FiniteSetsExt

WIDTH             == 16
TOPBIT            == WIDTH - 1
POLYNOMIAL        == {0, 5, 12}                     \* 0x1021
INITIAL_REMAINDER == 0 .. 15                        \* 0xFFFF
CHECK_VALUE       == {0, 4, 5, 7, 8, 11, 13}        \* 0x29B1

Byte == SUBSET (0 .. 7)

\* r << n, of which a remainder keeps WIDTH bits, and r >> n.
Left(r, n)  == {k \in n .. WIDTH - 1 : k - n \in r}
Right(r, n) == {k \in 0 .. WIDTH - 1 : k + n \in r}

\* Mutant: the polynomial is subtracted whatever the top bit was.
MutShift(remainder) == SymDiff(Left(remainder, 1), POLYNOMIAL)

\* One step of the division.
Shift(remainder) == IF TOPBIT \in remainder THEN SymDiff(Left(remainder, 1), POLYNOMIAL)
                                            ELSE Left(remainder, 1)

\* The inner loop of crcSlow and of crcInit.
Divide(remainder) ==
  LET after[bit \in 0 .. 8] == IF bit = 0 THEN remainder ELSE Shift(after[bit - 1])
  IN  after[8]

slowByte(remainder, b) == Divide(SymDiff(remainder, Left(b, WIDTH - 8)))

crcSlow(message) ==
  LET after[n \in 0 .. Len(message)] ==
        IF n = 0 THEN INITIAL_REMAINDER ELSE slowByte(after[n - 1], message[n])
  IN  after[Len(message)]

\* crcInit
crcTable == [dividend \in Byte |-> Divide(Left(dividend, WIDTH - 8))]

\* Mutant: the remainder is not shifted before the table entry is added.
MutFastByte(remainder, b) ==
  LET data == SymDiff(b, Right(remainder, WIDTH - 8))
  IN  SymDiff(crcTable[data], remainder)

fastByte(remainder, b) ==
  LET data == SymDiff(b, Right(remainder, WIDTH - 8))
  IN  SymDiff(crcTable[data], Left(remainder, 8))

crcFast(message) ==
  LET after[n \in 0 .. Len(message)] ==
        IF n = 0 THEN INITIAL_REMAINDER ELSE fastByte(after[n - 1], message[n])
  IN  after[Len(message)]
=============================================================================

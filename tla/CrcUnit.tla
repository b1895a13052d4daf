------------------------------ MODULE CrcUnit ------------------------------
(***************************************************************************)
(* The CRC of crc.c on its own: a frame grows byte by byte, and beside it  *)
(* the bits that are inverted on the way to the I2C loader.                *)
(***************************************************************************)
EXTENDS Crc

CONSTANTS MaxBytes,     \* bound on the length of a message
          MsgBytes,     \* the bytes of a message after its first
          Noise         \* the error patterns of a byte

ASSUME FrameAssumption == MaxBytes \in Nat /\ MsgBytes \subseteq Byte /\ Noise \subseteq Byte

VARIABLES message,      \* a frame as it was sent
          noise         \* the bits that were inverted on the way

frameVars == <<message, noise>>

FrameInit == message = << >> /\ noise = << >>

\* The frame grows by a byte, which may be disturbed, or a new one begins.
FrameNext ==
    IF Len(message) >= MaxBytes THEN message' = << >> /\ noise' = << >>
    ELSE \E b \in IF message = << >> THEN Byte ELSE MsgBytes, e \in Noise :
           message' = Append(message, b) /\ noise' = Append(noise, e)

FrameSpec == FrameInit /\ [][FrameNext]_frameVars

-----------------------------------------------------------------------------
(* Properties *)

\* The characters 1 to 9, 0x31 to 0x39.
NineDigits == <<{0, 4, 5}, {1, 4, 5}, {0, 1, 4, 5}, {2, 4, 5}, {0, 2, 4, 5},
                {1, 2, 4, 5}, {0, 1, 2, 4, 5}, {3, 4, 5}, {0, 3, 4, 5}>>

\* The table-driven CRC is the bit-by-bit division, and gives the check value
\* of the standard for the digits 1 to 9 (crc.h:39, crc.c:95-233).
CrcIsDivision == /\ crcFast(message) = crcSlow(message)
                 /\ crcFast(NineDigits) = CHECK_VALUE

\* The message s with the bits of the noise e inverted.
Disturbed(s, e) == [i \in DOMAIN s |-> SymDiff(s[i], e[i])]

\* The places on the wire, the most significant bit of a byte first, where e
\* inverts a bit.
Inverted(e) == UNION {{8 * i - b : b \in e[i]} : i \in DOMAIN e}

\* The noise is one burst: it lies within WIDTH consecutive places.
IsBurst(e) == \E first \in Inverted(e) : Inverted(e) \subseteq first .. first + WIDTH - 1

\* A frame disturbed by one burst of up to 16 bits never has the checksum it
\* was sent with, so the I2C loader refuses it (I2CProtocol.c:27-33).
BurstsAreDetected ==
    IsBurst(noise) => crcFast(Disturbed(message, noise)) # crcFast(message)
=============================================================================

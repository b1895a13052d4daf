---------------------------- MODULE SRecordFiles ----------------------------
(***************************************************************************)
(* What the theorems about the contents of memory take for granted of the  *)
(* two hosts' images and of the errors on the wires.                       *)
(***************************************************************************)
EXTENDS A2Boot

(***************************************************************************)
(* A record as a linker writes it: 'S', the type, the count, the address,  *)
(* the data and the checksum in hex digits, and the line end.  A header or *)
(* data record has data.  The loader ignores address 0.                    *)
(***************************************************************************)
DataBytes(line) == ByteOf(line, 3) - AddressBytes(line) - 1

SRecord(line) ==
    /\ Len(line) > 4 /\ Len(line) = 2 * ByteOf(line, 3) + 5
    /\ line[1] = CharS /\ line[2] \in {0} \cup StoredTypes \cup JumpTypes
    /\ \A i \in 3 .. Len(line) - 1 : line[i] < 16
    /\ line[Len(line)] = CharLF
    /\ IF line[2] \in JumpTypes THEN DataBytes(line) = 0 ELSE DataBytes(line) > 0
    /\ line[2] # 0 => ~IsZero(RecordAddress(line))
    /\ ByteOf(line, Len(line) - 2) =
          255 - ((ByteOf(line, 3) + SumBytes(RecordAddress(line))
                                  + SumBytes(RecordData(line))) % 256)

\* The file ends with its only jump record.
SRecordFile ==
    \A k \in DOMAIN Image : /\ SRecord(Image[k])
                            /\ (Image[k][2] \in JumpTypes) <=> (k = Len(Image))

\* The I2C host ends with a jump.
JumpFrameIsLast == \A k \in DOMAIN Frames : Frames[k].cmd = "JUMP" => k = Len(Frames)

\* Any number of words on the I2C bus is corrupted and no digit on the UART line, or
\* there is at most one error, on either wire.  Which digits it may hit is HitFields.
OneErrorAtMost == FlippedBits = {} \/ MaxErrors <= 1

\* Where the loader looks for the data and for the checksum of a record.  It does
\* not use the count of a jump record, and takes one digit if the count leaves no
\* room for data.
DataAt(line) == 5 + 2 * AddressBytes(line)
CrcAt(line) == DataAt(line) + (IF line[2] \in JumpTypes THEN 0
                               ELSE IF DataBytes(line) = 0 THEN 1
                               ELSE 2 * DataBytes(line))

\* The sum of the count, the address and, later, the data.
HeadSum(line) == (ByteOf(line, 3) + SumBytes(RecordAddress(line))) % UINT16
FullSum(line) == IF line[2] \in JumpTypes THEN HeadSum(line)
                 ELSE (HeadSum(line) + SumBytes(RecordData(line))) % UINT16

\* All the record needs, by its count, lies within the line.
Complete(line) == /\ line[2] \notin JumpTypes => DataBytes(line) >= 0
                  /\ CrcAt(line) + 2 <= Len(line)

Checks(line) == ByteOf(line, CrcAt(line)) = 255 - (FullSum(line) % 256)

\* The line with its i-th character received as d.
Hit(line, i, d) == [line EXCEPT ![i] = d]

\* The digits a corrupted one may have become.
Flips(c) == {d \in 0 .. 15 : \E k \in FlippedBits :
                IF (c \div k) % 2 = 0 THEN d = c + k ELSE d = c - k}

(***************************************************************************)
(* No record with one wrong digit in its count is a shorter record with    *)
(* the right checksum.  A smaller count makes the loader take two digits   *)
(* of the data for the checksum, and that they are not the right ones is   *)
(* all that protects a record against it.  A large file may well hold such *)
(* a record, so this is asked only where noise may hit the count, as it may *)
(* in the runs, and not where it may hit address, data and checksum only.  *)
(***************************************************************************)
NoHiddenRecord ==
    \A k \in DOMAIN Image : \A i \in {3, 4} : \A d \in Flips(Image[k][i]) :
      LET got == Hit(Image[k], i, d)
      IN  Image[k][2] \notin JumpTypes /\ Complete(got) => ~Checks(got)
=============================================================================

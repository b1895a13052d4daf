----------------------------- MODULE MC_A2Boot -----------------------------
(***************************************************************************)
(* The boot ROM with a small image on each side: a header, a data and a    *)
(* jump record on the UART, and two loads and a jump on the I2C bus.       *)
(***************************************************************************)
EXTENDS SRecordFiles

\* S0, address 0000, one byte; S3 and S7, address 1C000010, data 5A 3C.
HeaderRecord == <<CharS, 0, 0, 4, 0, 0, 0, 0, 4, 1, 11, 10, CharLF>>
DataRecord   == <<CharS, 3, 0, 7, 1, 12, 0, 0, 0, 0, 1, 0, 5, 10, 3, 12, 3, 6, CharLF>>
JumpRecord   == <<CharS, 7, 0, 5, 1, 12, 0, 0, 0, 0, 1, 0, 12, 14, CharLF>>
\* S5, the number of data records.
CountRecord  == <<CharS, 5, 0, 3, 0, 0, 0, 1, 15, 11, CharLF>>

\* S1, address 0020, data 03 FC.
ShortRecord  == <<CharS, 1, 0, 5, 0, 0, 2, 0, 0, 3, 15, 12, 13, 11, CharLF>>
\* S3, address 1C000040, nine bytes.  With 6 for 14 as its count it is a record of
\* one byte with the right checksum, and the rest of the line holds what follows
\* the 'S' of a good S1 record.
HidingRecord == <<CharS, 3, 0, 14, 1, 12, 0, 0, 0, 0, 4, 0,
                  0, 1, 9, 12, 15, 15, 4, 1, 0, 4, 0, 0, 2, 0, 0, 5, 13, 6, 11, 9, CharLF>>

SmallImage   == <<HeaderRecord, DataRecord, JumpRecord>>
HidingImage  == <<HidingRecord, ShortRecord, JumpRecord>>
CountedImage == <<DataRecord, CountRecord, JumpRecord>>

\* What the theorems assume of a file and of the errors is so in the runs.
ASSUME SmallImageIsAFile ==
    Image = SmallImage => SRecordFile /\ OneErrorAtMost /\ NoHiddenRecord
ASSUME HidingImageIsAFile == Image = HidingImage => SRecordFile /\ ~NoHiddenRecord

NoFrames == << >>
SmallFrames == <<[cmd |-> "LOAD", address |-> <<28, 0, 0, 32>>, bytes |-> <<17>>],
                 [cmd |-> "LOAD", address |-> <<28, 0, 0, 36>>, bytes |-> <<34>>],
                 [cmd |-> "JUMP", address |-> <<28, 0, 0, 32>>, bytes |-> << >>]>>

\* And so is what they assume of the frames.
ASSUME SmallFramesEndWithJump == Frames = SmallFrames => JumpFrameIsLast
=============================================================================

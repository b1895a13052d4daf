------------------------------- MODULE A2Boot -------------------------------
(***************************************************************************)
(* The main loop of the a2_boot ROM (main.c) with its two loaders, and the *)
(* outside world: the download script of emulation/quickstart on the UART, *)
(* a host on the I2C bus that follows the protocol of I2CProtocol.h, and a *)
(* debugger.                                                               *)
(***************************************************************************)
EXTENDS UartLoader, I2cLoader

CONSTANTS Image,        \* the lines of the S-record file, as character sequences
          Frames,       \* the I2C host's frames: [cmd, address, bytes]
          CheckModes,   \* the ready checks the I2C host may start with
          Bootsels,     \* bound: the values of the bootsel pin, 0 or 1
          FlashParts,   \* bound: whether a flash part is connected
          MaxErrors,    \* bound: characters and words corrupted on the wires
          HitFields,    \* fault model: the digits of a record that noise may hit
          FlippedBits   \* bound: the bits, 1, 2, 4 or 8, a corrupted digit has inverted

\* The type digit, the two digits of the count, and the digits of the address,
\* the data and the checksum.
DigitFields == {"type", "count", "body"}

ASSUME BootAssumption ==
    /\ Image \in Seq(Seq(Chars)) /\ MaxErrors \in Nat
    /\ Frames \in Seq([cmd : {"LOAD", "JUMP"}, address : [1 .. 4 -> 0 .. 255],
                        bytes : Seq(0 .. 255)])
    /\ FlippedBits \subseteq {1, 2, 4, 8} /\ HitFields \subseteq DigitFields
    /\ Bootsels \subseteq {0, 1} /\ FlashParts \subseteq BOOLEAN
    /\ CheckModes \subseteq {"CHECK_WITHOUT_CRC", "CHECK_WITH_CRC"}

VARIABLES bootsel,      \* the pin
          flash,        \* is a flash part connected?
          reset_reason, \* psoc->reset_reason: 1 the pin, 2 the watchdog, 0 read
          jtagreg,      \* psoc->jtagreg is still 1
          script,       \* serialPort.py: [line, out, inbox]
          host,         \* the I2C host: [at, mode, frame, word]
          errors,       \* corruptions so far
          hit           \* history: the lines that noise has hit

outside == <<bootsel, flash, jtagreg, script, host, errors, hit>>
world == <<reset_reason, outside>>
vars == <<shared, uartvars, pc, i2cvars, world>>

JtagEntry == <<28, 0, 128, 128>>        \* 0x1C008080

Init ==
    /\ BootInit /\ UartInit /\ I2cInit
    /\ pc = "RESET"
    /\ reset_reason \in {1, 2}
    /\ bootsel \in Bootsels /\ flash \in FlashParts
    /\ jtagreg = TRUE
    /\ script = [line |-> 1, out |-> << >>, inbox |-> << >>]
    /\ host = [at |-> "START", mode |-> "none", frame |-> 1, word |-> 1]
    /\ errors = 0 /\ hit = {}

-----------------------------------------------------------------------------
(* main.  Sending text keeps the ROM busy: it takes no other step. *)

Ready == Running /\ uart_tx.left = 0

\* udma_flash_readid gets lFlashID by value, so the ID that is tested is the 0
\* it was initialised with.
lFlashID == 0
flash_present == lFlashID % 256 # 255

\* main reads the reset reason for its debug text, and the access clears the
\* register.
ReadResetReason ==
    /\ Ready /\ pc = "RESET"
    /\ reset_reason' = 0
    /\ pc' = "START"
    /\ UNCHANGED <<shared, uartvars, i2cvars, outside>>

Start ==
    /\ Ready /\ pc = "START"
    /\ IF bootsel = 1 /\ flash_present
       THEN /\ pc' = "FLASH"
            /\ UNCHANGED i2cvars
       ELSE /\ pc' = "LOOP"
            /\ CASE reset_reason = 1 -> hal_set_i2cs_msg_apb_i2c("POR")
                 [] reset_reason = 2 -> hal_set_i2cs_msg_apb_i2c("WDT")
                 [] OTHER            -> UNCHANGED msg_apb_i2c
            /\ UNCHANGED <<gUseCRCFlg, rxbuf, rxlen, msg_i2c_apb, fifo_i2c_apb>>
    /\ UNCHANGED <<shared, uartvars, world>>

\* The top of the loop: the debugger's register, then the UART loader.
LoopJtag ==
    /\ Ready /\ pc = "LOOP" /\ ~jtagreg
    /\ jump_to_address(JtagEntry)
    /\ UNCHANGED <<flags, uartvars, pc, i2cvars, world>>

LoopUart ==
    /\ Ready /\ pc = "LOOP" /\ jtagreg
    /\ IF gStopUartBootLoaderFlg THEN UNCHANGED <<uartvars, shared>>
                                 ELSE processUartProtocolFrames
    /\ pc' = "I2C_GATE"
    /\ UNCHANGED <<i2cvars, world>>

\* Mutated forms, for the mutation runs only.
MutI2cEnabled == TRUE
MutBootMeDue  == FALSE

I2cEnabled == ~gStopI2CBootLoaderFlg

LoopI2c ==
    /\ Ready /\ pc = "I2C_GATE"
    /\ pc' = IF I2cEnabled THEN "I2C" ELSE "TICK"
    /\ UNCHANGED <<shared, uartvars, i2cvars, world>>

I2cStep ==
    /\ Ready
    /\ processI2CProtocolFrames
    /\ UNCHANGED <<uartvars, world>>

(***************************************************************************)
(* Every 90000 rounds the ROM calls for a download.  That is seconds, much *)
(* longer than the script takes to answer, so there is no new call while   *)
(* an answer is on its way.                                                *)
(***************************************************************************)
BootMeDue == /\ ~gStopUartMsgFlg
             /\ script.inbox = << >> /\ script.out = << >>

Tick ==
    /\ Ready /\ pc = "TICK"
    /\ pc' = "LOOP"
    /\ UNCHANGED <<shared, uart, uart_rx, i2cvars, world>>
    /\ \/ UNCHANGED uart_tx
       \/ BootMeDue /\ uart_tx' = [text |-> "BOOTME", left |-> 12]

ROM == ReadResetReason \/ Start \/ LoopJtag \/ LoopUart \/ LoopI2c \/ I2cStep \/ Tick

-----------------------------------------------------------------------------
(* The UART line and the download script. *)

\* The field of the i-th character of a line.
Field(i) == CASE i = 2       -> "type"
              [] i \in {3, 4} -> "count"
              [] OTHER       -> "body"

\* What may become of a character: a digit may be received as one whose value
\* differs in one bit.
Received(c, field) ==
    {c} \cup (IF c < 16 /\ field \in HitFields /\ errors < MaxErrors
              THEN {d \in 0 .. 15 : \E k \in FlippedBits :
                      IF (c \div k) % 2 = 0 THEN d = c + k ELSE d = c - k}
              ELSE {})

(***************************************************************************)
(* One character time.  The script's next character reaches the receive    *)
(* FIFO or is dropped by a full one, and a character of the ROM's text is  *)
(* gone.  Between two characters the ROM polls the UART at least once,     *)
(* unless it is sending.                                                   *)
(***************************************************************************)
CharacterTime ==
    /\ script.out # << >> \/ uart_tx.left > 0
    /\ Ready /\ ~gStopUartBootLoaderFlg => uart_rx = << >>
    /\ LET sends == script.out # << >>
           at    == Len(Image[script.line - 1]) - Len(script.out) + 1
           done  == uart_tx.left = 1
       IN  /\ IF sends
              THEN \E c \in Received(Head(script.out), Field(at)) :
                     /\ uart_rx' = IF Len(uart_rx) < RX_DEPTH
                                   THEN Append(uart_rx, c) ELSE uart_rx
                     /\ IF c = Head(script.out) THEN UNCHANGED <<errors, hit>>
                        ELSE /\ errors' = errors + 1
                             /\ hit' = hit \cup {script.line - 1}
              ELSE UNCHANGED <<uart_rx, errors, hit>>
           /\ uart_tx' = [uart_tx EXCEPT !.left = IF @ = 0 THEN 0 ELSE @ - 1]
           /\ script' = [script EXCEPT !.out = IF sends THEN Tail(@) ELSE @,
                                       !.inbox = IF done THEN Append(@, uart_tx.text) ELSE @]
    /\ UNCHANGED <<shared, uart, pc, i2cvars, reset_reason, bootsel, flash, jtagreg, host>>

\* serialPort.py sends the next line on BOOTME and on OK, and ignores the rest.
ScriptReads ==
    /\ script.inbox # << >> /\ script.out = << >>
    /\ script' = IF Head(script.inbox) \in {"BOOTME", "OK"} /\ script.line <= Len(Image)
                 THEN [line |-> script.line + 1, out |-> Image[script.line],
                       inbox |-> Tail(script.inbox)]
                 ELSE [script EXCEPT !.inbox = Tail(@)]
    /\ UNCHANGED <<shared, uartvars, pc, i2cvars, reset_reason, bootsel, flash, jtagreg, host, errors, hit>>

-----------------------------------------------------------------------------
(* The I2C host.  A read of the message register clears its status bit. *)

FrameWords(f) == LET words == <<HeaderOf(f.cmd, f.address), Noise(f.bytes)>>
                 IN  words \o <<CrcOf(words)>>

HostMoves(next) == /\ host' = next
                   /\ UNCHANGED <<shared, uartvars, pc, gUseCRCFlg, rxbuf, rxlen,
                                  reset_reason, bootsel, flash, jtagreg, script, hit>>

HostWrites(m) == msg_i2c_apb' = [data |-> m, new |-> TRUE]

HostChecks ==
    \E m \in CheckModes :
      /\ host.at = "START"
      /\ HostWrites(m)
      /\ HostMoves([host EXCEPT !.at = "AWAIT_YES", !.mode = m])
      /\ UNCHANGED <<msg_apb_i2c, fifo_i2c_apb, errors>>

HostReadsReply ==
    /\ host.at \in {"AWAIT_YES", "AWAIT_ACK"} /\ msg_apb_i2c.new
    /\ msg_apb_i2c' = [msg_apb_i2c EXCEPT !.new = FALSE]
    /\ HostMoves(CASE host.at = "AWAIT_YES" /\ msg_apb_i2c.data = "RSP_YES" ->
                        [host EXCEPT !.at = "SEND"]
                   [] host.at = "AWAIT_ACK" /\ msg_apb_i2c.data = "GOOD" ->
                        [host EXCEPT !.at = "SEND", !.frame = @ + 1, !.word = 1]
                   [] host.at = "AWAIT_ACK" /\ msg_apb_i2c.data = "CORRUPTED" ->
                        [host EXCEPT !.at = "SEND", !.word = 1]
                   [] OTHER -> host)
    /\ UNCHANGED <<msg_i2c_apb, fifo_i2c_apb, errors>>

HostPushes ==
    /\ host.at = "SEND" /\ host.frame <= Len(Frames) /\ host.word <= 3
    /\ LET w == FrameWords(Frames[host.frame])[host.word]
       IN  \/ fifo_i2c_apb' = Append(fifo_i2c_apb, w) /\ UNCHANGED errors
           \/ /\ errors < MaxErrors /\ errors' = errors + 1
              /\ fifo_i2c_apb' = Append(fifo_i2c_apb, Noise(<<254>>))
    /\ HostMoves([host EXCEPT !.word = @ + 1])
    /\ UNCHANGED <<msg_i2c_apb, msg_apb_i2c>>

HostRings ==
    /\ host.at = "SEND" /\ host.word = 4
    /\ HostWrites("NEW_FRAME")
    /\ HostMoves([host EXCEPT !.at = IF host.mode = "CHECK_WITH_CRC"
                                     THEN "AWAIT_ACK" ELSE "AWAIT_EMPTY"])
    /\ UNCHANGED <<msg_apb_i2c, fifo_i2c_apb, errors>>

\* Without CRCs there is no answer: the host looks for an empty FIFO.
HostSeesEmpty ==
    /\ host.at = "AWAIT_EMPTY" /\ fifo_i2c_apb = << >> /\ ~msg_i2c_apb.new
    /\ HostMoves([host EXCEPT !.at = "SEND", !.frame = @ + 1, !.word = 1])
    /\ UNCHANGED <<mailbox, errors>>

I2cHost == HostChecks \/ HostReadsReply \/ HostPushes \/ HostRings \/ HostSeesEmpty

\* A debugger stops the boot by changing jtagreg.
Debugger ==
    /\ Running /\ jtagreg
    /\ jtagreg' = FALSE
    /\ UNCHANGED <<shared, uartvars, pc, i2cvars, reset_reason, bootsel, flash, script, host, errors, hit>>

Next == ROM \/ CharacterTime \/ ScriptReads \/ I2cHost \/ Debugger

Spec == Init /\ [][Next]_vars

(***************************************************************************)
(* The ROM's loop never waits for anyone, the wires keep going, the script *)
(* runs, and the ROM repeats its call until somebody answers it.  An I2C   *)
(* host that has started goes on; there need not be one.                   *)
(***************************************************************************)
CallsForDownload == Tick /\ uart_tx'.left > 0

Fairness == /\ WF_vars(ROM) /\ SF_vars(CallsForDownload)
            /\ WF_vars(CharacterTime) /\ WF_vars(ScriptReads)
            /\ WF_vars(HostReadsReply \/ HostPushes \/ HostRings \/ HostSeesEmpty)

FairSpec == Spec /\ Fairness
-----------------------------------------------------------------------------
(* What the records of the image and the frames of the I2C host stand for. *)

ByteOf(line, i) == 16 * line[i] + line[i + 1]
AddressBytes(line) == CASE line[2] \in {0, 1, 9} -> 2
                        [] line[2] \in {2, 8}    -> 3
                        [] OTHER                 -> 4
Bytes(line, first, n) == [k \in 1 .. n |-> ByteOf(line, first + 2 * (k - 1))]
RecordAddress(line) == Bytes(line, 5, AddressBytes(line))
RecordData(line) ==
    Bytes(line, 5 + 2 * AddressBytes(line), ByteOf(line, 3) - AddressBytes(line) - 1)

\* The pairs of address and bytes that these lines, or the first n lines or frames,
\* load.
Records(lines) == {<<RecordAddress(Image[k]), RecordData(Image[k])>> :
                       k \in {j \in lines : Image[j][2] \in 1 .. 3}}
UartData(n) == Records(1 .. n)
I2cData(n) == {<<Frames[k].address, Frames[k].bytes>> :
                    k \in {j \in 1 .. n : Frames[j].cmd = "LOAD"}}

UartEntries == {RecordAddress(Image[k]) :
                    k \in {j \in DOMAIN Image : Image[j][2] \in 7 .. 9}}
I2cEntries  == {Frames[k].address : k \in {j \in DOMAIN Frames : Frames[j].cmd = "JUMP"}}

\* Without CRCs the ROM neither checks a frame nor answers it.
Unchecked == host.mode = "CHECK_WITHOUT_CRC"

\* Widths of the C variables, the depth of the receive FIFO, and the messages that
\* each side writes.
TypeOK ==
    /\ gStopUartMsgFlg \in BOOLEAN /\ gStopUartBootLoaderFlg \in BOOLEAN
    /\ gStopI2CBootLoaderFlg \in BOOLEAN /\ gUseCRCFlg \in BOOLEAN
    /\ pc \in {"RESET", "START", "FLASH", "LOOP", "I2C_GATE", "I2C", "WITHOUT_CRC",
               "WITH_CRC", "FRAME", "FLAGS", "DATA", "TICK"}
    /\ uart.state \in {"IDLE", "RECORD_TYPE", "COUNT", "ADDRESS", "DATA", "CRC", "TERMINATION"}
    /\ uart.type \in Chars /\ uart.addrSize \in {0, 2, 3, 4}
    /\ uart.dataCount \in Uint16 /\ uart.rxd \in Uint16 /\ uart.chk \in Uint16
    /\ uart.buf \in Seq(Chars) /\ uart.data \in Seq(0 .. 255)
    /\ uart_rx \in Seq(Chars) /\ Len(uart_rx) <= RX_DEPTH
    /\ msg_i2c_apb.data \in HostMessages \cup {"none"} /\ msg_i2c_apb.new \in BOOLEAN
    /\ msg_apb_i2c.data \in RomMessages \cup {"none"} /\ msg_apb_i2c.new \in BOOLEAN
    /\ rxlen \in 0 .. Len(rxbuf)

(***************************************************************************)
(* Each loader silences the other when it hears its host (uartProtocol.c   *)
(* line 65, I2CProtocol.c line 155).  If both ever did, the ROM would poll *)
(* nobody for the rest of its life.                                        *)
(***************************************************************************)
NeverBothStopped == ~(gStopUartBootLoaderFlg /\ gStopI2CBootLoaderFlg)

(***************************************************************************)
(* What the two loaders copy into memory came from one host only, and is   *)
(* what this host sent: the two images are never mixed, and no frame and   *)
(* no record gets past its checksum (uartProtocol.c lines 145, 159-162 and *)
(* 189) after one digit of its address, data or checksum was corrupted, or *)
(* one of the count, which shifts all that follows.  The type digit (line  *)
(* 72) is in no checksum: one error there stores other bytes at another    *)
(* address, so this is a property for HitFields without "type", and        *)
(* DamageIsConfined says what is left of it with "type".                   *)
(***************************************************************************)
LoadedFromOneHost ==
    \/ loaded \subseteq UartData(Len(Image))
    \/ loaded \subseteq I2cData(Len(Frames))
    \/ Unchecked

(***************************************************************************)
(* A host that has been told that its record or frame was good finds it in *)
(* memory: the script has seen an OK for every line before the last one it *)
(* sent, the I2C host a good-frame message for every frame before the one  *)
(* it is at.  As above, noise that hits the type digit is excluded: the    *)
(* record it makes is answered with OK and is not the one that was sent.   *)
(***************************************************************************)
AcknowledgedIsStored ==
    /\ UartData(script.line - 2) \subseteq loaded
    /\ Unchecked \/ I2cData(host.frame - 1) \subseteq loaded

(***************************************************************************)
(* The ROM jumps only to where a host told it to, and not before all of    *)
(* this host's image is in memory.  As above, noise that hits the type     *)
(* digit is excluded.                                                      *)
(***************************************************************************)
JumpMeansLoaded ==
    \/ entry \in {NoEntry, JtagEntry}
    \/ entry \in UartEntries /\ loaded = UartData(Len(Image))
    \/ entry \in I2cEntries /\ loaded = I2cData(Len(Frames))
    \/ Unchecked

(***************************************************************************)
(* Whatever digits noise hits, the type and the count included, and        *)
(* however many: the damage stays in the records it hit.  A record that    *)
(* was answered with OK and not hit is in memory as it was sent, so what   *)
(* a hit one swallows or changes of its neighbours is never acknowledged;  *)
(* memory holds no more foreign records than lines were hit, so what is    *)
(* left of a shifted line never begins a second record; and the ROM jumps  *)
(* at the file's last line or in one that was hit (uartProtocol.c lines    *)
(* 52-121, 185-240).                                                       *)
(***************************************************************************)
DamageIsConfined ==
    \/ /\ Records((1 .. script.line - 2) \ hit) \subseteq loaded
       /\ Cardinality(loaded \ UartData(Len(Image))) <= Cardinality(hit)
       /\ \/ entry \in {NoEntry, JtagEntry} \/ script.line - 1 \in hit
          \/ entry \in UartEntries /\ script.line - 1 = Len(Image)
    \/ gStopUartBootLoaderFlg /\ (loaded \subseteq I2cData(Len(Frames)) \/ Unchecked)

(***************************************************************************)
(* The boot ends: the ROM leaves its loop for some image, whichever host   *)
(* comes first and however the steps of the two downloads interleave.  A   *)
(* word corrupted on the I2C bus is repaired by the retry.  A corrupted    *)
(* S-record is not, because serialPort.py ignores NOT OK; nor is a frame   *)
(* lost in the mode without CRCs.                                          *)
(***************************************************************************)
UartCorrupted == errors > 0 /\ gStopI2CBootLoaderFlg

SomeBootCompletes ==
    <>(entry # NoEntry \/ pc = "FLASH" \/ UartCorrupted \/ Unchecked)

(***************************************************************************)
(* The quickstart guide: A2 Boot reads an executable file in S-record      *)
(* format over UART 0, stores it and jumps to its start.  So it does so    *)
(* with the file that the script sends, on a wire without errors, unless a *)
(* debugger takes over.                                                    *)
(***************************************************************************)
SrecordFileBoots == <>(entry \in UartEntries \/ ~jtagreg)

\* The header of main.c: the image is loaded from flash if a part is detected,
\* and without one the ROM waits for a host.
FlashOnlyIfDetected == pc = "FLASH" => flash
=============================================================================

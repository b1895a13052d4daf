----------------------------- MODULE I2cLoader -----------------------------
(***************************************************************************)
(* processI2CProtocolFrames and parseI2CProtocolFrame (I2CProtocol.c) with *)
(* the registers of the apb_i2cs peripheral they use: the message register *)
(* and status of each direction and the FIFO from the host.  Every         *)
(* register access is a step of its own, so that the host's I2C transfers  *)
(* fall between any two of them.                                           *)
(*                                                                         *)
(* A frame is three words in the FIFO: header, payload and CRC.  The CRC   *)
(* is taken to be the frame itself, that is, to miss no corruption.        *)
(***************************************************************************)
EXTENDS BootState

\* The message bytes of I2CProtocol.h.
HostMessages == {"CHECK_WITHOUT_CRC", "CHECK_WITH_CRC", "NEW_FRAME"}
RomMessages  == {"RSP_YES", "CORRUPTED", "GOOD", "POR", "WDT"}

(***************************************************************************)
(* Every word can stand in any place of a frame, so each has every field:  *)
(* what it would mean as a start of frame, as a payload and as a CRC.      *)
(***************************************************************************)
Word(sof, cmd, address, bytes, crc) ==
    [sof |-> sof, cmd |-> cmd, address |-> address, bytes |-> bytes, crc |-> crc]
Noise(bytes)     == Word("OTHER", "OTHER", << >>, bytes, << >>)
CrcOf(words)     == Word("OTHER", "OTHER", << >>, <<255>>, words)
HeaderOf(cmd, a) == Word("HOST_TO_A2", cmd, a, <<255>>, << >>)

Max2(a, b) == IF a > b THEN a ELSE b

VARIABLES pc,               \* the next register access of the ROM
          gUseCRCFlg,
          rxbuf,            \* gsI2CProtocolFrameRxBuf, with what earlier frames left
          rxlen,            \* i: the words of the current frame
          msg_i2c_apb,      \* host to ROM: [data, new]; new is the status bit
          msg_apb_i2c,      \* ROM to host
          fifo_i2c_apb      \* host to ROM

mailbox == <<msg_i2c_apb, msg_apb_i2c, fifo_i2c_apb>>
i2cvars == <<gUseCRCFlg, rxbuf, rxlen, mailbox>>

I2cInit ==
    /\ gUseCRCFlg = FALSE
    /\ rxbuf = << >>
    /\ rxlen = 0
    /\ msg_i2c_apb = [data |-> "none", new |-> FALSE]
    /\ msg_apb_i2c = [data |-> "none", new |-> FALSE]
    /\ fifo_i2c_apb = << >>

hal_set_i2cs_msg_apb_i2c(m) == msg_apb_i2c' = [data |-> m, new |-> TRUE]

\* An APB read of the message register clears its status bit.
ReadMessage == msg_i2c_apb' = [msg_i2c_apb EXCEPT !.new = FALSE]

GoTo(l) == pc' = l

\* The first access: is there a message?
Status ==
    /\ pc = "I2C"
    /\ IF msg_i2c_apb.new
       THEN /\ gStopUartMsgFlg' = TRUE
            /\ gStopUartBootLoaderFlg' = TRUE
            /\ UNCHANGED gStopI2CBootLoaderFlg
            /\ GoTo("WITHOUT_CRC")
       ELSE UNCHANGED flags /\ GoTo("TICK")
    /\ UNCHANGED <<i2cvars, loaded, entry>>

\* Each branch of the if-else chain reads the message register again.
ReadyCheck(l, message, useCRC, else) ==
    /\ pc = l
    /\ ReadMessage
    /\ IF msg_i2c_apb.data = message
       THEN /\ gUseCRCFlg' = useCRC
            /\ hal_set_i2cs_msg_apb_i2c("RSP_YES")
            /\ GoTo("TICK")
       ELSE /\ GoTo(else)
            /\ UNCHANGED <<gUseCRCFlg, msg_apb_i2c>>
    /\ UNCHANGED <<rxbuf, rxlen, fifo_i2c_apb, shared>>

CheckWithoutCRC == ReadyCheck("WITHOUT_CRC", "CHECK_WITHOUT_CRC", FALSE, "WITH_CRC")
CheckWithCRC    == ReadyCheck("WITH_CRC", "CHECK_WITH_CRC", TRUE, "FRAME")

NewFrame ==
    /\ pc = "FRAME"
    /\ ReadMessage
    /\ rxlen' = 0
    /\ GoTo(IF msg_i2c_apb.data = "NEW_FRAME" THEN "FLAGS" ELSE "TICK")
    /\ UNCHANGED <<gUseCRCFlg, rxbuf, msg_apb_i2c, fifo_i2c_apb, shared>>

\* The drain loop: read the flags, then the data port.
ReadData ==
    /\ pc = "DATA"
    /\ rxlen' = rxlen + 1
    /\ rxbuf' = [i \in 1 .. Max2(Len(rxbuf), rxlen + 1) |->
                     IF i = rxlen + 1 THEN Head(fifo_i2c_apb) ELSE rxbuf[i]]
    /\ fifo_i2c_apb' = Tail(fifo_i2c_apb)
    /\ GoTo("FLAGS")
    /\ UNCHANGED <<gUseCRCFlg, msg_i2c_apb, msg_apb_i2c, shared>>

\* Mutated form, for the mutation runs only: the CRC is never compared.
MutCrcMatches == gUseCRCFlg => rxlen > 1

CrcMatches == gUseCRCFlg => /\ rxlen > 1
                            /\ rxbuf[rxlen] = CrcOf(SubSeq(rxbuf, 1, rxlen - 1))

\* parseI2CProtocolFrame: store or jump, and answer if CRCs are in use.
parseI2CProtocolFrame ==
    LET header  == rxbuf[1]
        payload == rxbuf[2]
        good    == CrcMatches /\ rxbuf # << >> /\ header.sof = "HOST_TO_A2"
        answer  == IF good THEN "GOOD" ELSE "CORRUPTED"
    IN  /\ \/ /\ good /\ header.cmd = "LOAD"
              /\ memcpy(header.address, payload.bytes)
           \/ /\ good /\ header.cmd = "JUMP"
              /\ jump_to_address(header.address)
           \/ /\ ~good \/ header.cmd \notin {"LOAD", "JUMP"}
              /\ UNCHANGED <<loaded, entry>>
        \* A jump leaves the ROM before it answers; a frame with a matching
        \* CRC and a wrong start of frame gets no answer.
        /\ IF gUseCRCFlg /\ (good \/ ~CrcMatches) /\ ~(good /\ header.cmd = "JUMP")
           THEN hal_set_i2cs_msg_apb_i2c(answer)
           ELSE UNCHANGED msg_apb_i2c

Drain ==
    /\ pc = "FLAGS"
    /\ IF fifo_i2c_apb # << >>
       THEN /\ GoTo("DATA")
            /\ UNCHANGED <<msg_apb_i2c, loaded, entry>>
       ELSE /\ parseI2CProtocolFrame
            /\ GoTo("TICK")
    /\ UNCHANGED <<gUseCRCFlg, rxbuf, rxlen, msg_i2c_apb, fifo_i2c_apb, flags>>

processI2CProtocolFrames ==
    Status \/ CheckWithoutCRC \/ CheckWithCRC \/ NewFrame \/ ReadData \/ Drain
=============================================================================

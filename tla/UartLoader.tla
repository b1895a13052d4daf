----------------------------- MODULE UartLoader -----------------------------
(***************************************************************************)
(* processUartProtocolFrames (uartProtocol.c): the S-record state machine. *)
(* Every call reads at most one character from the receive FIFO of UART 0. *)
(* A character is a number: a hex digit is its value, then 'S' and the     *)
(* line end.  Replies are sent by polling, which blocks the ROM for as     *)
(* many character times as the text has characters.                        *)
(***************************************************************************)
EXTENDS BootState, FiniteSetsExt

CharS  == 16
CharLF == 17
Chars  == 0 .. CharLF

RX_DEPTH == 4           \* u_dc_fifo_rx in udma_uart_top.sv

\* The 16-bit counters and the checksum.
UINT16 == 65536
Uint16 == 0 .. UINT16 - 1

VARIABLES uart,         \* the static variables of uartProtocol.c
          uart_rx,      \* the characters in the receive FIFO
          uart_tx       \* the text being sent and its characters left to send

uartvars == <<uart, uart_rx, uart_tx>>

(***************************************************************************)
(* buf holds the characters of gsUartProtocolConvToHexBuf, so its length   *)
(* is gsUart0FillIndex; data holds the bytes of gsMemoryWriteBuf below     *)
(* gsMemoryWriteBufIndex.                                                  *)
(***************************************************************************)
Cleared == [state |-> "IDLE", type |-> 0, addrSize |-> 0, dataCount |-> 0,
            address |-> <<0>>, rxd |-> 0, chk |-> 0, buf |-> << >>,
            data |-> << >>]

UartInit == /\ uart = Cleared
            /\ uart_rx = << >>
            /\ uart_tx = [text |-> "none", left |-> 0]

(***************************************************************************)
(* atoh: a character that is no hex digit repeats the digit before it.     *)
(***************************************************************************)
Nibble(s, i) ==
    LET hex == {k \in 1 .. i : s[k] < 16}
    IN  IF hex = {} THEN 0 ELSE s[Max(hex)]

\* The value of the text as bytes, the most significant first.
atoh(s) ==
    LET odd == Len(s) % 2
    IN  [b \in 1 .. (Len(s) + odd) \div 2 |->
            16 * Nibble(s, 2 * b - 1 - odd) + Nibble(s, 2 * b - odd)]

\* The loops that add up the bytes of the address and of the data.
SumBytes(bytes) ==
    LET sum[n \in 0 .. Len(bytes)] == IF n = 0 THEN 0 ELSE sum[n - 1] + bytes[n]
    IN  sum[Len(bytes)]

\* Address bytes per record type; the other types keep the old size.
AddressSize(t) == CASE t \in {0, 1, 9} -> 2
                    [] t \in {2, 8}    -> 3
                    [] t \in {3, 7}    -> 4
                    [] OTHER           -> uart.addrSize

KnownTypes  == {0, 1, 2, 3, 5, 7, 8, 9}
StoredTypes == {1, 2, 3}
JumpTypes   == {7, 8, 9}

-----------------------------------------------------------------------------
(* One action per state of the machine. *)

\* udma_uart_readraw: take a character in state s.
Reads(s) == /\ uart.state = s
            /\ uart_rx # << >>
            /\ uart_rx' = Tail(uart_rx)

lChar == Head(uart_rx)
Filled == Append(uart.buf, lChar)

Quiet == UNCHANGED uart_tx

\* Mutated form, for the mutation runs only: a record begins with any character.
MutIdle ==
    /\ Reads("IDLE") /\ Quiet
    /\ uart' = [uart EXCEPT !.state = "RECORD_TYPE"]
    /\ gStopUartMsgFlg' = TRUE /\ gStopI2CBootLoaderFlg' = TRUE
    /\ UNCHANGED <<gStopUartBootLoaderFlg, loaded, entry>>

Idle ==
    /\ Reads("IDLE") /\ Quiet
    /\ IF lChar = CharS
       THEN /\ uart' = [uart EXCEPT !.state = "RECORD_TYPE"]
            /\ gStopUartMsgFlg' = TRUE
            /\ gStopI2CBootLoaderFlg' = TRUE
            /\ UNCHANGED <<gStopUartBootLoaderFlg, loaded, entry>>
       ELSE UNCHANGED <<uart, shared>>

\* An unknown type leaves the machine here.
RecordType ==
    /\ Reads("RECORD_TYPE") /\ Quiet
    /\ uart' = IF lChar \in KnownTypes
               THEN [uart EXCEPT !.type = lChar, !.addrSize = AddressSize(lChar),
                                 !.state = "COUNT", !.buf = << >>, !.chk = 0]
               ELSE [uart EXCEPT !.type = lChar]
    /\ UNCHANGED shared

\* Mutated form, for the mutation runs only: a signed difference.
MutDataCount(total) == total - uart.addrSize - 1

\* gsDataCountInBytes is an unsigned 16-bit difference: a count too small for
\* the address and the checksum wraps to a very large one.
DataCount(total) == (total - uart.addrSize - 1) % UINT16

Count ==
    /\ Reads("COUNT") /\ Quiet
    /\ uart' = IF Len(Filled) < 2 THEN [uart EXCEPT !.buf = Filled]
               ELSE LET total == atoh(Filled)[1]
                    IN  [uart EXCEPT !.dataCount = DataCount(total),
                                     !.chk = uart.chk + total,
                                     !.buf = << >>, !.state = "ADDRESS"]
    /\ UNCHANGED shared

\* Type 5 has no successor state.
Address ==
    /\ Reads("ADDRESS") /\ Quiet
    /\ uart' = IF Len(Filled) < 2 * uart.addrSize THEN [uart EXCEPT !.buf = Filled]
               ELSE [uart EXCEPT !.address = atoh(Filled),
                                 !.chk = (uart.chk + SumBytes(atoh(Filled))) % UINT16,
                                 !.buf = << >>, !.rxd = 0, !.data = << >>,
                                 !.state = CASE uart.type \in {0} \cup StoredTypes -> "DATA"
                                             [] uart.type \in JumpTypes -> "CRC"
                                             [] OTHER -> "ADDRESS"]
    /\ UNCHANGED shared

\* Mutated form: one character too few.
MutDataDone(rxd) == rxd + 1 >= 2 * uart.dataCount

DataDone(rxd) == rxd >= 2 * uart.dataCount

\* The data count is compared after the character is stored, so a record
\* without data still takes one.
Data ==
    /\ Reads("DATA") /\ Quiet
    /\ LET whole == Len(Filled) = 2
           data  == IF whole THEN uart.data \o atoh(Filled) ELSE uart.data
           rxd   == (uart.rxd + 1) % UINT16
       IN  uart' = IF DataDone(rxd)
                   THEN [uart EXCEPT !.data = data, !.buf = << >>, !.rxd = 0,
                                     !.chk = (uart.chk + SumBytes(data)) % UINT16,
                                     !.state = "CRC"]
                   ELSE [uart EXCEPT !.data = data, !.rxd = rxd,
                                     !.buf = IF whole THEN << >> ELSE Filled]
    /\ UNCHANGED shared

\* Mutated form: the answer is OK whatever the checksum.
MutReply(ok) == uart_tx' = [text |-> "OK", left |-> IF ok THEN 4 ELSE 25]

\* sendUartOKorNotOKFrame, with the characters that block the ROM: "OK\r\n",
\* or the debug text and "NOT OK\r\n".
Reply(ok) == uart_tx' = IF ok THEN [text |-> "OK", left |-> 4]
                              ELSE [text |-> "NOT OK", left |-> 25]

\* The complement of the low byte of the sum.
Complement(sum) == 255 - (sum % 256)

\* Mutated form: the checksum is computed but not compared.
MutChecksumOK(crc) == crc \in 0 .. 255

\* Mutated form: the checksum of a jump record is not compared.
MutJumpUnchecked(crc) == uart.type \notin JumpTypes => Complement(uart.chk) = crc

ChecksumOK(crc) == Complement(uart.chk) = crc

Crc ==
    /\ Reads("CRC")
    /\ IF Len(Filled) < 2
       THEN /\ uart' = [uart EXCEPT !.buf = Filled]
            /\ Quiet /\ UNCHANGED shared
       ELSE LET ok  == ChecksumOK(atoh(Filled)[1])
                act == ok /\ ~IsZero(uart.address)
            IN  /\ uart' = [uart EXCEPT !.chk = Complement(uart.chk), !.buf = << >>,
                                        !.data = << >>, !.state = "TERMINATION"]
                /\ UNCHANGED flags
                /\ \/ /\ act /\ uart.type \in JumpTypes
                      /\ jump_to_address(uart.address) /\ Quiet
                   \/ /\ act /\ uart.type \in StoredTypes
                      /\ memcpy(uart.address, uart.data) /\ Reply(TRUE)
                   \/ /\ ~act \/ uart.type \notin JumpTypes \cup StoredTypes
                      /\ UNCHANGED <<loaded, entry>> /\ Reply(ok)

\* Any character ends the record.  gsDataCountInBytes keeps its value.
Termination ==
    /\ Reads("TERMINATION") /\ Quiet
    /\ uart' = [Cleared EXCEPT !.dataCount = uart.dataCount]
    /\ UNCHANGED shared

NoCharacter == uart_rx = << >> /\ UNCHANGED <<uartvars, shared>>

processUartProtocolFrames ==
    Idle \/ RecordType \/ Count \/ Address \/ Data \/ Crc \/ Termination \/ NoCharacter
=============================================================================

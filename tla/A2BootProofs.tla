---------------------------- MODULE A2BootProofs ----------------------------
(***************************************************************************)
(* The two loaders of the boot ROM, for every image and every list of      *)
(* frames.  They never silence each other, whatever goes wrong on the two  *)
(* wires, and the I2C loader stores exactly the frames that it             *)
(* acknowledges.  With an S-record file, any number of errors in any digit *)
(* does no harm outside the records that were hit; and one error in a      *)
(* digit of an address, the data or a checksum, or in a word on the I2C    *)
(* bus, does none at all: the memory only holds what one host sent, and    *)
(* all of it when the ROM jumps.                                           *)
(***************************************************************************)
EXTENDS SRecordFiles, CommonLemmas, FiniteSetTheorems

\* The register accesses of processI2CProtocolFrames.
I2cLabels == {"I2C", "WITHOUT_CRC", "WITH_CRC", "FRAME", "FLAGS", "DATA"}

-----------------------------------------------------------------------------
(* Types *)

States == {"IDLE", "RECORD_TYPE", "COUNT", "ADDRESS", "DATA", "CRC", "TERMINATION"}
Byte == 0 .. 255
Texts == {"none", "OK", "NOT OK", "BOOTME"}

Fields == {"state", "type", "addrSize", "dataCount", "address", "rxd", "chk", "buf", "data"}

\* Field by field, which is how the provers cope with so large a record.
UartWidths ==
    /\ DOMAIN uart = Fields
    /\ uart.state \in States /\ uart.type \in Chars /\ uart.addrSize \in {0, 2, 3, 4}
    /\ uart.dataCount \in Uint16 /\ uart.rxd \in Uint16 /\ uart.chk \in Uint16
    /\ uart.address \in Seq(Byte) /\ uart.data \in Seq(Byte) /\ uart.buf \in Seq(Chars)

\* What may be in the I2C FIFO.
Broken == Noise(<<254>>)
Words == {Broken} \cup {FrameWords(Frames[k])[i] : k \in DOMAIN Frames, i \in 1 .. 3}

HostAts == {"START", "AWAIT_YES", "SEND", "AWAIT_ACK", "AWAIT_EMPTY"}
Modes == {"CHECK_WITHOUT_CRC", "CHECK_WITH_CRC"}

RomType ==
    /\ gStopUartMsgFlg \in BOOLEAN /\ gStopUartBootLoaderFlg \in BOOLEAN
    /\ gStopI2CBootLoaderFlg \in BOOLEAN /\ gUseCRCFlg \in BOOLEAN
    /\ pc \in {"RESET", "START", "FLASH", "LOOP", "I2C_GATE", "I2C", "WITHOUT_CRC",
               "WITH_CRC", "FRAME", "FLAGS", "DATA", "TICK"}

\* In state COUNT nothing has been added to the checksum yet.
LoaderType ==
    /\ UartWidths
    /\ uart.state = "COUNT" => uart.chk = 0
    /\ uart_rx \in Seq(Chars) /\ Len(uart_rx) <= RX_DEPTH
    /\ uart_tx \in [text : Texts, left : Nat]

ScriptType ==
    /\ DOMAIN script = {"line", "out", "inbox"}
    /\ script.line \in Nat \ {0} /\ script.out \in Seq(Chars) /\ script.inbox \in Seq(Texts)

LineType == LoaderType /\ ScriptType

MailType ==
    /\ msg_i2c_apb \in [data : HostMessages \cup {"none"}, new : BOOLEAN]
    /\ msg_apb_i2c \in [data : RomMessages \cup {"none"}, new : BOOLEAN]

BufferType ==
    /\ fifo_i2c_apb \in Seq(Words) /\ rxbuf \in Seq(Words) /\ rxlen \in 0 .. Len(rxbuf)
    /\ pc = "DATA" => fifo_i2c_apb # << >>

HostType ==
    /\ DOMAIN host = {"at", "mode", "frame", "word"}
    /\ host.at \in HostAts /\ host.mode \in Modes \cup {"none"}
    /\ host.frame \in Nat \ {0} /\ host.word \in 1 .. 4

BusType == MailType /\ BufferType /\ HostType

BootType == RomType /\ LineType /\ BusType

-----------------------------------------------------------------------------
(* The operators of the UART loader *)

\* A non-empty set of positive numbers with a bound has a largest one.
LEMMA MaxFacts ==
  ASSUME NEW n \in Nat, NEW S \in SUBSET (1 .. n), S # {}
  PROVE  Max(S) \in S /\ \A y \in S : Max(S) >= y
<1> DEFINE P == {m \in Nat : \A T \in SUBSET (1 .. m) :
                    T # {} => \E x \in T : \A y \in T : x >= y}
<1>1. 0 \in P
  <2>1. \A T \in SUBSET (1 .. 0) : T = {}
    OBVIOUS
  <2> QED BY <2>1
<1>2. ASSUME NEW m \in P PROVE m + 1 \in P
  <2> SUFFICES ASSUME NEW T \in SUBSET (1 .. m + 1), T # {}
               PROVE  \E x \in T : \A y \in T : x >= y
    OBVIOUS
  <2>1. CASE m + 1 \in T
    BY <2>1
  <2>2. CASE m + 1 \notin T
    <3>1. T \in SUBSET (1 .. m)
      BY <2>2
    <3> QED BY <3>1
  <2> QED BY <2>1, <2>2
<1>3. P \subseteq Nat
  OBVIOUS
<1>4. P = Nat
  <2> HIDE DEF P
  <2> QED BY <1>1, <1>2, <1>3, SetInduction
<1>5. \E x \in S : \A y \in S : x >= y
  BY <1>4
<1> QED BY <1>5 DEF Max

\* atoh: what becomes of a single character.
LEMMA NibbleFacts ==
  ASSUME NEW s \in Seq(Chars), NEW i \in Int, i <= Len(s)
  PROVE  /\ Nibble(s, i) \in 0 .. 15
         /\ i >= 1 /\ s[i] < 16 => Nibble(s, i) = s[i]
<1> DEFINE hex == {k \in 1 .. i : s[k] < 16}
<1>1. \A k \in 1 .. i : s[k] \in Chars
  OBVIOUS
<1>2. CASE hex = {}
  <2>1. Nibble(s, i) = 0
    BY <1>2 DEF Nibble
  <2>2. ASSUME i >= 1, s[i] < 16 PROVE FALSE
    <3>1. i \in hex
      BY <2>2
    <3> QED BY <3>1, <1>2
  <2> QED BY <2>1, <2>2
<1>3. CASE hex # {}
  <2>1. i \in Nat
    BY <1>3
  <2>2. hex \in SUBSET (1 .. i)
    OBVIOUS
  <2>3. Max(hex) \in hex /\ \A y \in hex : Max(hex) >= y
    <3> HIDE DEF hex
    <3> QED BY <1>3, <2>1, <2>2, MaxFacts
  <2>4. Nibble(s, i) = s[Max(hex)]
    BY <1>3, Zenon DEF Nibble
  <2>5. Nibble(s, i) \in 0 .. 15
    BY <1>1, <2>3, <2>4, SMTT(30) DEF Chars, CharLF
  <2>6. ASSUME i >= 1, s[i] < 16 PROVE Nibble(s, i) = s[i]
    <3>1. i \in hex
      BY <2>1, <2>6
    <3>2. Max(hex) = i
      BY <2>1, <2>3, <3>1
    <3> QED BY <2>4, <3>2
  <2> QED BY <2>5, <2>6
<1> QED BY <1>2, <1>3

\* atoh yields bytes, one for every two characters begun.
LEMMA AtohType ==
  ASSUME NEW s \in Seq(Chars)
  PROVE  /\ atoh(s) \in Seq(Byte)
         /\ Len(s) >= 2 => atoh(s)[1] \in Byte
<1> DEFINE odd == Len(s) % 2
           n == (Len(s) + odd) \div 2
<1>1. Len(s) \in Nat /\ odd \in {0, 1} /\ n \in Nat /\ 2 * n = Len(s) + odd
  OBVIOUS
<1> HIDE DEF n, odd
<1>2. ASSUME NEW b \in 1 .. n
      PROVE  16 * Nibble(s, 2 * b - 1 - odd) + Nibble(s, 2 * b - odd) \in Byte
  <2>1. /\ 2 * b - 1 - odd \in Int /\ 2 * b - 1 - odd <= Len(s)
        /\ 2 * b - odd \in Int /\ 2 * b - odd <= Len(s)
    BY <1>1
  <2> DEFINE x == Nibble(s, 2 * b - 1 - odd)
             y == Nibble(s, 2 * b - odd)
  <2>2. x \in 0 .. 15 /\ y \in 0 .. 15
    BY <2>1, NibbleFacts
  <2> HIDE DEF x, y
  <2>3. 16 * x + y \in Byte
    BY <2>2 DEF Byte
  <2> QED BY <2>3 DEF x, y
<1>3. atoh(s) = [b \in 1 .. n |-> 16 * Nibble(s, 2 * b - 1 - odd) + Nibble(s, 2 * b - odd)]
  BY DEF atoh, n, odd
<1>4. ASSUME Len(s) >= 2 PROVE 1 \in 1 .. n
  BY <1>1, <1>4
<1>5. atoh(s) \in Seq(Byte)
  <2> DEFINE f(b) == 16 * Nibble(s, 2 * b - 1 - odd) + Nibble(s, 2 * b - odd)
  <2>1. \A b \in 1 .. n : f(b) \in Byte
    BY <1>2
  <2>2. atoh(s) = [b \in 1 .. n |-> f(b)]
    BY <1>3
  <2> HIDE DEF f
  <2> QED BY <1>1, <2>1, <2>2
<1>6. ASSUME Len(s) >= 2 PROVE atoh(s)[1] \in Byte
  <2>1. 1 \in 1 .. n
    BY <1>4, <1>6
  <2>2. atoh(s)[1] = 16 * Nibble(s, 2 * 1 - 1 - odd) + Nibble(s, 2 * 1 - odd)
    BY <1>3, <2>1
  <2> QED BY <1>2, <2>1, <2>2
<1> QED BY <1>5, <1>6

\* An even number of hex digits is read two by two.
LEMMA AtohEven ==
  ASSUME NEW s \in Seq(Chars), NEW m \in Nat, Len(s) = 2 * m,
         \A i \in 1 .. Len(s) : s[i] < 16
  PROVE  atoh(s) = [b \in 1 .. m |-> 16 * s[2 * b - 1] + s[2 * b]]
<1>1. Len(s) % 2 = 0 /\ (Len(s) + 0) \div 2 = m
  OBVIOUS
<1>2. atoh(s) = [b \in 1 .. m |-> 16 * Nibble(s, 2 * b - 1 - 0) + Nibble(s, 2 * b - 0)]
  BY <1>1 DEF atoh
<1>3. ASSUME NEW b \in 1 .. m
      PROVE  Nibble(s, 2 * b - 1 - 0) = s[2 * b - 1] /\ Nibble(s, 2 * b - 0) = s[2 * b]
  <2>1. 2 * b - 1 \in 1 .. Len(s) /\ 2 * b \in 1 .. Len(s)
    OBVIOUS
  <2>2. Nibble(s, 2 * b - 1) = s[2 * b - 1] /\ Nibble(s, 2 * b) = s[2 * b]
    BY <2>1, NibbleFacts
  <2> QED BY <2>2
<1> QED BY <1>2, <1>3

\* A sum of bytes grows by one byte after the other.
LEMMA SumSteps ==
  ASSUME NEW s \in Seq(Byte)
  PROVE  \E c : /\ SumBytes(s) = c[Len(s)] /\ c[0] = 0
                /\ \A k \in Nat : k <= Len(s) => c[k] \in Nat
                /\ \A k \in 1 .. Len(s) : c[k] = c[k - 1] + s[k]
<1> DEFINE n == Len(s)
           G == [x \in Nat \X Nat |-> IF x[2] \in 1 .. n THEN x[1] + s[x[2]] ELSE 0]
           Sums(f) == f = [k \in 0 .. n |-> IF k = 0 THEN 0 ELSE f[k - 1] + s[k]]
           c == CHOOSE f : Sums(f)
<1>1. n \in Nat /\ \A k \in 1 .. n : s[k] \in Nat
  <2>1. n \in Nat /\ \A k \in 1 .. n : s[k] \in Byte
    OBVIOUS
  <2>2. Byte \subseteq Nat
    BY DEF Byte
  <2> QED BY <2>1, <2>2
<1>2. G \in [Nat \X Nat -> Nat]
  BY <1>1
<1>3. PICK f : Solves(Nat, 0, G, f)
  <2> HIDE DEF G
  <2> QED BY <1>2, Recursion
<1> DEFINE g == [k \in 0 .. n |-> f[k]]
<1>4. Sums(g)
  <2>1. ASSUME NEW k \in 0 .. n, k # 0 PROVE g[k] = g[k - 1] + s[k]
    <3>1. k - 1 \in Nat /\ (k - 1) + 1 = k /\ k - 1 \in 0 .. n /\ k \in 1 .. n
      BY <2>1, <1>1
    <3>2. f[k] = G[<<f[k - 1], k>>] /\ f[k - 1] \in Nat
      BY <1>3, <3>1 DEF Solves
    <3>3. G[<<f[k - 1], k>>] = f[k - 1] + s[k]
      BY <3>1, <3>2
    <3> QED BY <3>1, <3>2, <3>3
  <2>2. g[0] = 0
    BY <1>1, <1>3 DEF Solves
  <2> QED BY <2>1, <2>2
<1>5. Sums(c)
  BY <1>4, Zenon
<1>6. SumBytes(s) = c[n]
  BY DEF SumBytes
<1> HIDE DEF c
<1> DEFINE P == {k \in Nat : k <= n => c[k] \in Nat}
<1>7. 0 \in P
  BY <1>1, <1>5
<1>8. ASSUME NEW k \in P PROVE k + 1 \in P
  <2>1. ASSUME k + 1 <= n PROVE c[k + 1] \in Nat
    <3>1. c[k + 1] = c[k] + s[k + 1]
      BY <1>1, <1>5, <2>1
    <3> QED BY <1>1, <2>1, <3>1
  <2> QED BY <2>1
<1>9. P \subseteq Nat
  OBVIOUS
<1>10. P = Nat
  <2> HIDE DEF P
  <2> QED BY <1>7, <1>8, <1>9, SetInduction
<1>11. c[0] = 0
  BY <1>1, <1>5
<1>12. ASSUME NEW k \in 1 .. n PROVE c[k] = c[k - 1] + s[k]
  BY <1>1, <1>5
<1> QED BY <1>6, <1>10, <1>11, <1>12

\* The sum of bytes is a number, and no bytes add up to 0.
LEMMA SumType ==
  ASSUME NEW s \in Seq(Byte)
  PROVE  SumBytes(s) \in Nat /\ (Len(s) = 0 => SumBytes(s) = 0)
<1>1. PICK c : /\ SumBytes(s) = c[Len(s)] /\ c[0] = 0
               /\ \A k \in Nat : k <= Len(s) => c[k] \in Nat
  BY SumSteps
<1>2. Len(s) \in Nat /\ Len(s) <= Len(s)
  OBVIOUS
<1> QED BY <1>1, <1>2

\* What one byte makes of the difference of two sums.
LEMMA SumChange ==
  ASSUME NEW s \in Seq(Byte), NEW t \in Seq(Byte), Len(t) = Len(s), NEW j \in Int,
         NEW delta \in Int,
         \A k \in 1 .. Len(s) : t[k] = s[k] + (IF k = j THEN delta ELSE 0)
  PROVE  SumBytes(t) = SumBytes(s) + (IF j \in 1 .. Len(s) THEN delta ELSE 0)
<1> DEFINE n == Len(s)
<1>1. PICK c : /\ SumBytes(s) = c[n] /\ c[0] = 0
               /\ \A k \in Nat : k <= n => c[k] \in Nat
               /\ \A k \in 1 .. n : c[k] = c[k - 1] + s[k]
  BY SumSteps
<1>2. PICK e : /\ SumBytes(t) = e[n] /\ e[0] = 0
               /\ \A k \in Nat : k <= n => e[k] \in Nat
               /\ \A k \in 1 .. n : e[k] = e[k - 1] + t[k]
  BY SumSteps
<1>3. /\ n \in Nat /\ \A k \in 1 .. n : s[k] \in Nat
      /\ \A k \in 1 .. n : t[k] = s[k] + (IF k = j THEN delta ELSE 0)
  <2>1. n \in Nat /\ \A k \in 1 .. n : s[k] \in Byte
    OBVIOUS
  <2>2. Byte \subseteq Nat
    BY DEF Byte
  <2>3. \A k \in 1 .. n : s[k] \in Nat
    BY <2>1, <2>2
  <2> QED BY <2>1, <2>3, Zenon
<1> HIDE DEF n
<1> DEFINE P == {k \in Nat : k <= n => e[k] = c[k] + (IF j \in 1 .. k THEN delta ELSE 0)}
<1>4. 0 \in P
  <2>1. j \notin 1 .. 0 /\ 0 = 0 + 0
    OBVIOUS
  <2>2. e[0] = c[0] + (IF j \in 1 .. 0 THEN delta ELSE 0)
    BY <1>1, <1>2, <2>1, Zenon
  <2> QED BY <2>2
<1>5. ASSUME NEW k \in P PROVE k + 1 \in P
  <2>1. ASSUME k + 1 <= n
        PROVE  e[k + 1] = c[k + 1] + (IF j \in 1 .. k + 1 THEN delta ELSE 0)
    <3>1. k \in Nat /\ k + 1 \in 1 .. n /\ k <= n /\ (k + 1) - 1 = k
      BY <1>3, <2>1
    <3>2. /\ c[k + 1] = c[k] + s[k + 1] /\ e[k + 1] = e[k] + t[k + 1]
          /\ c[k] \in Nat /\ e[k] \in Nat /\ s[k + 1] \in Nat
          /\ t[k + 1] = s[k + 1] + (IF k + 1 = j THEN delta ELSE 0)
      BY <1>1, <1>2, <1>3, <3>1
    <3>3. e[k] = c[k] + (IF j \in 1 .. k THEN delta ELSE 0)
      BY <1>5, <3>1
    <3>4. CASE j = k + 1
      <4>1. j \notin 1 .. k /\ j \in 1 .. k + 1
        BY <3>1, <3>4
      <4> QED BY <3>2, <3>3, <3>4, <4>1
    <3>5. CASE j # k + 1
      <4>1. j \in 1 .. k <=> j \in 1 .. k + 1
        BY <3>1, <3>5
      <4> QED BY <3>2, <3>3, <3>5, <4>1
    <3> QED BY <3>4, <3>5
  <2> QED BY <2>1
<1>6. P \subseteq Nat
  OBVIOUS
<1>7. P = Nat
  <2> HIDE DEF P
  <2> QED BY <1>4, <1>5, <1>6, SetInduction
<1> QED BY <1>1, <1>2, <1>3, <1>7 DEF n

-----------------------------------------------------------------------------
(* Type correctness *)

\* The counters are numbers, and a remainder fits into one.
LEMMA Uint16Facts ==
  /\ UINT16 \in Nat /\ UINT16 > 255
  /\ \A x \in Uint16 : x \in Nat /\ x < UINT16
  /\ \A x \in Int : 0 <= x /\ x < UINT16 => x \in Uint16
<1>1. UINT16 \in Nat /\ UINT16 > 255
  BY DEF UINT16
<1>2. \A x \in Uint16 : x \in Nat /\ x < UINT16
  BY <1>1 DEF Uint16
<1>3. \A x \in Int : 0 <= x /\ x < UINT16 => x \in Uint16
  BY <1>1 DEF Uint16
<1> QED BY <1>1, <1>2, <1>3

LEMMA Uint16Mod == ASSUME NEW x \in Int PROVE x % UINT16 \in Uint16
<1>1. x % UINT16 \in Int /\ 0 <= x % UINT16 /\ x % UINT16 < UINT16
  BY Uint16Facts
<1> QED BY <1>1, Uint16Facts

LEMMA InitType == Init => BootType
<1> SUFFICES ASSUME Init PROVE BootType
  OBVIOUS
<1>1. RomType
  BY DEF Init, BootInit, I2cInit, RomType
<1>2. LineType
  <2>1. UartWidths /\ uart.state # "COUNT"
    <3>1. <<0>> \in Seq(Byte) /\ << >> \in Seq(Byte) /\ << >> \in Seq(Chars)
      BY DEF Byte
    <3>2. 0 \in Uint16
      BY Uint16Facts
    <3> QED BY <3>1, <3>2 DEF Init, UartInit, Cleared, UartWidths, Fields, States, Chars, CharLF
  <2>2. uart_rx \in Seq(Chars) /\ Len(uart_rx) <= RX_DEPTH
    BY DEF Init, UartInit, RX_DEPTH
  <2>3. uart_tx \in [text : Texts, left : Nat]
    BY DEF Init, UartInit, Texts
  <2>4. ScriptType
    BY DEF Init, ScriptType
  <2> QED BY <2>1, <2>2, <2>3, <2>4 DEF LineType, LoaderType
<1>3. BusType
  BY DEF Init, I2cInit, BusType, MailType, BufferType, HostType, HostAts
<1> QED BY <1>1, <1>2, <1>3 DEF BootType

\* udma_uart_readraw takes a character and leaves the rest.
LEMMA ReadsTyped ==
  ASSUME uart_rx \in Seq(Chars), Len(uart_rx) <= RX_DEPTH, NEW s, Reads(s)
  PROVE  /\ lChar \in Chars /\ uart.state = s
         /\ uart_rx' \in Seq(Chars) /\ Len(uart_rx') <= RX_DEPTH
  BY DEF Reads, lChar, RX_DEPTH

LEMMA FilledTyped ==
  ASSUME UartWidths, lChar \in Chars
  PROVE  /\ Filled \in Seq(Chars) /\ Len(Filled) = Len(uart.buf) + 1
         /\ uart.buf \in Seq(Chars)
<1>1. uart.buf \in Seq(Chars)
  BY DEF UartWidths, Fields
<1> QED BY <1>1 DEF Filled

LEMMA AddressSizeTyped ==
  ASSUME UartWidths, NEW t PROVE AddressSize(t) \in {0, 2, 3, 4}
  BY DEF UartWidths, Fields, AddressSize

\* What the S-record machine does in one call keeps the widths of its variables.
LEMMA UartTyped ==
  ASSUME LoaderType, processUartProtocolFrames
  PROVE  LoaderType'
<1>1. UartWidths /\ uart_rx \in Seq(Chars) /\ Len(uart_rx) <= RX_DEPTH
  BY DEF LoaderType
<1>2. ASSUME NEW s, Reads(s), Quiet, UartWidths', uart'.state = "COUNT" => uart'.chk = 0
      PROVE  LoaderType'
  BY <1>1, <1>2, ReadsTyped DEF LoaderType, Quiet
<1>3. CASE Idle
  <2>2. UartWidths' /\ (uart'.state = "COUNT" => uart'.chk = 0)
    BY <1>3, <1>1 DEF Idle, UartWidths, Fields, States, Reads
  <2> QED BY <1>2, <1>3, <2>2 DEF Idle
<1>4. CASE RecordType
  <2>1. lChar \in Chars /\ AddressSize(lChar) \in {0, 2, 3, 4}
    BY <1>1, <1>4, ReadsTyped, AddressSizeTyped DEF RecordType
  <2> DEFINE size == AddressSize(lChar)
  <2>2. /\ uart.state = "RECORD_TYPE"
        /\ \/ uart' = [uart EXCEPT !.type = lChar, !.addrSize = size,
                                   !.state = "COUNT", !.buf = << >>, !.chk = 0]
           \/ uart' = [uart EXCEPT !.type = lChar]
    BY <1>4 DEF RecordType, Reads
  <2>3. 0 \in Uint16
    BY Uint16Facts
  <2> HIDE DEF size
  <2>4. CASE uart' = [uart EXCEPT !.type = lChar, !.addrSize = size,
                                  !.state = "COUNT", !.buf = << >>, !.chk = 0]
    <3>1. UartWidths' /\ uart'.chk = 0
      BY <1>1, <2>1, <2>3, <2>4 DEF UartWidths, Fields, States, size
    <3> QED BY <1>2, <1>4, <3>1 DEF RecordType
  <2>5. CASE uart' = [uart EXCEPT !.type = lChar]
    <3>1. UartWidths' /\ uart'.state # "COUNT"
      BY <1>1, <2>1, <2>2, <2>5 DEF UartWidths, Fields
    <3> QED BY <1>2, <1>4, <3>1 DEF RecordType
  <2> QED BY <2>2, <2>4, <2>5
<1>5. CASE Count
  <2>1. lChar \in Chars /\ Filled \in Seq(Chars) /\ Len(Filled) \in Nat
    BY <1>1, <1>5, ReadsTyped, FilledTyped DEF Count
  <2>2. CASE Len(Filled) < 2
    <3>1. uart' = [uart EXCEPT !.buf = Filled]
      BY <1>5, <2>2 DEF Count
    <3>2. UartWidths' /\ (uart'.state = "COUNT" => uart'.chk = 0)
      BY <1>1, <2>1, <3>1 DEF UartWidths, Fields, LoaderType
    <3> QED BY <1>2, <1>5, <3>2 DEF Count
  <2>3. CASE ~(Len(Filled) < 2)
    <3> DEFINE total == atoh(Filled)[1]
    <3>1. total \in 0 .. 255
      BY <2>1, <2>3, AtohType DEF Byte
    <3>2. uart' = [uart EXCEPT !.dataCount = DataCount(total), !.chk = uart.chk + total,
                               !.buf = << >>, !.state = "ADDRESS"]
      BY <1>5, <2>3 DEF Count
    <3> HIDE DEF total
    <3>3. uart.chk = 0 /\ uart.addrSize \in {0, 2, 3, 4}
      BY <1>1, <1>5 DEF Count, Reads, LoaderType, UartWidths, Fields
    <3>4. DataCount(total) \in Uint16 /\ uart.chk + total \in Uint16
      <4>1. total - uart.addrSize - 1 \in Int /\ uart.chk + total \in Int
            /\ 0 <= uart.chk + total /\ uart.chk + total <= 255
        BY <3>1, <3>3
      <4> QED BY <4>1, Uint16Mod, Uint16Facts DEF DataCount
    <3>5. UartWidths' /\ uart'.state = "ADDRESS"
      BY <1>1, <3>1, <3>2, <3>3, <3>4 DEF UartWidths, Fields, States
    <3> QED BY <1>2, <1>5, <3>5 DEF Count
  <2> QED BY <2>2, <2>3
<1>6. CASE Address
  <2>1. lChar \in Chars /\ Filled \in Seq(Chars) /\ uart.state = "ADDRESS"
    BY <1>1, <1>6, ReadsTyped, FilledTyped DEF Address
  <2>2. CASE Len(Filled) < 2 * uart.addrSize
    <3>1. uart' = [uart EXCEPT !.buf = Filled]
      BY <1>6, <2>2 DEF Address
    <3>2. UartWidths' /\ uart'.state # "COUNT"
      BY <1>1, <2>1, <3>1 DEF UartWidths, Fields
    <3> QED BY <1>2, <1>6, <3>2 DEF Address
  <2>3. CASE ~(Len(Filled) < 2 * uart.addrSize)
    <3> DEFINE address == atoh(Filled)
               chk == (uart.chk + SumBytes(atoh(Filled))) % UINT16
               state == CASE uart.type \in {0} \cup StoredTypes -> "DATA"
                          [] uart.type \in JumpTypes -> "CRC"
                          [] OTHER -> "ADDRESS"
    <3>1. address \in Seq(Byte) /\ SumBytes(address) \in Nat
      BY <2>1, AtohType, SumType
    <3>2. chk \in Uint16 /\ 0 \in Uint16
      <4>1. uart.chk + SumBytes(address) \in Int
        BY <1>1, <3>1, Uint16Facts DEF UartWidths
      <4> QED BY <4>1, Uint16Mod, Uint16Facts
    <3>3. state \in {"DATA", "CRC", "ADDRESS"}
      BY DEF StoredTypes, JumpTypes
    <3>4. uart' = [uart EXCEPT !.address = address, !.chk = chk, !.buf = << >>, !.rxd = 0,
                               !.data = << >>, !.state = state]
      BY <1>6, <2>3 DEF Address
    <3> HIDE DEF address, chk, state
    <3>5. UartWidths' /\ uart'.state # "COUNT"
      BY <1>1, <3>1, <3>2, <3>3, <3>4 DEF UartWidths, Fields, States
    <3> QED BY <1>2, <1>6, <3>5 DEF Address
  <2> QED BY <2>2, <2>3
<1>7. CASE Data
  <2>1. lChar \in Chars /\ Filled \in Seq(Chars) /\ uart.state = "DATA"
    BY <1>1, <1>7, ReadsTyped, FilledTyped DEF Data
  <2> DEFINE whole == Len(Filled) = 2
             data == IF whole THEN uart.data \o atoh(Filled) ELSE uart.data
             rxd == (uart.rxd + 1) % UINT16
             chk == (uart.chk + SumBytes(data)) % UINT16
             buf == IF whole THEN << >> ELSE Filled
  <2>2. uart.data \in Seq(Byte) /\ atoh(Filled) \in Seq(Byte)
    BY <1>1, <2>1, AtohType DEF UartWidths, Fields
  <2>3. data \in Seq(Byte) /\ buf \in Seq(Chars)
    BY <2>1, <2>2
  <2>4. rxd \in Uint16 /\ 0 \in Uint16
    <3>1. uart.rxd + 1 \in Int
      BY <1>1, Uint16Facts DEF UartWidths
    <3> QED BY <3>1, Uint16Mod, Uint16Facts
  <2>5. SumBytes(data) \in Nat
    BY <2>3, SumType
  <2>6. chk \in Uint16
    <3>1. uart.chk + SumBytes(data) \in Int
      BY <1>1, <2>5, Uint16Facts DEF UartWidths
    <3> QED BY <3>1, Uint16Mod
  <2>7. uart' = IF DataDone(rxd)
                THEN [uart EXCEPT !.data = data, !.buf = << >>, !.rxd = 0, !.chk = chk,
                                  !.state = "CRC"]
                ELSE [uart EXCEPT !.data = data, !.rxd = rxd, !.buf = buf]
    BY <1>7 DEF Data
  <2> HIDE DEF whole, data, rxd, chk, buf
  <2>8. UartWidths' /\ uart'.state # "COUNT"
    BY <1>1, <2>1, <2>3, <2>4, <2>6, <2>7 DEF UartWidths, Fields, States
  <2> QED BY <1>2, <1>7, <2>8 DEF Data
<1>8. CASE Crc
  <2>1. lChar \in Chars /\ Filled \in Seq(Chars) /\ uart.state = "CRC"
    BY <1>1, <1>8, ReadsTyped, FilledTyped DEF Crc
  <2>2. CASE Len(Filled) < 2
    <3>1. uart' = [uart EXCEPT !.buf = Filled] /\ Quiet
      BY <1>8, <2>2 DEF Crc
    <3>2. UartWidths' /\ uart'.state # "COUNT"
      BY <1>1, <2>1, <3>1 DEF UartWidths, Fields
    <3> QED BY <1>2, <1>8, <3>1, <3>2 DEF Crc
  <2>3. CASE ~(Len(Filled) < 2)
    <3>1. /\ uart' = [uart EXCEPT !.chk = Complement(uart.chk), !.buf = << >>,
                                  !.data = << >>, !.state = "TERMINATION"]
          /\ Quiet \/ Reply(TRUE) \/ Reply(ChecksumOK(atoh(Filled)[1]))
      BY <1>8, <2>3 DEF Crc
    <3>2. Complement(uart.chk) \in Uint16
      <4>1. uart.chk \in Nat
        BY <1>1, Uint16Facts DEF UartWidths
      <4>2. Complement(uart.chk) \in Int /\ 0 <= Complement(uart.chk)
            /\ Complement(uart.chk) <= 255
        BY <4>1 DEF Complement
      <4> QED BY <4>2, Uint16Facts
    <3>3. UartWidths' /\ uart'.state # "COUNT"
      BY <1>1, <3>1, <3>2 DEF UartWidths, Fields, States
    <3>4. uart_tx' \in [text : Texts, left : Nat]
      <4>1. ASSUME NEW ok, Reply(ok) PROVE uart_tx' \in [text : Texts, left : Nat]
        BY <4>1 DEF Reply, Texts
      <4>2. ASSUME Quiet PROVE uart_tx' \in [text : Texts, left : Nat]
        BY <4>2 DEF Quiet, LoaderType
      <4> QED BY <3>1, <4>1, <4>2
    <3> QED BY <1>1, <1>8, <3>3, <3>4, ReadsTyped DEF Crc, LoaderType
  <2> QED BY <2>2, <2>3
<1>9. CASE Termination
  <2>1. <<0>> \in Seq(Byte) /\ << >> \in Seq(Byte) /\ << >> \in Seq(Chars)
    BY DEF Byte
  <2>2. 0 \in Uint16
    BY Uint16Facts
  <2>3. UartWidths' /\ uart'.state # "COUNT"
    BY <1>1, <1>9, <2>1, <2>2 DEF Termination, Cleared, UartWidths, Fields, States, Chars, CharLF
  <2> QED BY <1>2, <1>9, <2>3 DEF Termination
<1>10. CASE NoCharacter
  BY <1>10 DEF NoCharacter, uartvars, LoaderType, UartWidths
<1> QED
  BY <1>3, <1>4, <1>5, <1>6, <1>7, <1>8, <1>9, <1>10 DEF processUartProtocolFrames

\* The drain loop stores the word it takes behind the words of this frame.
LEMMA ReadDataTyped ==
  ASSUME BusType, ReadData
  PROVE  /\ rxbuf' \in Seq(Words) /\ fifo_i2c_apb' \in Seq(Words)
         /\ rxlen' \in 0 .. Len(rxbuf') /\ rxlen' = rxlen + 1
         /\ \A i \in 1 .. rxlen : rxbuf'[i] = rxbuf[i]
         /\ rxbuf'[rxlen + 1] = fifo_i2c_apb[1]
         /\ fifo_i2c_apb # << >> /\ fifo_i2c_apb' = Tail(fifo_i2c_apb)
<1> DEFINE n == Max2(Len(rxbuf), rxlen + 1)
           f(i) == IF i = rxlen + 1 THEN Head(fifo_i2c_apb) ELSE rxbuf[i]
<1>1. /\ rxbuf \in Seq(Words) /\ fifo_i2c_apb \in Seq(Words) /\ rxlen \in 0 .. Len(rxbuf)
      /\ fifo_i2c_apb # << >> /\ fifo_i2c_apb' = Tail(fifo_i2c_apb) /\ rxlen' = rxlen + 1
      /\ rxbuf' = [i \in 1 .. n |-> f(i)]
  BY DEF BusType, BufferType, ReadData
<1>2. /\ n \in Nat /\ rxlen + 1 \in 1 .. n /\ rxlen \in Nat
      /\ \A i \in 1 .. n : i = rxlen + 1 \/ i \in 1 .. Len(rxbuf)
      /\ n >= rxlen + 1
  BY <1>1 DEF Max2
<1>3. Head(fifo_i2c_apb) \in Words /\ Head(fifo_i2c_apb) = fifo_i2c_apb[1]
  BY <1>1
<1>4. \A i \in 1 .. n : f(i) \in Words
  BY <1>1, <1>2, <1>3
<1>5. f(rxlen + 1) = fifo_i2c_apb[1] /\ \A i \in 1 .. rxlen : f(i) = rxbuf[i]
  BY <1>2, <1>3
<1> HIDE DEF n, f
<1>6. rxbuf' \in Seq(Words) /\ Len(rxbuf') = n
  BY <1>1, <1>2, <1>4
<1>7. fifo_i2c_apb' \in Seq(Words)
  BY <1>1
<1>8. \A i \in 1 .. rxlen : i \in 1 .. n
  BY <1>2
<1> QED BY <1>1, <1>2, <1>5, <1>6, <1>7, <1>8

\* A message register: a write, and the read that clears its status bit.
LEMMA MailFacts ==
  ASSUME NEW D, NEW m \in [data : D, new : BOOLEAN]
  PROVE  /\ [m EXCEPT !.new = FALSE] \in [data : D, new : BOOLEAN]
         /\ [m EXCEPT !.new = FALSE].data = m.data /\ ~[m EXCEPT !.new = FALSE].new
  OBVIOUS

\* The next states of the I2C host, field by field.
LEMMA HostFields ==
  ASSUME DOMAIN host = {"at", "mode", "frame", "word"}, NEW a, NEW m, NEW h
  PROVE  /\ h = [host EXCEPT !.at = a, !.mode = m] =>
               /\ DOMAIN h = {"at", "mode", "frame", "word"} /\ h.at = a /\ h.mode = m
               /\ h.frame = host.frame /\ h.word = host.word
         /\ h = [host EXCEPT !.at = a] =>
               /\ DOMAIN h = {"at", "mode", "frame", "word"} /\ h.at = a
               /\ h.mode = host.mode /\ h.frame = host.frame /\ h.word = host.word
         /\ h = [host EXCEPT !.at = a, !.word = 1] =>
               /\ DOMAIN h = {"at", "mode", "frame", "word"} /\ h.at = a
               /\ h.mode = host.mode /\ h.frame = host.frame /\ h.word = 1
         /\ h = [host EXCEPT !.at = a, !.frame = @ + 1, !.word = 1] =>
               /\ DOMAIN h = {"at", "mode", "frame", "word"} /\ h.at = a
               /\ h.mode = host.mode /\ h.frame = host.frame + 1 /\ h.word = 1
         /\ h = [host EXCEPT !.word = @ + 1] =>
               /\ DOMAIN h = {"at", "mode", "frame", "word"} /\ h.at = host.at
               /\ h.mode = host.mode /\ h.frame = host.frame /\ h.word = host.word + 1
  OBVIOUS

\* Every register access of the I2C loader keeps the types.
LEMMA I2cTyped ==
  ASSUME RomType, BusType, processI2CProtocolFrames, UNCHANGED host
  PROVE  RomType' /\ BusType'
<1>1. CASE Status
  <2>1. RomType'
    BY <1>1 DEF Status, RomType, flags, i2cvars, GoTo
  <2>2. UNCHANGED <<i2cvars, host>> /\ pc' # "DATA"
    BY <1>1 DEF Status, GoTo
  <2>3. MailType' /\ BufferType' /\ HostType'
    BY <2>2 DEF BusType, MailType, BufferType, HostType, i2cvars, mailbox
  <2> QED BY <2>1, <2>3 DEF BusType
<1>2. ASSUME NEW l, NEW m, NEW b \in BOOLEAN, NEW e \in {"WITH_CRC", "FRAME"},
             ReadyCheck(l, m, b, e)
      PROVE  RomType' /\ BusType'
  <2>1. RomType'
    BY <1>2 DEF ReadyCheck, RomType, shared, flags, GoTo
  <2>2. /\ pc' # "DATA" /\ UNCHANGED <<rxbuf, rxlen, fifo_i2c_apb, host>>
        /\ msg_i2c_apb' = [msg_i2c_apb EXCEPT !.new = FALSE]
        /\ msg_apb_i2c' = [data |-> "RSP_YES", new |-> TRUE] \/ UNCHANGED msg_apb_i2c
    BY <1>2 DEF ReadyCheck, GoTo, ReadMessage, hal_set_i2cs_msg_apb_i2c
  <2>3. MailType'
    <3>1. msg_i2c_apb' \in [data : HostMessages \cup {"none"}, new : BOOLEAN]
      BY <2>2, MailFacts DEF BusType, MailType
    <3>2. msg_apb_i2c' \in [data : RomMessages \cup {"none"}, new : BOOLEAN]
      <4> DEFINE D == RomMessages \cup {"none"}
      <4>1. "RSP_YES" \in D
        BY DEF RomMessages
      <4>2. msg_apb_i2c \in [data : D, new : BOOLEAN]
        BY DEF BusType, MailType
      <4> HIDE DEF D
      <4>3. [data |-> "RSP_YES", new |-> TRUE] \in [data : D, new : BOOLEAN]
        BY <4>1
      <4>4. msg_apb_i2c' \in [data : D, new : BOOLEAN]
        BY <2>2, <4>2, <4>3
      <4> QED BY <4>4 DEF D
    <3> QED BY <3>1, <3>2 DEF MailType
  <2>4. BufferType' /\ HostType'
    BY <2>2 DEF BusType, BufferType, HostType
  <2> QED BY <2>1, <2>3, <2>4 DEF BusType
<1>3. CASE CheckWithoutCRC
  BY <1>2, <1>3 DEF CheckWithoutCRC
<1>4. CASE CheckWithCRC
  BY <1>2, <1>4 DEF CheckWithCRC
<1>5. CASE NewFrame
  <2>1. RomType'
    BY <1>5 DEF NewFrame, RomType, shared, flags, GoTo
  <2>2. /\ pc' # "DATA" /\ UNCHANGED <<rxbuf, msg_apb_i2c, fifo_i2c_apb, host>>
        /\ msg_i2c_apb' = [msg_i2c_apb EXCEPT !.new = FALSE] /\ rxlen' = 0
    BY <1>5 DEF NewFrame, GoTo, ReadMessage
  <2>3. MailType'
    BY <2>2, MailFacts DEF BusType, MailType
  <2>4. BufferType' /\ HostType'
    BY <2>2 DEF BusType, BufferType, HostType
  <2> QED BY <2>1, <2>3, <2>4 DEF BusType
<1>6. CASE ReadData
  <2>1. RomType'
    BY <1>6 DEF ReadData, RomType, shared, flags, GoTo
  <2>2. pc' # "DATA" /\ UNCHANGED <<msg_i2c_apb, msg_apb_i2c, host>>
    BY <1>6 DEF ReadData, GoTo
  <2>3. BufferType'
    BY <1>6, <2>2, ReadDataTyped DEF BufferType
  <2>4. MailType' /\ HostType'
    BY <2>2 DEF BusType, MailType, HostType
  <2> QED BY <2>1, <2>3, <2>4 DEF BusType
<1>7. CASE Drain
  <2>1. RomType'
    BY <1>7 DEF Drain, RomType, flags, GoTo
  <2>2. /\ UNCHANGED <<rxbuf, rxlen, msg_i2c_apb, fifo_i2c_apb, host>>
        /\ pc' = "DATA" => fifo_i2c_apb # << >>
    BY <1>7 DEF Drain, GoTo
  <2>3. \/ UNCHANGED msg_apb_i2c
        \/ msg_apb_i2c' = [data |-> "GOOD", new |-> TRUE]
        \/ msg_apb_i2c' = [data |-> "CORRUPTED", new |-> TRUE]
    BY <1>7, Zenon DEF Drain, parseI2CProtocolFrame, hal_set_i2cs_msg_apb_i2c
  <2>4. MailType'
    <3> DEFINE D == RomMessages \cup {"none"}
    <3>1. "GOOD" \in D /\ "CORRUPTED" \in D
      BY DEF RomMessages
    <3>2. msg_apb_i2c \in [data : D, new : BOOLEAN]
      BY DEF BusType, MailType
    <3> HIDE DEF D
    <3>3. /\ [data |-> "GOOD", new |-> TRUE] \in [data : D, new : BOOLEAN]
          /\ [data |-> "CORRUPTED", new |-> TRUE] \in [data : D, new : BOOLEAN]
      BY <3>1
    <3>4. msg_apb_i2c' \in [data : D, new : BOOLEAN]
      BY <2>3, <3>2, <3>3
    <3> QED BY <2>2, <3>4 DEF BusType, MailType, D
  <2>5. BufferType' /\ HostType'
    BY <2>2 DEF BusType, BufferType, HostType
  <2> QED BY <2>1, <2>4, <2>5 DEF BusType
<1> QED
  BY <1>1, <1>3, <1>4, <1>5, <1>6, <1>7 DEF processI2CProtocolFrames

\* A character of a line, corrupted or not, is a character.
LEMMA ReceivedTyped ==
  ASSUME NEW c \in Chars, NEW f, NEW d \in Received(c, f) PROVE d \in Chars
  BY DEF Received, Chars, CharLF

LEMMA CharacterTimeTyped ==
  ASSUME LineType, CharacterTime
  PROVE  LineType'
<1> DEFINE sends == script.out # << >>
           field == Field(Len(Image[script.line - 1]) - Len(script.out) + 1)
<1>1. /\ ScriptType
      /\ uart_rx \in Seq(Chars) /\ Len(uart_rx) <= RX_DEPTH
      /\ uart_tx \in [text : Texts, left : Nat]
  BY DEF LineType, LoaderType
<1>2. /\ UNCHANGED uart
      /\ uart_tx' = [uart_tx EXCEPT !.left = IF @ = 0 THEN 0 ELSE @ - 1]
      /\ script' = [script EXCEPT !.out = IF sends THEN Tail(@) ELSE @,
                                  !.inbox = IF uart_tx.left = 1 THEN Append(@, uart_tx.text) ELSE @]
  BY DEF CharacterTime
<1>3. \/ UNCHANGED uart_rx
      \/ /\ sends
         /\ \E c \in Received(Head(script.out), field) :
              uart_rx' = IF Len(uart_rx) < RX_DEPTH THEN Append(uart_rx, c) ELSE uart_rx
  BY DEF CharacterTime
<1>4. uart_rx' \in Seq(Chars) /\ Len(uart_rx') <= RX_DEPTH
  <2>1. CASE UNCHANGED uart_rx
    BY <1>1, <2>1
  <2>2. CASE ~UNCHANGED uart_rx
    <3> HIDE DEF field
    <3>1. PICK c \in Received(Head(script.out), field) :
              uart_rx' = IF Len(uart_rx) < RX_DEPTH THEN Append(uart_rx, c) ELSE uart_rx
      BY <1>3, <2>2
    <3>2. Head(script.out) \in Chars
      BY <1>1, <1>3, <2>2 DEF ScriptType
    <3>3. c \in Chars
      BY <3>1, <3>2, ReceivedTyped
    <3> QED BY <1>1, <3>1, <3>3 DEF RX_DEPTH
  <2> QED BY <2>1, <2>2
<1>5. uart_tx' \in [text : Texts, left : Nat]
  BY <1>1, <1>2
<1>6. ScriptType'
  <2>1. /\ (IF sends THEN Tail(script.out) ELSE script.out) \in Seq(Chars)
        /\ (IF uart_tx.left = 1 THEN Append(script.inbox, uart_tx.text) ELSE script.inbox)
             \in Seq(Texts)
    BY <1>1 DEF ScriptType
  <2> QED BY <1>1, <1>2, <2>1 DEF ScriptType
<1> QED BY <1>2, <1>4, <1>5, <1>6 DEF LineType, LoaderType, UartWidths

\* serialPort.py: the next line of the image, or nothing.
LEMMA ScriptTyped ==
  ASSUME LineType, ScriptReads
  PROVE  LineType'
<1>1. /\ ScriptType
      /\ UNCHANGED <<uart, uart_rx, uart_tx>> /\ script.inbox # << >>
  BY DEF LineType, ScriptReads, uartvars
<1>2. \/ /\ script.line <= Len(Image)
         /\ script' = [line |-> script.line + 1, out |-> Image[script.line],
                       inbox |-> Tail(script.inbox)]
      \/ script' = [script EXCEPT !.inbox = Tail(@)]
  BY DEF ScriptReads
<1>3. script.line <= Len(Image) => Image[script.line] \in Seq(Chars)
  BY <1>1, BootAssumption DEF ScriptType
<1>4. ScriptType'
  <2>1. Tail(script.inbox) \in Seq(Texts)
    BY <1>1 DEF ScriptType
  <2>2. CASE script' = [script EXCEPT !.inbox = Tail(@)]
    BY <1>1, <2>1, <2>2 DEF ScriptType
  <2>3. CASE ~(script' = [script EXCEPT !.inbox = Tail(@)])
    <3>1. /\ script' = [line |-> script.line + 1, out |-> Image[script.line],
                          inbox |-> Tail(script.inbox)]
          /\ Image[script.line] \in Seq(Chars) /\ script.line \in Nat
      BY <1>1, <1>2, <1>3, <2>3 DEF ScriptType
    <3> QED BY <2>1, <3>1 DEF ScriptType
  <2> QED BY <2>2, <2>3
<1> QED BY <1>1, <1>4 DEF LineType, LoaderType, UartWidths

LEMMA HostTyped ==
  ASSUME BusType, I2cHost
  PROVE  BusType'
<1>0. MailType /\ BufferType /\ HostType
  BY DEF BusType
<1>1. ASSUME NEW next, HostMoves(next)
      PROVE  host' = next /\ UNCHANGED <<pc, rxbuf, rxlen>>
  BY <1>1 DEF HostMoves
<1>2. CASE HostChecks
  <2>1. PICK m \in CheckModes : /\ HostWrites(m)
                                /\ HostMoves([host EXCEPT !.at = "AWAIT_YES", !.mode = m])
                                /\ UNCHANGED <<msg_apb_i2c, fifo_i2c_apb>>
    BY <1>2 DEF HostChecks
  <2>2. m \in Modes /\ m \in HostMessages
    BY BootAssumption DEF Modes, HostMessages
  <2>3. HostType'
    <3>1. /\ DOMAIN host' = {"at", "mode", "frame", "word"} /\ host'.at = "AWAIT_YES"
          /\ host'.mode = m /\ host'.frame = host.frame /\ host'.word = host.word
      <4>1. host' = [host EXCEPT !.at = "AWAIT_YES", !.mode = m]
        BY <1>1, <2>1
      <4> QED BY <1>0, <4>1, HostFields DEF HostType
    <3> QED BY <1>0, <2>2, <3>1 DEF HostType, HostAts
  <2>4. MailType'
    BY <1>0, <2>1, <2>2 DEF MailType, HostWrites
  <2>5. BufferType'
    BY <1>0, <1>1, <2>1 DEF BufferType
  <2> QED BY <2>3, <2>4, <2>5 DEF BusType
<1>3. CASE HostReadsReply
  <2>1. /\ msg_apb_i2c' = [msg_apb_i2c EXCEPT !.new = FALSE]
        /\ UNCHANGED <<msg_i2c_apb, fifo_i2c_apb>>
    BY <1>3 DEF HostReadsReply
  <2>2. \/ HostMoves([host EXCEPT !.at = "SEND"])
        \/ HostMoves([host EXCEPT !.at = "SEND", !.frame = @ + 1, !.word = 1])
        \/ HostMoves([host EXCEPT !.at = "SEND", !.word = 1])
        \/ HostMoves(host)
    BY <1>3, Zenon DEF HostReadsReply
  <2>3. \/ host' = [host EXCEPT !.at = "SEND"]
        \/ host' = [host EXCEPT !.at = "SEND", !.frame = @ + 1, !.word = 1]
        \/ host' = [host EXCEPT !.at = "SEND", !.word = 1]
        \/ host' = host
    BY <2>2, Zenon DEF HostMoves
  <2>4. HostType'
    <3>1. /\ DOMAIN host' = {"at", "mode", "frame", "word"} /\ host'.at \in {"SEND", host.at}
          /\ host'.mode = host.mode /\ host'.frame \in {host.frame, host.frame + 1}
          /\ host'.word \in {1, host.word}
      <4>1. DOMAIN host = {"at", "mode", "frame", "word"}
        BY <1>0 DEF HostType
      <4>2. CASE host' = [host EXCEPT !.at = "SEND"]
        BY <4>1, <4>2, HostFields, Zenon
      <4>3. CASE host' = [host EXCEPT !.at = "SEND", !.frame = @ + 1, !.word = 1]
        BY <4>1, <4>3, HostFields, Zenon
      <4>4. CASE host' = [host EXCEPT !.at = "SEND", !.word = 1]
        BY <4>1, <4>4, HostFields, Zenon
      <4>5. CASE host' = host
        BY <4>1, <4>5, Zenon
      <4> QED BY <2>3, <4>2, <4>3, <4>4, <4>5, Zenon
    <3> QED BY <1>0, <3>1 DEF HostType, HostAts
  <2>5. MailType'
    BY <1>0, <2>1 DEF MailType
  <2>6. UNCHANGED <<pc, rxbuf, rxlen>>
    BY <1>1, <2>2, Zenon
  <2>7. BufferType'
    BY <1>0, <2>1, <2>6 DEF BufferType
  <2> QED BY <2>4, <2>5, <2>7 DEF BusType
<1>4. CASE HostPushes
  <2> DEFINE w == FrameWords(Frames[host.frame])[host.word]
  <2>1. /\ host.frame <= Len(Frames) /\ host.word <= 3
        /\ HostMoves([host EXCEPT !.word = @ + 1]) /\ UNCHANGED <<msg_i2c_apb, msg_apb_i2c>>
        /\ \/ fifo_i2c_apb' = Append(fifo_i2c_apb, w)
           \/ fifo_i2c_apb' = Append(fifo_i2c_apb, Broken)
    BY <1>4 DEF HostPushes, Broken
  <2>2. w \in Words /\ Broken \in Words
    <3>1. host.frame \in DOMAIN Frames /\ host.word \in 1 .. 3
      BY <1>0, <2>1, BootAssumption DEF HostType
    <3> QED BY <3>1 DEF Words
  <2> HIDE DEF w
  <2>3. fifo_i2c_apb' \in Seq(Words) /\ Len(fifo_i2c_apb') = Len(fifo_i2c_apb) + 1
        /\ Len(fifo_i2c_apb) \in Nat
    <3>1. fifo_i2c_apb \in Seq(Words)
      BY <1>0 DEF BufferType
    <3> QED BY <2>1, <2>2, <3>1, SMTT(30)
  <2>4. fifo_i2c_apb' # << >>
    BY <2>3
  <2>5. HostType'
    BY <1>0, <1>1, <2>1 DEF HostType
  <2>6. BufferType'
    BY <1>0, <1>1, <2>1, <2>3, <2>4 DEF BufferType
  <2>7. MailType'
    BY <1>0, <2>1 DEF MailType
  <2> QED BY <2>5, <2>6, <2>7 DEF BusType
<1>5. CASE HostRings
  <2>1. /\ HostWrites("NEW_FRAME") /\ UNCHANGED <<msg_apb_i2c, fifo_i2c_apb>>
        /\ \/ HostMoves([host EXCEPT !.at = "AWAIT_ACK"])
           \/ HostMoves([host EXCEPT !.at = "AWAIT_EMPTY"])
    BY <1>5 DEF HostRings
  <2>2. HostType'
    BY <1>0, <1>1, <2>1 DEF HostType, HostAts
  <2>3. MailType'
    BY <1>0, <2>1 DEF MailType, HostWrites, HostMessages
  <2>4. BufferType'
    BY <1>0, <1>1, <2>1 DEF BufferType
  <2> QED BY <2>2, <2>3, <2>4 DEF BusType
<1>6. CASE HostSeesEmpty
  <2>1. /\ HostMoves([host EXCEPT !.at = "SEND", !.frame = @ + 1, !.word = 1])
        /\ UNCHANGED <<msg_i2c_apb, msg_apb_i2c, fifo_i2c_apb>>
    BY <1>6 DEF HostSeesEmpty, mailbox
  <2>2. HostType'
    <3>1. /\ DOMAIN host' = {"at", "mode", "frame", "word"} /\ host'.at = "SEND"
          /\ host'.mode = host.mode /\ host'.frame = host.frame + 1 /\ host'.word = 1
      <4>1. host' = [host EXCEPT !.at = "SEND", !.frame = @ + 1, !.word = 1]
        BY <1>1, <2>1
      <4> QED BY <1>0, <4>1, HostFields DEF HostType
    <3> QED BY <1>0, <3>1 DEF HostType, HostAts
  <2>3. MailType' /\ BufferType'
    BY <1>0, <1>1, <2>1 DEF MailType, BufferType
  <2> QED BY <2>2, <2>3 DEF BusType
<1> QED BY <1>2, <1>3, <1>4, <1>5, <1>6 DEF I2cHost

LEMMA NextType == BootType /\ [Next]_vars => BootType'
<1> SUFFICES ASSUME BootType, [Next]_vars PROVE BootType'
  OBVIOUS
<1>0. RomType /\ LineType /\ BusType
  BY DEF BootType
<1>1. ASSUME UNCHANGED <<uart, uart_rx, uart_tx, script>> PROVE LineType'
  BY <1>0, <1>1 DEF LineType, LoaderType, UartWidths, ScriptType
<1>2. ASSUME UNCHANGED <<gUseCRCFlg, rxbuf, rxlen, msg_i2c_apb, fifo_i2c_apb, host>>,
             UNCHANGED msg_apb_i2c, pc' # "DATA"
      PROVE  BusType'
  BY <1>0, <1>2 DEF BusType, MailType, BufferType, HostType
<1>3. CASE ReadResetReason
  <2>1. RomType' /\ pc' # "DATA"
    BY <1>0, <1>3 DEF ReadResetReason, RomType, shared, flags, i2cvars
  <2> QED BY <1>1, <1>2, <1>3, <2>1
      DEF ReadResetReason, BootType, uartvars, i2cvars, mailbox, outside
<1>4. CASE Start
  <2>1. RomType' /\ pc' # "DATA"
    BY <1>0, <1>4 DEF Start, RomType, shared, flags, i2cvars
  <2>2. /\ UNCHANGED <<uart, uart_rx, uart_tx, script>>
        /\ UNCHANGED <<gUseCRCFlg, rxbuf, rxlen, msg_i2c_apb, fifo_i2c_apb, host>>
    BY <1>4 DEF Start, uartvars, i2cvars, mailbox, world, outside
  <2>3. \/ UNCHANGED msg_apb_i2c
        \/ msg_apb_i2c' = [data |-> "POR", new |-> TRUE]
        \/ msg_apb_i2c' = [data |-> "WDT", new |-> TRUE]
    BY <1>4 DEF Start, i2cvars, mailbox, hal_set_i2cs_msg_apb_i2c
  <2>4. MailType'
    <3> DEFINE D == RomMessages \cup {"none"}
    <3>1. "POR" \in D /\ "WDT" \in D
      BY DEF RomMessages
    <3>2. msg_apb_i2c \in [data : D, new : BOOLEAN]
      BY <1>0 DEF BusType, MailType
    <3> HIDE DEF D
    <3>3. /\ [data |-> "POR", new |-> TRUE] \in [data : D, new : BOOLEAN]
          /\ [data |-> "WDT", new |-> TRUE] \in [data : D, new : BOOLEAN]
      BY <3>1
    <3>4. msg_apb_i2c' \in [data : D, new : BOOLEAN]
      BY <2>3, <3>2, <3>3
    <3> QED BY <1>0, <2>2, <3>4 DEF BusType, MailType, D
  <2>5. BufferType' /\ HostType'
    BY <1>0, <2>1, <2>2 DEF BusType, BufferType, HostType
  <2> QED BY <1>1, <2>1, <2>2, <2>4, <2>5 DEF BootType, BusType
<1>5. CASE LoopJtag
  <2>1. RomType' /\ pc' # "DATA"
    BY <1>0, <1>5 DEF LoopJtag, RomType, flags, i2cvars
  <2> QED BY <1>1, <1>2, <1>5, <2>1
      DEF LoopJtag, BootType, uartvars, i2cvars, mailbox, world, outside
<1>6. CASE LoopUart
  <2>1. /\ pc' = "I2C_GATE" /\ UNCHANGED script
        /\ UNCHANGED <<gUseCRCFlg, rxbuf, rxlen, msg_i2c_apb, fifo_i2c_apb, host, msg_apb_i2c>>
    BY <1>6 DEF LoopUart, i2cvars, mailbox, world, outside
  <2>2. CASE gStopUartBootLoaderFlg
    <3>1. UNCHANGED <<uartvars, shared>>
      BY <1>6, <2>2 DEF LoopUart
    <3>2. RomType'
      BY <1>0, <2>1, <3>1 DEF RomType, shared, flags
    <3> QED BY <1>1, <1>2, <2>1, <3>1, <3>2 DEF BootType, uartvars
  <2>3. CASE ~gStopUartBootLoaderFlg
    <3>1. processUartProtocolFrames
      BY <1>6, <2>3 DEF LoopUart
    <3>2. LoaderType'
      BY <1>0, <3>1, UartTyped DEF LineType
    <3>3. LineType'
      BY <1>0, <2>1, <3>2 DEF LineType, ScriptType
    <3>4. UNCHANGED flags \/ Idle
      BY <3>1 DEF processUartProtocolFrames, RecordType, Count, Address, Data, Crc,
                  Termination, NoCharacter, shared
    <3>5. RomType'
      BY <1>0, <2>1, <3>4 DEF RomType, Idle, shared, flags
    <3> QED BY <1>2, <2>1, <3>3, <3>5 DEF BootType
  <2> QED BY <2>2, <2>3
<1>7. CASE LoopI2c
  <2>1. RomType' /\ pc' # "DATA"
    BY <1>0, <1>7 DEF LoopI2c, RomType, shared, flags, i2cvars
  <2> QED BY <1>1, <1>2, <1>7, <2>1
      DEF LoopI2c, BootType, uartvars, i2cvars, mailbox, world, outside
<1>8. CASE I2cStep
  <2>1. processI2CProtocolFrames /\ UNCHANGED <<uart, uart_rx, uart_tx, script, host>>
    BY <1>8 DEF I2cStep, uartvars, world, outside
  <2> QED BY <1>0, <1>1, <2>1, I2cTyped DEF BootType
<1>9. CASE Tick
  <2>1. /\ pc' = "LOOP" /\ UNCHANGED <<gStopUartMsgFlg, gStopUartBootLoaderFlg,
                                       gStopI2CBootLoaderFlg, gUseCRCFlg>>
        /\ UNCHANGED <<uart, uart_rx, script>>
        /\ UNCHANGED <<rxbuf, rxlen, msg_i2c_apb, fifo_i2c_apb, host, msg_apb_i2c>>
        /\ UNCHANGED uart_tx \/ uart_tx' = [text |-> "BOOTME", left |-> 12]
    BY <1>9 DEF Tick, shared, flags, i2cvars, mailbox, world, outside
  <2>2. uart_tx' \in [text : Texts, left : Nat]
    <3>1. uart_tx \in [text : Texts, left : Nat] /\ "BOOTME" \in Texts /\ 12 \in Nat
      BY <1>0 DEF LineType, LoaderType, Texts
    <3>2. [text |-> "BOOTME", left |-> 12] \in [text : Texts, left : Nat]
      BY <3>1
    <3> QED BY <2>1, <3>1, <3>2
  <2>3. LineType'
    BY <1>0, <2>1, <2>2 DEF LineType, LoaderType, UartWidths, ScriptType
  <2>4. RomType'
    BY <1>0, <2>1 DEF RomType
  <2> QED BY <1>2, <2>1, <2>3, <2>4 DEF BootType
<1>10. CASE CharacterTime
  <2>1. UNCHANGED <<shared, pc, i2cvars, host>>
    BY <1>10 DEF CharacterTime
  <2>2. RomType' /\ BusType'
    BY <1>0, <2>1 DEF RomType, BusType, MailType, BufferType, HostType, shared, flags,
                      i2cvars, mailbox
  <2> QED BY <1>0, <1>10, <2>2, CharacterTimeTyped DEF BootType
<1>11. CASE ScriptReads
  <2>1. UNCHANGED <<shared, pc, i2cvars, host>>
    BY <1>11 DEF ScriptReads
  <2>2. RomType' /\ BusType'
    BY <1>0, <2>1 DEF RomType, BusType, MailType, BufferType, HostType, shared, flags,
                      i2cvars, mailbox
  <2> QED BY <1>0, <1>11, <2>2, ScriptTyped DEF BootType
<1>12. CASE I2cHost
  <2>1. ASSUME NEW next, HostMoves(next)
        PROVE  UNCHANGED <<shared, uartvars, pc, gUseCRCFlg, script>>
    BY <2>1 DEF HostMoves
  <2>2. UNCHANGED <<shared, uartvars, pc, gUseCRCFlg, script>>
    BY <1>12, <2>1, Zenon DEF I2cHost, HostChecks, HostReadsReply, HostPushes, HostRings,
                              HostSeesEmpty
  <2>3. RomType'
    BY <1>0, <2>2 DEF RomType, shared, flags
  <2> QED BY <1>0, <1>1, <1>12, <2>2, <2>3, HostTyped DEF BootType, uartvars
<1>13. CASE Debugger \/ UNCHANGED vars
  <2>1. UNCHANGED <<shared, uartvars, pc, i2cvars, script, host>>
    BY <1>13 DEF Debugger, vars, world, outside
  <2>2. RomType' /\ BusType'
    BY <1>0, <2>1 DEF RomType, BusType, MailType, BufferType, HostType, shared, flags,
                      i2cvars, mailbox
  <2> QED BY <1>1, <2>1, <2>2 DEF BootType, uartvars
<1> QED
  BY <1>3, <1>4, <1>5, <1>6, <1>7, <1>8, <1>9, <1>10, <1>11, <1>12, <1>13 DEF Next, ROM

(***************************************************************************)
(* The C variables of the two loaders keep their widths, the receive FIFO  *)
(* its depth and the message registers their messages, for every file the  *)
(* script may send, well-formed or not, and whatever is corrupted on the   *)
(* wires.                                                                  *)
(***************************************************************************)
THEOREM BootTyped == Spec => []TypeOK
<1>1. Spec => []BootType
  BY InitType, NextType, PTL DEF Spec
<1>2. BootType => TypeOK
  <2> SUFFICES ASSUME BootType PROVE TypeOK
    OBVIOUS
  <2>1. RomType /\ UartWidths /\ uart_rx \in Seq(Chars) /\ Len(uart_rx) <= RX_DEPTH
    BY DEF BootType, LineType, LoaderType
  <2>2. MailType /\ rxlen \in 0 .. Len(rxbuf)
    BY DEF BootType, BusType, BufferType
  <2>3. /\ msg_i2c_apb.data \in HostMessages \cup {"none"} /\ msg_i2c_apb.new \in BOOLEAN
        /\ msg_apb_i2c.data \in RomMessages \cup {"none"} /\ msg_apb_i2c.new \in BOOLEAN
    BY <2>2 DEF MailType
  <2>4. uart.data \in Seq(0 .. 255)
    BY <2>1 DEF UartWidths, Byte
  <2> QED BY <2>1, <2>2, <2>3, <2>4 DEF TypeOK, RomType, UartWidths, States
<1> QED BY <1>1, <1>2, PTL

-----------------------------------------------------------------------------
(* The stop flags *)

(***************************************************************************)
(* NeverBothStopped is not inductive: the I2C loader stops the other one   *)
(* without a look at its own flag.  What makes it sound is that the main   *)
(* loop tested this flag when it entered the loader, and that nothing that *)
(* runs until the loader returns can set it.                               *)
(***************************************************************************)
LoaderInv == /\ NeverBothStopped
             /\ pc \in I2cLabels => ~gStopI2CBootLoaderFlg

USE DEF NeverBothStopped, I2cLabels, LoaderInv

\* At reset both loaders run.
LEMMA InitLoaderInv == Init => LoaderInv
  BY DEF Init, BootInit

\* The UART loader, polled only while it is not stopped itself.
LEMMA UartKeepsFlags ==
  ASSUME processUartProtocolFrames
  PROVE  UNCHANGED gStopUartBootLoaderFlg
<1>1. ASSUME Idle PROVE UNCHANGED gStopUartBootLoaderFlg
  BY <1>1 DEF Idle, shared, flags
<1>2. ASSUME RecordType \/ Count \/ Address \/ Data \/ Termination \/ NoCharacter
      PROVE  UNCHANGED gStopUartBootLoaderFlg
  BY <1>2 DEF RecordType, Count, Address, Data, Termination, NoCharacter, shared, flags
<1>3. ASSUME Crc PROVE UNCHANGED gStopUartBootLoaderFlg
  BY <1>3 DEF Crc, shared, flags
<1> QED
  BY <1>1, <1>2, <1>3 DEF processUartProtocolFrames

\* No access of the I2C loader sets the I2C loader's own flag, and none enters
\* the loader from outside.
LEMMA I2cKeepsFlags ==
  ASSUME processI2CProtocolFrames
  PROVE  pc \in I2cLabels /\ UNCHANGED gStopI2CBootLoaderFlg
<1>1. ASSUME Status PROVE pc \in I2cLabels /\ UNCHANGED gStopI2CBootLoaderFlg
  BY <1>1 DEF Status, flags
<1>2. ASSUME CheckWithoutCRC \/ CheckWithCRC \/ NewFrame \/ ReadData \/ Drain
      PROVE  pc \in I2cLabels /\ UNCHANGED gStopI2CBootLoaderFlg
  BY <1>2 DEF CheckWithoutCRC, CheckWithCRC, ReadyCheck, NewFrame, ReadData, Drain,
              shared, flags
<1> QED
  BY <1>1, <1>2 DEF processI2CProtocolFrames

\* The stop flags after every step.
LEMMA NextLoaderInv == LoaderInv /\ [Next]_vars => LoaderInv'
<1> SUFFICES ASSUME LoaderInv, [Next]_vars PROVE LoaderInv'
  OBVIOUS
<1>1. CASE ReadResetReason
  BY <1>1 DEF ReadResetReason, shared, flags
<1>2. CASE Start
  BY <1>2 DEF Start, shared, flags
<1>3. CASE LoopJtag
  BY <1>3 DEF LoopJtag, flags
<1>4. CASE LoopUart
  <2>1. pc' = "I2C_GATE"
    BY <1>4 DEF LoopUart
  <2>2. CASE gStopUartBootLoaderFlg
    BY <1>4, <2>1, <2>2 DEF LoopUart, shared, flags
  <2>3. CASE ~gStopUartBootLoaderFlg
    BY <1>4, <2>1, <2>3, UartKeepsFlags DEF LoopUart
  <2> QED
    BY <2>2, <2>3
<1>5. CASE LoopI2c
  BY <1>5 DEF LoopI2c, I2cEnabled, shared, flags
<1>6. CASE I2cStep
  BY <1>6, I2cKeepsFlags DEF I2cStep
<1>7. CASE Tick
  BY <1>7 DEF Tick, shared, flags
<1>8. CASE CharacterTime \/ ScriptReads \/ Debugger
  <2>1. UNCHANGED <<shared, pc>>
    BY <1>8, Zenon DEF CharacterTime, ScriptReads, Debugger
  <2> QED BY <2>1 DEF shared, flags
<1>9. CASE I2cHost
  <2>1. ASSUME NEW next, HostMoves(next) PROVE UNCHANGED <<shared, pc>>
    BY <2>1 DEF HostMoves
  <2>2. CASE HostChecks \/ HostReadsReply
    <3>1. UNCHANGED <<shared, pc>>
      BY <2>1, <2>2, Zenon DEF HostChecks, HostReadsReply
    <3> QED
      BY <3>1 DEF shared, flags
  <2>3. CASE HostPushes \/ HostRings \/ HostSeesEmpty
    <3>1. UNCHANGED <<shared, pc>>
      BY <2>1, <2>3, Zenon DEF HostPushes, HostRings, HostSeesEmpty
    <3> QED
      BY <3>1 DEF shared, flags
  <2> QED
    BY <1>9, <2>2, <2>3 DEF I2cHost
<1>10. CASE UNCHANGED vars
  BY <1>10 DEF vars, shared, flags
<1> QED
  BY <1>1, <1>2, <1>3, <1>4, <1>5, <1>6, <1>7, <1>8, <1>9, <1>10 DEF Next, ROM

(***************************************************************************)
(* In no reachable state of the ROM are both loaders stopped, so there is  *)
(* always one that main still polls.                                       *)
(***************************************************************************)
THEOREM LoadersExclusive == Spec => []NeverBothStopped
<1>1. Spec => []LoaderInv
  BY InitLoaderInv, NextLoaderInv, PTL DEF Spec
<1>2. LoaderInv => NeverBothStopped
  OBVIOUS
<1> QED
  BY <1>1, <1>2, PTL

HIDE DEF NeverBothStopped, I2cLabels, LoaderInv

-----------------------------------------------------------------------------
(* What each move of the I2C host does *)

\* The host touches nothing of the ROM but the mailbox.
LEMMA HostStill ==
  ASSUME I2cHost
  PROVE  UNCHANGED <<shared, uartvars, pc, gUseCRCFlg, rxbuf, rxlen, reset_reason, script,
                    hit>>
<1>1. ASSUME NEW next, HostMoves(next)
      PROVE  UNCHANGED <<shared, uartvars, pc, gUseCRCFlg, rxbuf, rxlen, reset_reason, script,
                    hit>>
  BY <1>1 DEF HostMoves
<1> QED BY <1>1, Zenon DEF I2cHost, HostChecks, HostReadsReply, HostPushes, HostRings,
                           HostSeesEmpty

\* The ready check.
LEMMA HostChecksDoes ==
  ASSUME HostType, HostChecks
  PROVE  /\ host.at = "START" /\ host'.at = "AWAIT_YES" /\ host'.mode \in Modes
         /\ host'.frame = host.frame /\ host'.word = host.word
         /\ msg_i2c_apb'.data = host'.mode /\ msg_i2c_apb'.new
         /\ UNCHANGED <<msg_apb_i2c, fifo_i2c_apb>>
<1>1. PICK m \in CheckModes : /\ HostWrites(m) /\ host.at = "START"
                              /\ HostMoves([host EXCEPT !.at = "AWAIT_YES", !.mode = m])
                              /\ UNCHANGED <<msg_apb_i2c, fifo_i2c_apb>>
  BY DEF HostChecks
<1>2. m \in Modes
  BY BootAssumption DEF Modes
<1>3. host' = [host EXCEPT !.at = "AWAIT_YES", !.mode = m]
  BY <1>1 DEF HostMoves
<1>4. /\ host'.at = "AWAIT_YES" /\ host'.mode = m
      /\ host'.frame = host.frame /\ host'.word = host.word
  BY <1>3, HostFields DEF HostType
<1> QED BY <1>1, <1>2, <1>4 DEF HostWrites

\* The host reads an answer and goes on, or waits for another one.
LEMMA HostReplyDoes ==
  ASSUME HostType, MailType, HostReadsReply
  PROVE  /\ host.at \in {"AWAIT_YES", "AWAIT_ACK"} /\ msg_apb_i2c.new
         /\ ~msg_apb_i2c'.new /\ UNCHANGED <<msg_i2c_apb, fifo_i2c_apb>>
         /\ host'.mode = host.mode
         /\ \/ /\ host.at = "AWAIT_YES" /\ msg_apb_i2c.data = "RSP_YES"
               /\ host'.at = "SEND" /\ host'.frame = host.frame /\ host'.word = host.word
            \/ /\ host.at = "AWAIT_ACK" /\ msg_apb_i2c.data = "GOOD"
               /\ host'.at = "SEND" /\ host'.frame = host.frame + 1 /\ host'.word = 1
            \/ /\ host.at = "AWAIT_ACK" /\ msg_apb_i2c.data = "CORRUPTED"
               /\ host'.at = "SEND" /\ host'.frame = host.frame /\ host'.word = 1
            \/ /\ host' = host
               /\ ~(host.at = "AWAIT_YES" /\ msg_apb_i2c.data = "RSP_YES")
               /\ ~(host.at = "AWAIT_ACK" /\ msg_apb_i2c.data \in {"GOOD", "CORRUPTED"})
<1>1. /\ host.at \in {"AWAIT_YES", "AWAIT_ACK"} /\ msg_apb_i2c.new
      /\ msg_apb_i2c' = [msg_apb_i2c EXCEPT !.new = FALSE]
      /\ UNCHANGED <<msg_i2c_apb, fifo_i2c_apb>>
  BY DEF HostReadsReply
<1>2. ~msg_apb_i2c'.new
  BY <1>1, MailFacts DEF MailType
<1> DEFINE yes == host.at = "AWAIT_YES" /\ msg_apb_i2c.data = "RSP_YES"
           ack == host.at = "AWAIT_ACK" /\ msg_apb_i2c.data = "GOOD"
           nak == host.at = "AWAIT_ACK" /\ msg_apb_i2c.data = "CORRUPTED"
<1>3. HostMoves(CASE yes -> [host EXCEPT !.at = "SEND"]
                  [] ack -> [host EXCEPT !.at = "SEND", !.frame = @ + 1, !.word = 1]
                  [] nak -> [host EXCEPT !.at = "SEND", !.word = 1]
                  [] OTHER -> host)
  BY Zenon DEF HostReadsReply
<1>4. host' = CASE yes -> [host EXCEPT !.at = "SEND"]
                [] ack -> [host EXCEPT !.at = "SEND", !.frame = @ + 1, !.word = 1]
                [] nak -> [host EXCEPT !.at = "SEND", !.word = 1]
                [] OTHER -> host
  <2> HIDE DEF yes, ack, nak
  <2> QED BY <1>3, Zenon DEF HostMoves
<1>5. ~(yes /\ ack) /\ ~(yes /\ nak) /\ ~(ack /\ nak)
  OBVIOUS
<1>6. CASE yes
  <2>1. host' = [host EXCEPT !.at = "SEND"]
    BY <1>4, <1>5, <1>6
  <2> QED BY <1>1, <1>2, <1>6, <2>1, HostFields DEF HostType
<1>7. CASE ack
  <2>1. host' = [host EXCEPT !.at = "SEND", !.frame = @ + 1, !.word = 1]
    BY <1>4, <1>5, <1>7
  <2> QED BY <1>1, <1>2, <1>7, <2>1, HostFields DEF HostType
<1>8. CASE nak
  <2>1. host' = [host EXCEPT !.at = "SEND", !.word = 1]
    BY <1>4, <1>5, <1>8
  <2> QED BY <1>1, <1>2, <1>8, <2>1, HostFields DEF HostType
<1>9. CASE ~yes /\ ~ack /\ ~nak
  <2>1. host' = host
    BY <1>4, <1>9
  <2> QED BY <1>1, <1>2, <1>9, <2>1
<1> QED BY <1>6, <1>7, <1>8, <1>9

\* A word, good or broken.
LEMMA HostPushesDoes ==
  ASSUME HostType, HostPushes
  PROVE  /\ host.at = "SEND" /\ host.frame \in DOMAIN Frames /\ host.word \in 1 .. 3
         /\ host'.at = "SEND" /\ host'.mode = host.mode
         /\ host'.frame = host.frame /\ host'.word = host.word + 1
         /\ \/ fifo_i2c_apb' = Append(fifo_i2c_apb, FrameWords(Frames[host.frame])[host.word])
            \/ fifo_i2c_apb' = Append(fifo_i2c_apb, Broken)
         /\ UNCHANGED <<msg_i2c_apb, msg_apb_i2c>>
<1>1. /\ host.at = "SEND" /\ host.frame <= Len(Frames) /\ host.word <= 3
      /\ HostMoves([host EXCEPT !.word = @ + 1]) /\ UNCHANGED <<msg_i2c_apb, msg_apb_i2c>>
      /\ \/ fifo_i2c_apb' = Append(fifo_i2c_apb, FrameWords(Frames[host.frame])[host.word])
         \/ fifo_i2c_apb' = Append(fifo_i2c_apb, Broken)
  BY DEF HostPushes, Broken
<1>2. host' = [host EXCEPT !.word = @ + 1]
  BY <1>1 DEF HostMoves
<1>3. /\ host'.at = host.at /\ host'.mode = host.mode
      /\ host'.frame = host.frame /\ host'.word = host.word + 1
  BY <1>2, HostFields DEF HostType
<1>4. host.frame \in DOMAIN Frames /\ host.word \in 1 .. 3
  BY <1>1, BootAssumption DEF HostType
<1> QED BY <1>1, <1>3, <1>4

\* The doorbell.
LEMMA HostRingsDoes ==
  ASSUME HostType, HostRings
  PROVE  /\ host.at = "SEND" /\ host.word = 4
         /\ host'.at = IF host.mode = "CHECK_WITH_CRC" THEN "AWAIT_ACK" ELSE "AWAIT_EMPTY"
         /\ host'.mode = host.mode /\ host'.frame = host.frame /\ host'.word = host.word
         /\ msg_i2c_apb'.data = "NEW_FRAME" /\ msg_i2c_apb'.new
         /\ UNCHANGED <<msg_apb_i2c, fifo_i2c_apb>>
<1> DEFINE a == IF host.mode = "CHECK_WITH_CRC" THEN "AWAIT_ACK" ELSE "AWAIT_EMPTY"
<1>1. /\ host.at = "SEND" /\ host.word = 4 /\ HostWrites("NEW_FRAME")
      /\ HostMoves([host EXCEPT !.at = a]) /\ UNCHANGED <<msg_apb_i2c, fifo_i2c_apb>>
  BY DEF HostRings
<1> HIDE DEF a
<1>2. host' = [host EXCEPT !.at = a]
  BY <1>1 DEF HostMoves
<1>3. /\ host'.at = a /\ host'.mode = host.mode
      /\ host'.frame = host.frame /\ host'.word = host.word
  BY <1>2, HostFields DEF HostType
<1> QED BY <1>1, <1>3 DEF HostWrites, a

\* The next frame, without an answer.
LEMMA HostSeesEmptyDoes ==
  ASSUME HostType, HostSeesEmpty
  PROVE  /\ host.at = "AWAIT_EMPTY" /\ host'.at = "SEND" /\ host'.mode = host.mode
         /\ UNCHANGED <<msg_i2c_apb, msg_apb_i2c, fifo_i2c_apb>>
<1>1. /\ host.at = "AWAIT_EMPTY"
      /\ HostMoves([host EXCEPT !.at = "SEND", !.frame = @ + 1, !.word = 1])
      /\ UNCHANGED <<msg_i2c_apb, msg_apb_i2c, fifo_i2c_apb>>
  BY DEF HostSeesEmpty, mailbox
<1>2. host' = [host EXCEPT !.at = "SEND", !.frame = @ + 1, !.word = 1]
  BY <1>1 DEF HostMoves
<1>3. host'.at = "SEND" /\ host'.mode = host.mode
  BY <1>2, HostFields DEF HostType
<1> QED BY <1>1, <1>3

-----------------------------------------------------------------------------
(* Which host has been heard *)

Uart == gStopI2CBootLoaderFlg
I2c == gStopUartBootLoaderFlg

\* No host has made the ROM jump.
NotYet == entry \in {NoEntry, JtagEntry}

\* The register accesses after the first one.
Busy == I2cLabels \ {"I2C"}

(***************************************************************************)
(* Before a loader has heard its host there is nothing in memory, the UART *)
(* machine waits for its first record, and the I2C host has no answer.     *)
(* Once one has, the ROM calls no more.                                    *)
(***************************************************************************)
HeardInv ==
    /\ Uart \/ I2c => gStopUartMsgFlg
    /\ pc # "RESET" => reset_reason = 0
    /\ ~Uart /\ ~I2c => loaded = {} /\ NotYet
    /\ ~Uart => uart.state = "IDLE"
    /\ ~I2c => /\ host.at \in {"START", "AWAIT_YES"} /\ host.frame = 1 /\ host.word = 1
               /\ ~msg_apb_i2c.new /\ fifo_i2c_apb = << >>
               /\ pc \notin Busy
    /\ (host.at = "START") <=> (host.mode = "none")
    /\ host.at = "START" => ~msg_i2c_apb.new /\ ~I2c
    /\ host.at = "AWAIT_YES" => msg_i2c_apb.data = host.mode

\* Nothing has been heard at reset.
LEMMA InitHeard == Init => HeardInv
  BY DEF Init, BootInit, UartInit, I2cInit, Cleared, HeardInv, Uart, I2c, Busy, I2cLabels,
         NotYet

\* Only an 'S' in the first state changes a flag, and only the last state fills
\* the memory or jumps.
LEMMA UartShared ==
  ASSUME LoaderType, processUartProtocolFrames
  PROVE  /\ UNCHANGED gStopUartBootLoaderFlg
         /\ uart.state = "IDLE" =>
              /\ UNCHANGED <<loaded, entry>>
              /\ \/ UNCHANGED flags /\ uart'.state = "IDLE"
                 \/ gStopUartMsgFlg' /\ gStopI2CBootLoaderFlg'
         /\ uart.state # "IDLE" => UNCHANGED flags
<1>0. DOMAIN uart = Fields
  BY DEF LoaderType, UartWidths
<1>1. CASE Idle
  <2>1. uart.state = "IDLE"
    BY <1>1 DEF Idle, Reads
  <2> QED BY <1>0, <1>1, <2>1 DEF Idle, shared, flags
<1>2. CASE NoCharacter
  BY <1>2 DEF NoCharacter, uartvars, shared, flags
<1>3. CASE Crc
  <2>1. UNCHANGED flags /\ uart.state = "CRC"
    BY <1>3 DEF Crc, Reads, shared
  <2> QED BY <2>1 DEF flags
<1>4. CASE RecordType \/ Count \/ Address \/ Data \/ Termination
  <2>1. UNCHANGED shared /\ uart.state # "IDLE"
    BY <1>4 DEF RecordType, Count, Address, Data, Termination, Reads
  <2> QED BY <2>1 DEF shared, flags
<1> QED BY <1>1, <1>2, <1>3, <1>4 DEF processUartProtocolFrames

\* Every step keeps what is known before a host has been heard.
LEMMA NextHeard == BootType /\ LoaderInv /\ HeardInv /\ [Next]_vars => HeardInv'
<1> SUFFICES ASSUME BootType, LoaderInv, HeardInv, [Next]_vars PROVE HeardInv'
  OBVIOUS
<1>0. RomType /\ LoaderType /\ MailType /\ HostType
  BY DEF BootType, LineType, BusType
<1> USE DEF HeardInv, Uart, I2c, NotYet
<1>1. CASE ReadResetReason
  <2>1. /\ pc' = "START" /\ reset_reason' = 0
        /\ UNCHANGED <<gStopUartMsgFlg, gStopUartBootLoaderFlg, gStopI2CBootLoaderFlg, loaded,
                       entry, uart, host, msg_i2c_apb, msg_apb_i2c, fifo_i2c_apb>>
    BY <1>1 DEF ReadResetReason, shared, flags, uartvars, i2cvars, mailbox, outside
  <2> QED BY <2>1 DEF Busy, I2cLabels
<1>2. CASE Start
  <2>1. /\ pc = "START" /\ pc' \in {"FLASH", "LOOP"}
        /\ UNCHANGED <<gStopUartMsgFlg, gStopUartBootLoaderFlg, gStopI2CBootLoaderFlg, loaded,
                       entry, uart, host, msg_i2c_apb, fifo_i2c_apb, reset_reason>>
    BY <1>2 DEF Start, shared, flags, uartvars, i2cvars, mailbox, world, outside
  <2>2. UNCHANGED msg_apb_i2c
    BY <1>2, <2>1 DEF Start, i2cvars, mailbox
  <2> QED BY <2>1, <2>2 DEF Busy, I2cLabels
<1>3. CASE LoopJtag
  <2>1. /\ entry' = JtagEntry
        /\ UNCHANGED <<gStopUartMsgFlg, gStopUartBootLoaderFlg, gStopI2CBootLoaderFlg, loaded,
                       pc, uart, host, msg_i2c_apb, msg_apb_i2c, fifo_i2c_apb, reset_reason>>
    BY <1>3 DEF LoopJtag, jump_to_address, flags, uartvars, i2cvars, mailbox, world, outside
  <2> QED BY <2>1
<1>4. CASE LoopUart
  <2>1. /\ pc = "LOOP" /\ pc' = "I2C_GATE"
        /\ UNCHANGED <<host, msg_i2c_apb, msg_apb_i2c, fifo_i2c_apb, reset_reason>>
    BY <1>4 DEF LoopUart, i2cvars, mailbox, world, outside
  <2>2. CASE gStopUartBootLoaderFlg
    <3>1. UNCHANGED <<gStopUartMsgFlg, gStopUartBootLoaderFlg, gStopI2CBootLoaderFlg, loaded,
                      entry, uart>>
      BY <1>4, <2>2 DEF LoopUart, uartvars, shared, flags
    <3> QED BY <2>1, <3>1 DEF Busy, I2cLabels
  <2>3. CASE ~gStopUartBootLoaderFlg
    <3>1. processUartProtocolFrames
      BY <1>4, <2>3 DEF LoopUart
    <3>2. /\ UNCHANGED gStopUartBootLoaderFlg
          /\ uart.state = "IDLE" =>
               /\ UNCHANGED <<loaded, entry>>
               /\ \/ UNCHANGED flags /\ uart'.state = "IDLE"
                  \/ gStopUartMsgFlg' /\ gStopI2CBootLoaderFlg'
          /\ uart.state # "IDLE" => UNCHANGED flags
      BY <1>0, <3>1, UartShared
    <3> QED BY <2>1, <2>3, <3>2 DEF Busy, I2cLabels, flags
  <2> QED BY <2>2, <2>3
<1>5. CASE LoopI2c
  <2>1. /\ pc = "I2C_GATE" /\ pc' \in {"I2C", "TICK"}
        /\ UNCHANGED <<gStopUartMsgFlg, gStopUartBootLoaderFlg, gStopI2CBootLoaderFlg, loaded,
                       entry, uart, host, msg_i2c_apb, msg_apb_i2c, fifo_i2c_apb, reset_reason>>
    BY <1>5 DEF LoopI2c, shared, flags, uartvars, i2cvars, mailbox, world, outside
  <2> QED BY <2>1 DEF Busy, I2cLabels
<1>6. CASE I2cStep
  <2>1. processI2CProtocolFrames /\ UNCHANGED <<uart, host, reset_reason>>
    BY <1>6 DEF I2cStep, uartvars, world, outside
  <2>2. CASE Status
    <3>1. /\ pc = "I2C" /\ UNCHANGED <<msg_i2c_apb, msg_apb_i2c, fifo_i2c_apb, loaded, entry>>
          /\ \/ UNCHANGED flags /\ pc' = "TICK"
             \/ /\ msg_i2c_apb.new /\ gStopUartMsgFlg' /\ gStopUartBootLoaderFlg'
                /\ UNCHANGED gStopI2CBootLoaderFlg /\ pc' = "WITHOUT_CRC"
      BY <2>2 DEF Status, GoTo, i2cvars, mailbox
    <3> QED BY <2>1, <3>1 DEF Busy, I2cLabels, flags
  <2>3. CASE ~Status
    <3>1. pc \in Busy /\ pc # "RESET"
      BY <2>1, <2>3 DEF processI2CProtocolFrames, CheckWithoutCRC, CheckWithCRC, ReadyCheck,
                        NewFrame, ReadData, Drain, Busy, I2cLabels
    <3>2. I2c /\ ~Uart
      BY <3>1 DEF LoaderInv, Busy
    <3>3. UNCHANGED flags /\ pc' # "RESET"
      BY <2>1, <2>3 DEF processI2CProtocolFrames, CheckWithoutCRC, CheckWithCRC, ReadyCheck,
                        NewFrame, ReadData, Drain, shared, GoTo
    <3>4. msg_i2c_apb'.data = msg_i2c_apb.data
      <4>1. UNCHANGED msg_i2c_apb \/ msg_i2c_apb' = [msg_i2c_apb EXCEPT !.new = FALSE]
        BY <2>1, <2>3 DEF processI2CProtocolFrames, CheckWithoutCRC, CheckWithCRC,
                          ReadyCheck, NewFrame, ReadMessage, ReadData, Drain
      <4> QED BY <1>0, <4>1, MailFacts DEF MailType
    <3> QED BY <2>1, <3>1, <3>2, <3>3, <3>4 DEF flags
  <2> QED BY <2>2, <2>3
<1>7. CASE Tick
  <2>1. /\ pc = "TICK" /\ pc' = "LOOP"
        /\ UNCHANGED <<gStopUartMsgFlg, gStopUartBootLoaderFlg, gStopI2CBootLoaderFlg, loaded,
                       entry, uart, host, msg_i2c_apb, msg_apb_i2c, fifo_i2c_apb, reset_reason>>
    BY <1>7 DEF Tick, shared, flags, i2cvars, mailbox, world, outside
  <2> QED BY <2>1 DEF Busy, I2cLabels
<1>8. CASE CharacterTime \/ ScriptReads \/ Debugger \/ UNCHANGED vars
  <2>1. UNCHANGED <<shared, uart, pc, i2cvars, host, reset_reason>>
    BY <1>8 DEF CharacterTime, ScriptReads, Debugger, vars, uartvars, world, outside
  <2> QED BY <2>1 DEF shared, flags, i2cvars, mailbox
<1>9. CASE I2cHost
  <2>0. UNCHANGED <<gStopUartMsgFlg, gStopUartBootLoaderFlg, gStopI2CBootLoaderFlg, loaded,
                    entry, uart, pc, reset_reason>>
    BY <1>9, HostStill DEF shared, flags, uartvars
  <2>1. CASE HostChecks
    BY <1>0, <2>0, <2>1, HostChecksDoes DEF Modes
  <2>2. CASE HostReadsReply
    BY <1>0, <2>0, <2>2, HostReplyDoes DEF HostType
  <2>3. CASE HostPushes
    BY <1>0, <2>0, <2>3, HostPushesDoes
  <2>4. CASE HostRings
    BY <1>0, <2>0, <2>4, HostRingsDoes
  <2>5. CASE HostSeesEmpty
    BY <1>0, <2>0, <2>5, HostSeesEmptyDoes
  <2> QED BY <1>9, <2>1, <2>2, <2>3, <2>4, <2>5 DEF I2cHost
<1> QED
  BY <1>1, <1>2, <1>3, <1>4, <1>5, <1>6, <1>7, <1>8, <1>9 DEF Next, ROM

-----------------------------------------------------------------------------
(* The I2C download with CRCs, phase by phase *)

\* The words sent so far of the current frame, some of them perhaps broken.
SentWord(w, i) == w \in {FrameWords(Frames[host.frame])[i], Broken}
Sent == \A i \in DOMAIN fifo_i2c_apb : SentWord(fifo_i2c_apb[i], i)

Before == loaded = I2cData(host.frame - 1)
Known  == host.frame \in DOMAIN Frames
Silent == ~msg_apb_i2c.new
NoMail == ~msg_i2c_apb.new

Asked == /\ host.at = "AWAIT_YES" /\ Silent /\ pc \in {"WITHOUT_CRC", "WITH_CRC"}
         /\ host.frame = 1 /\ host.word = 1 /\ fifo_i2c_apb = << >>
         /\ pc = "WITH_CRC" => NoMail

Welcomed == /\ host.at = "AWAIT_YES" /\ msg_apb_i2c = [data |-> "RSP_YES", new |-> TRUE]
            /\ NoMail /\ pc \notin Busy /\ gUseCRCFlg
            /\ host.frame = 1 /\ host.word = 1 /\ fifo_i2c_apb = << >>

Sending == /\ host.at = "SEND" /\ Silent /\ NoMail /\ pc \notin Busy /\ gUseCRCFlg
           /\ Len(fifo_i2c_apb) = host.word - 1 /\ (host.word > 1 => Known) /\ Sent
           /\ host.frame - 1 \in 0 .. Len(Frames)

Rung == /\ host.at = "AWAIT_ACK" /\ Silent /\ gUseCRCFlg /\ Known
        /\ msg_i2c_apb.data = "NEW_FRAME" /\ Len(fifo_i2c_apb) = 3 /\ Sent
        /\ \/ msg_i2c_apb.new /\ pc \notin {"WITH_CRC", "FRAME", "FLAGS", "DATA"}
           \/ NoMail /\ pc \in {"WITH_CRC", "FRAME"}

Draining == /\ host.at = "AWAIT_ACK" /\ Silent /\ NoMail /\ gUseCRCFlg /\ Known
            /\ pc \in {"FLAGS", "DATA"} /\ rxlen + Len(fifo_i2c_apb) = 3
            /\ \A i \in 1 .. rxlen : SentWord(rxbuf[i], i)
            /\ \A i \in DOMAIN fifo_i2c_apb : SentWord(fifo_i2c_apb[i], rxlen + i)

Answered == /\ host.at = "AWAIT_ACK" /\ msg_apb_i2c.new /\ NoMail /\ gUseCRCFlg /\ Known
            /\ pc \notin Busy /\ fifo_i2c_apb = << >>
            /\ \/ msg_apb_i2c.data = "GOOD" /\ loaded = I2cData(host.frame)
               \/ msg_apb_i2c.data = "CORRUPTED" /\ Before

Jumped == /\ host.at = "AWAIT_ACK" /\ Silent /\ Known
          /\ Frames[host.frame].cmd = "JUMP" /\ entry = Frames[host.frame].address
          /\ pc \notin Busy

Phase == \/ (Asked \/ Welcomed \/ Sending \/ Rung \/ Draining) /\ Before /\ NotYet
         \/ Answered /\ NotYet
         \/ Jumped /\ Before

I2cInv == I2c /\ host.mode = "CHECK_WITH_CRC" => Phase

\* A frame is three words, and only the whole of it has its CRC.
LEMMA FrameFacts ==
  ASSUME NEW k \in DOMAIN Frames
  PROVE  LET f == Frames[k] IN
         /\ f.cmd \in {"LOAD", "JUMP"} /\ f.address \in [1 .. 4 -> Byte]
         /\ f.address # NoEntry
         /\ FrameWords(f)[1] = HeaderOf(f.cmd, f.address)
         /\ FrameWords(f)[2] = Noise(f.bytes)
         /\ FrameWords(f)[3] = CrcOf(<<HeaderOf(f.cmd, f.address), Noise(f.bytes)>>)
<1> DEFINE f == Frames[k]
           F == [cmd : {"LOAD", "JUMP"}, address : [1 .. 4 -> 0 .. 255], bytes : Seq(0 .. 255)]
<1>1. f \in F
  <2>1. Frames \in Seq(F)
    BY BootAssumption
  <2> HIDE DEF F
  <2> QED BY <2>1
<1>2. f.cmd \in {"LOAD", "JUMP"} /\ f.address \in [1 .. 4 -> Byte]
  BY <1>1 DEF Byte
<1>3. f.address # NoEntry
  <2>1. DOMAIN f.address = 1 .. 4 /\ 1 \in 1 .. 4
    BY <1>2
  <2>2. DOMAIN NoEntry = {}
    BY DEF NoEntry
  <2> QED BY <2>1, <2>2
<1> DEFINE h == HeaderOf(f.cmd, f.address)
           n == Noise(f.bytes)
           c == CrcOf(<<h, n>>)
<1>4. FrameWords(f) = <<h, n>> \o <<c>>
  BY DEF FrameWords
<1> HIDE DEF f, h, n, c
<1>5. FrameWords(f)[1] = h /\ FrameWords(f)[2] = n /\ FrameWords(f)[3] = c
  BY <1>4
<1> QED BY <1>2, <1>3, <1>5 DEF h, n, c, f

\* One more frame in memory.
LEMMA I2cDataNext ==
  ASSUME NEW k \in DOMAIN Frames
  PROVE  /\ Frames[k].cmd = "LOAD" =>
              I2cData(k) = I2cData(k - 1) \cup {<<Frames[k].address, Frames[k].bytes>>}
         /\ Frames[k].cmd # "LOAD" => I2cData(k) = I2cData(k - 1)
<1> DEFINE J(n) == {j \in 1 .. n : Frames[j].cmd = "LOAD"}
           P(j) == <<Frames[j].address, Frames[j].bytes>>
<1>0. k \in Nat \ {0}
  BY BootAssumption
<1>1. \A j : (j \in J(k)) <=> (j \in J(k - 1) \/ (j = k /\ Frames[j].cmd = "LOAD"))
  BY <1>0
<1>2. I2cData(k) = {P(j) : j \in J(k)} /\ I2cData(k - 1) = {P(j) : j \in J(k - 1)}
  BY DEF I2cData
<1>3. Frames[k].cmd = "LOAD" => J(k) = J(k - 1) \cup {k}
  BY <1>1
<1>4. Frames[k].cmd # "LOAD" => J(k) = J(k - 1)
  BY <1>1
<1>5. Frames[k].cmd = "LOAD" => I2cData(k) = I2cData(k - 1) \cup {P(k)}
  <2> HIDE DEF J, P
  <2> QED BY <1>2, <1>3
<1> QED BY <1>2, <1>4, <1>5

\* Nothing in memory before the first frame.
LEMMA I2cDataZero == I2cData(0) = {}
<1>1. {j \in 1 .. 0 : Frames[j].cmd = "LOAD"} = {}
  OBVIOUS
<1> QED BY <1>1 DEF I2cData

\* A step that the I2C loader and its host take no part in.
LEMMA PhaseKept ==
  ASSUME I2cInv,
         UNCHANGED <<gStopUartBootLoaderFlg, host, msg_i2c_apb, msg_apb_i2c, fifo_i2c_apb,
                     rxbuf, rxlen, gUseCRCFlg, loaded>>,
         pc' = pc \/ (pc \notin Busy /\ pc' \notin Busy),
         entry' = entry \/ (entry = NoEntry /\ entry' = JtagEntry)
  PROVE  I2cInv'
<1> SUFFICES ASSUME I2c, host.mode = "CHECK_WITH_CRC" PROVE Phase'
  BY DEF I2cInv, I2c
<1>1. /\ Before' = Before /\ Known' = Known /\ Silent' = Silent /\ NoMail' = NoMail
      /\ Sent' = Sent
  BY DEF Before, Known, Silent, NoMail, Sent, SentWord
<1>2. NotYet => NotYet'
  BY DEF NotYet
<1>3. CASE Asked \/ Draining
  <2>1. pc' = pc
    BY <1>3 DEF Asked, Draining, Busy, I2cLabels
  <2>2. Asked' = Asked /\ Draining' = Draining
    BY <1>1, <2>1 DEF Asked, Draining, SentWord
  <2>3. Before /\ NotYet
    BY <1>3 DEF I2cInv, Phase, Answered, Jumped, Asked, Draining, Silent, Busy, I2cLabels
  <2> QED BY <1>1, <1>2, <1>3, <2>2, <2>3 DEF Phase
<1>4. Welcomed => Welcomed'
  BY <1>1 DEF Welcomed
<1>5. Sending => Sending'
  BY <1>1 DEF Sending
<1>6. Rung => Rung'
  BY <1>1 DEF Rung, Busy, I2cLabels
<1>7. Answered => Answered'
  BY <1>1 DEF Answered
<1>8. Jumped => Jumped'
  <2>1. Jumped => entry # NoEntry
    BY FrameFacts DEF Jumped, Known
  <2> QED BY <1>1, <2>1 DEF Jumped
<1>9. Phase
  BY DEF I2cInv
<1> QED BY <1>1, <1>2, <1>3, <1>4, <1>5, <1>6, <1>7, <1>8, <1>9 DEF Phase

\* The first access finds a message, from a host that has asked or rung.
LEMMA StatusPhase ==
  ASSUME BootType, LoaderInv, HeardInv, I2cInv, Status, Running, UNCHANGED host
  PROVE  I2cInv'
<1>1. /\ pc = "I2C"
      /\ UNCHANGED <<host, msg_i2c_apb, msg_apb_i2c, fifo_i2c_apb, rxbuf, rxlen, gUseCRCFlg,
                     loaded, entry>>
      /\ \/ UNCHANGED gStopUartBootLoaderFlg /\ pc' = "TICK" /\ ~msg_i2c_apb.new
         \/ msg_i2c_apb.new /\ gStopUartBootLoaderFlg' /\ pc' = "WITHOUT_CRC"
  BY DEF Status, GoTo, i2cvars, mailbox, flags
<1>2. CASE ~msg_i2c_apb.new
  <2>1. pc \notin Busy /\ pc' \notin Busy /\ UNCHANGED gStopUartBootLoaderFlg
    BY <1>1, <1>2 DEF Busy, I2cLabels
  <2> QED BY <1>1, <2>1, PhaseKept
<1>3. CASE msg_i2c_apb.new
  <2> SUFFICES ASSUME host.mode = "CHECK_WITH_CRC" PROVE Phase'
    BY <1>1 DEF I2cInv
  <2>1. pc' = "WITHOUT_CRC"
    BY <1>1, <1>3
  <2>2. UNCHANGED <<Before, Known, Silent, NotYet, Sent>>
    BY <1>1 DEF Before, Known, Silent, NotYet, Sent, SentWord
  <2>3. CASE ~I2c
    <3>1. ~Uart
      BY <1>1 DEF LoaderInv, I2cLabels, Uart
    <3>2. /\ host.at = "AWAIT_YES" /\ host.frame = 1 /\ host.word = 1
          /\ ~msg_apb_i2c.new /\ fifo_i2c_apb = << >> /\ loaded = {} /\ NotYet
      BY <1>3, <2>3, <3>1 DEF HeardInv
    <3>3. Before
      BY <3>2, I2cDataZero DEF Before
    <3>4. Asked'
      BY <1>1, <2>1, <3>2 DEF Asked, Silent
    <3> QED BY <2>2, <3>2, <3>3, <3>4 DEF Phase
  <2>4. CASE I2c
    <3>1. Rung /\ Before /\ NotYet
      <4>1. Phase
        BY <2>4 DEF I2cInv
      <4>2. Jumped => entry # NoEntry
        BY FrameFacts DEF Jumped, Known
      <4> QED BY <1>1, <1>3, <4>1, <4>2 DEF Phase, Asked, Welcomed, Sending, Draining,
                                            Answered, NoMail, Running
    <3>2. Rung'
      BY <1>1, <1>3, <2>1, <2>2, <3>1 DEF Rung
    <3> QED BY <2>2, <3>1, <3>2 DEF Phase
  <2> QED BY <2>3, <2>4
<1> QED BY <1>2, <1>3

\* The two comparisons with a ready check.
LEMMA CheckPhase ==
  ASSUME BootType, HeardInv, I2cInv, Running, UNCHANGED host,
         CheckWithoutCRC \/ CheckWithCRC
  PROVE  I2cInv'
<1>0. MailType
  BY DEF BootType, BusType
<1> SUFFICES ASSUME host.mode = "CHECK_WITH_CRC" PROVE Phase'
  BY DEF I2cInv
<1>1. /\ pc \in {"WITHOUT_CRC", "WITH_CRC"}
      /\ UNCHANGED <<host, fifo_i2c_apb, rxbuf, rxlen, loaded, entry, gStopUartBootLoaderFlg>>
      /\ msg_i2c_apb' = [msg_i2c_apb EXCEPT !.new = FALSE]
  BY DEF CheckWithoutCRC, CheckWithCRC, ReadyCheck, ReadMessage, shared, flags
<1>2. msg_i2c_apb'.data = msg_i2c_apb.data /\ ~msg_i2c_apb'.new
  BY <1>0, <1>1, MailFacts DEF MailType
<1>3. Phase
  BY <1>1 DEF I2cInv, HeardInv, Busy, I2cLabels
<1>4. (Asked \/ Rung) /\ Before /\ NotYet
  <2>1. Jumped => entry # NoEntry
    BY FrameFacts DEF Jumped, Known
  <2> QED BY <1>1, <1>3, <2>1 DEF Phase, Welcomed, Sending, Draining, Answered, Running,
                                  Busy, I2cLabels
<1>5. UNCHANGED <<Before, Known, NotYet, Sent>>
  BY <1>1 DEF Before, Known, NotYet, Sent, SentWord
<1>6. CASE Asked
  <2>1. msg_i2c_apb.data = "CHECK_WITH_CRC"
    BY <1>6 DEF HeardInv, Asked
  <2>2. CASE CheckWithoutCRC
    <3>1. pc' = "WITH_CRC" /\ UNCHANGED msg_apb_i2c
      BY <2>1, <2>2 DEF CheckWithoutCRC, ReadyCheck, GoTo
    <3>2. Asked'
      BY <1>1, <1>2, <1>6, <3>1 DEF Asked, Silent, NoMail
    <3> QED BY <1>4, <1>5, <3>2 DEF Phase
  <2>3. CASE CheckWithCRC
    <3>1. /\ pc' = "TICK" /\ msg_apb_i2c' = [data |-> "RSP_YES", new |-> TRUE]
          /\ gUseCRCFlg' = TRUE
      BY <2>1, <2>3 DEF CheckWithCRC, ReadyCheck, GoTo, hal_set_i2cs_msg_apb_i2c
    <3>2. Welcomed'
      BY <1>1, <1>2, <1>6, <3>1 DEF Asked, Welcomed, NoMail, Busy, I2cLabels
    <3> QED BY <1>4, <1>5, <3>2 DEF Phase
  <2> QED BY <2>2, <2>3
<1>7. CASE Rung
  <2>1. /\ pc' \in {"WITH_CRC", "FRAME"} /\ UNCHANGED <<msg_apb_i2c, gUseCRCFlg>>
    BY <1>7 DEF CheckWithoutCRC, CheckWithCRC, ReadyCheck, GoTo, Rung
  <2>2. Rung'
    BY <1>1, <1>2, <1>5, <1>7, <2>1 DEF Rung, Silent, NoMail
  <2> QED BY <1>4, <1>5, <2>2 DEF Phase
<1> QED BY <1>4, <1>6, <1>7

\* The doorbell is answered: the buffer index starts again.
LEMMA NewFramePhase ==
  ASSUME BootType, HeardInv, I2cInv, Running, UNCHANGED host, NewFrame
  PROVE  I2cInv'
<1>0. MailType /\ BufferType
  BY DEF BootType, BusType
<1> SUFFICES ASSUME host.mode = "CHECK_WITH_CRC" PROVE Phase'
  BY DEF I2cInv
<1>1. /\ pc = "FRAME"
      /\ UNCHANGED <<host, fifo_i2c_apb, msg_apb_i2c, gUseCRCFlg, rxbuf, loaded, entry>>
      /\ msg_i2c_apb' = [msg_i2c_apb EXCEPT !.new = FALSE] /\ rxlen' = 0
      /\ pc' = IF msg_i2c_apb.data = "NEW_FRAME" THEN "FLAGS" ELSE "TICK"
  BY DEF NewFrame, ReadMessage, GoTo, shared
<1>2. msg_i2c_apb'.data = msg_i2c_apb.data /\ ~msg_i2c_apb'.new
  BY <1>0, <1>1, MailFacts DEF MailType
<1>3. Phase
  BY <1>1 DEF I2cInv, HeardInv, Busy, I2cLabels
<1>4. Rung /\ Before /\ NotYet
  <2>1. Jumped => entry # NoEntry
    BY FrameFacts DEF Jumped, Known
  <2> QED BY <1>1, <1>3, <2>1 DEF Phase, Asked, Welcomed, Sending, Draining, Answered, Running,
                                  Busy, I2cLabels
<1>5. UNCHANGED <<Before, Known, NotYet, Silent>>
  BY <1>1 DEF Before, Known, NotYet, Silent
<1>6. Draining'
  <2>1. \A i \in DOMAIN fifo_i2c_apb' : SentWord(fifo_i2c_apb[i], 0 + i)
    BY <1>1, <1>4 DEF Rung, Sent
  <2> QED BY <1>1, <1>2, <1>4, <1>5, <2>1 DEF Rung, Draining, NoMail, SentWord
<1> QED BY <1>4, <1>5, <1>6 DEF Phase

\* While the loader drains the FIFO the host waits for its answer.
LEMMA DrainingPhase ==
  ASSUME HeardInv, I2cInv, Running, host.mode = "CHECK_WITH_CRC", pc \in {"FLAGS", "DATA"}
  PROVE  Draining /\ Before /\ NotYet
<1>1. Phase
  BY DEF I2cInv, HeardInv, Busy, I2cLabels
<1>2. Jumped => entry # NoEntry
  BY FrameFacts DEF Jumped, Known
<1> QED BY <1>1, <1>2 DEF Phase, Asked, Welcomed, Sending, Rung, Answered, Running,
                          Busy, I2cLabels

\* A word moves from the FIFO to the buffer.
LEMMA ReadDataPhase ==
  ASSUME BootType, HeardInv, I2cInv, Running, UNCHANGED host, ReadData
  PROVE  I2cInv'
<1>0. BusType /\ fifo_i2c_apb \in Seq(Words) /\ rxlen \in Nat
  BY DEF BootType, BusType, BufferType
<1> SUFFICES ASSUME host.mode = "CHECK_WITH_CRC" PROVE Phase'
  BY DEF I2cInv
<1>1. /\ pc = "DATA" /\ pc' = "FLAGS"
      /\ UNCHANGED <<host, gUseCRCFlg, msg_i2c_apb, msg_apb_i2c, loaded, entry>>
  BY DEF ReadData, GoTo, shared
<1>2. /\ rxlen' = rxlen + 1
      /\ \A i \in 1 .. rxlen : rxbuf'[i] = rxbuf[i]
      /\ rxbuf'[rxlen + 1] = fifo_i2c_apb[1]
      /\ fifo_i2c_apb # << >> /\ fifo_i2c_apb' = Tail(fifo_i2c_apb)
  BY <1>0, ReadDataTyped
<1>3. Draining /\ Before /\ NotYet
  BY <1>1, DrainingPhase
<1>4. UNCHANGED <<Before, Known, NotYet, Silent, NoMail>>
  BY <1>1 DEF Before, Known, NotYet, Silent, NoMail
<1>5. /\ Len(fifo_i2c_apb') = Len(fifo_i2c_apb) - 1 /\ 1 \in DOMAIN fifo_i2c_apb
      /\ \A i \in DOMAIN fifo_i2c_apb' : /\ i + 1 \in DOMAIN fifo_i2c_apb
                                         /\ fifo_i2c_apb'[i] = fifo_i2c_apb[i + 1]
                                         /\ i \in Nat
      /\ Len(fifo_i2c_apb) \in Nat
  BY <1>0, <1>2
<1>6. \A w, i : SentWord(w, i)' = SentWord(w, i)
  BY <1>1 DEF SentWord
<1>7. ASSUME NEW i \in 1 .. rxlen' PROVE SentWord(rxbuf'[i], i)
  <2>1. SentWord(fifo_i2c_apb[1], rxlen + 1)
    BY <1>3, <1>5 DEF Draining
  <2>2. CASE i = rxlen + 1
    BY <1>2, <2>1, <2>2
  <2>3. CASE i # rxlen + 1
    <3>1. i \in 1 .. rxlen
      BY <1>0, <1>2, <2>3
    <3> QED BY <1>2, <1>3, <3>1 DEF Draining
  <2> QED BY <2>2, <2>3
<1>8. ASSUME NEW i \in DOMAIN fifo_i2c_apb' PROVE SentWord(fifo_i2c_apb'[i], rxlen' + i)
  <2>1. SentWord(fifo_i2c_apb[i + 1], rxlen + (i + 1))
    BY <1>3, <1>5 DEF Draining
  <2>2. rxlen + (i + 1) = rxlen' + i
    BY <1>0, <1>2, <1>5
  <2> QED BY <1>5, <2>1, <2>2
<1>9. Draining'
  <2>1. rxlen' + Len(fifo_i2c_apb') = 3
    BY <1>0, <1>2, <1>3, <1>5 DEF Draining
  <2>2. /\ \A i \in 1 .. rxlen' : SentWord(rxbuf[i], i)'
        /\ \A i \in DOMAIN fifo_i2c_apb' : SentWord(fifo_i2c_apb[i], rxlen + i)'
    BY <1>1, <1>7, <1>8 DEF SentWord
  <2> QED BY <1>1, <1>3, <1>4, <2>1, <2>2 DEF Draining
<1> QED BY <1>3, <1>4, <1>9 DEF Phase

(***************************************************************************)
(* The CRC is good for the frame as it was sent, and for nothing that has  *)
(* a broken word in it.                                                    *)
(***************************************************************************)
LEMMA CrcFacts ==
  ASSUME BootType, Draining, fifo_i2c_apb = << >>
  PROVE  /\ rxlen = 3 /\ rxbuf # << >>
         /\ CrcMatches => /\ rxbuf[1] = FrameWords(Frames[host.frame])[1]
                          /\ rxbuf[2] = FrameWords(Frames[host.frame])[2]
<1> DEFINE f == Frames[host.frame]
           h == HeaderOf(f.cmd, f.address)
           n == Noise(f.bytes)
           c == CrcOf(<<h, n>>)
<1>1. rxlen = 3 /\ rxbuf \in Seq(Words) /\ Len(rxbuf) >= 3 /\ gUseCRCFlg
  BY DEF Draining, BootType, BusType, BufferType
<1>2. /\ FrameWords(f)[1] = h /\ FrameWords(f)[2] = n /\ FrameWords(f)[3] = c
  BY FrameFacts DEF Draining, Known
<1>3. rxbuf[3] \in {c, Broken}
  <2>1. SentWord(rxbuf[3], 3)
    BY <1>1 DEF Draining
  <2> QED BY <1>2, <2>1 DEF SentWord
<1> DEFINE q == SubSeq(rxbuf, 1, rxlen - 1)
<1>4. q[1] = rxbuf[1] /\ q[2] = rxbuf[2]
  BY <1>1
<1> HIDE DEF h, n, q
<1>5. ASSUME CrcMatches PROVE rxbuf[1] = h /\ rxbuf[2] = n
  <2>1. rxbuf[3] = CrcOf(q)
    BY <1>1, <1>5 DEF CrcMatches, q
  <2>2. rxbuf[3].bytes = <<255>> /\ rxbuf[3].crc = q
    BY <2>1 DEF CrcOf, Word
  <2>3. Broken.bytes = <<254>>
    BY DEF Broken, Noise, Word
  <2>4. c.crc = <<h, n>>
    BY DEF CrcOf, Word
  <2>5. <<254>> # <<255>>
    OBVIOUS
  <2>6. rxbuf[3] = c
    BY <1>3, <2>2, <2>3, <2>5
  <2>7. q = <<h, n>>
    BY <2>2, <2>4, <2>6
  <2> QED BY <1>4, <2>7
<1>6. rxbuf # << >>
  BY <1>1
<1> QED BY <1>1, <1>2, <1>5, <1>6

\* The frame is parsed: stored, jumped to, or refused.
LEMMA DrainPhase ==
  ASSUME BootType, HeardInv, I2cInv, Running, UNCHANGED host, Drain
  PROVE  I2cInv'
<1> SUFFICES ASSUME host.mode = "CHECK_WITH_CRC" PROVE Phase'
  BY DEF I2cInv
<1>1. /\ pc = "FLAGS"
      /\ UNCHANGED <<host, gUseCRCFlg, rxbuf, rxlen, msg_i2c_apb, fifo_i2c_apb>>
  BY DEF Drain
<1>2. Draining /\ Before /\ NotYet
  BY <1>1, DrainingPhase
<1>3. CASE fifo_i2c_apb # << >>
  <2>1. pc' = "DATA" /\ UNCHANGED <<msg_apb_i2c, loaded, entry>>
    BY <1>3 DEF Drain, GoTo
  <2>2. UNCHANGED <<Before, Known, NotYet, Silent, NoMail>>
    BY <1>1, <2>1 DEF Before, Known, NotYet, Silent, NoMail
  <2>3. Draining'
    BY <1>1, <1>2, <2>1, <2>2 DEF Draining, SentWord
  <2> QED BY <1>2, <2>2, <2>3 DEF Phase
<1>4. CASE fifo_i2c_apb = << >>
  <2> DEFINE f == Frames[host.frame]
  <2>1. parseI2CProtocolFrame /\ pc' = "TICK"
    BY <1>4 DEF Drain, GoTo
  <2>2. rxlen = 3 /\ rxbuf # << >> /\ gUseCRCFlg /\ Known
    BY <1>2, <1>4, CrcFacts DEF Draining
  <2>3. UNCHANGED <<Known, NoMail>> /\ Known /\ NoMail /\ host.at = "AWAIT_ACK" /\ Silent
    BY <1>1, <1>2 DEF Known, NoMail, Draining
  <2>4. pc' \notin Busy
    BY <2>1 DEF Busy, I2cLabels
  <2>5. CASE ~CrcMatches
    <3>1. /\ UNCHANGED <<loaded, entry>> /\ msg_apb_i2c' = [data |-> "CORRUPTED", new |-> TRUE]
      BY <2>1, <2>2, <2>5 DEF parseI2CProtocolFrame, hal_set_i2cs_msg_apb_i2c
    <3>2. UNCHANGED <<Before, NotYet>>
      BY <1>1, <3>1 DEF Before, NotYet
    <3>3. Answered'
      BY <1>1, <1>2, <1>4, <2>2, <2>3, <2>4, <3>1, <3>2 DEF Answered
    <3> QED BY <1>2, <3>2, <3>3 DEF Phase
  <2>6. CASE CrcMatches
    <3>1. /\ f.cmd \in {"LOAD", "JUMP"}
          /\ rxbuf[1] = HeaderOf(f.cmd, f.address) /\ rxbuf[2] = Noise(f.bytes)
      BY <1>2, <1>4, <2>2, <2>6, CrcFacts, FrameFacts DEF Known
    <3>2. /\ rxbuf[1].sof = "HOST_TO_A2" /\ rxbuf[1].cmd = f.cmd
          /\ rxbuf[1].address = f.address /\ rxbuf[2].bytes = f.bytes
      BY <3>1 DEF HeaderOf, Noise, Word
    <3>3. CASE f.cmd = "LOAD"
      <4>1. /\ loaded' = loaded \cup {<<f.address, f.bytes>>} /\ UNCHANGED entry
            /\ msg_apb_i2c' = [data |-> "GOOD", new |-> TRUE]
        BY <2>1, <2>2, <2>6, <3>2, <3>3
           DEF parseI2CProtocolFrame, hal_set_i2cs_msg_apb_i2c, memcpy
      <4>2. loaded' = I2cData(host.frame)
        BY <1>2, <2>2, <3>3, <4>1, I2cDataNext DEF Before, Known
      <4>3. Answered'
        BY <1>1, <1>2, <1>4, <2>2, <2>3, <2>4, <4>1, <4>2 DEF Answered
      <4>4. NotYet'
        BY <1>2, <4>1 DEF NotYet
      <4> QED BY <4>3, <4>4 DEF Phase
    <3>4. CASE f.cmd = "JUMP"
      <4>1. entry' = f.address /\ UNCHANGED <<loaded, msg_apb_i2c>>
        BY <2>1, <2>2, <2>6, <3>2, <3>4 DEF parseI2CProtocolFrame, jump_to_address
      <4>2. Jumped'
        BY <1>1, <2>3, <2>4, <3>4, <4>1 DEF Jumped, Silent
      <4>3. Before'
        BY <1>1, <1>2, <4>1 DEF Before
      <4> QED BY <4>2, <4>3 DEF Phase
    <3> QED BY <3>1, <3>3, <3>4
  <2> QED BY <2>5, <2>6
<1> QED BY <1>3, <1>4

\* The host's side of the download.
LEMMA HostPhase ==
  ASSUME BootType, HeardInv, I2cInv, I2cHost
  PROVE  I2cInv'
<1>0. MailType /\ HostType /\ fifo_i2c_apb \in Seq(Words) /\ host.frame \in Nat
  BY DEF BootType, BusType, BufferType, HostType
<1>1. UNCHANGED <<gStopUartBootLoaderFlg, loaded, entry, pc, gUseCRCFlg, rxbuf, rxlen>>
  BY HostStill DEF shared, flags
<1>2. UNCHANGED NotYet
  BY <1>1 DEF NotYet
<1>3. CASE HostChecks
  <2>1. ~I2c'
    BY <1>0, <1>1, <1>3, HostChecksDoes DEF HeardInv, I2c
  <2> QED BY <2>1 DEF I2cInv
<1>4. CASE HostReadsReply
  <2>1. /\ msg_apb_i2c.new /\ ~msg_apb_i2c'.new /\ UNCHANGED <<msg_i2c_apb, fifo_i2c_apb>>
        /\ host'.mode = host.mode
    BY <1>0, <1>4, HostReplyDoes
  <2> SUFFICES ASSUME I2c, host.mode = "CHECK_WITH_CRC" PROVE Phase'
    BY <1>1, <2>1 DEF I2cInv, I2c
  <2>2. ((Welcomed /\ Before) \/ Answered) /\ NotYet
    BY <2>1 DEF I2cInv, Phase, Asked, Sending, Rung, Draining, Jumped, Silent
  <2>3. fifo_i2c_apb = << >> /\ pc \notin Busy /\ gUseCRCFlg /\ NoMail
    BY <2>2 DEF Welcomed, Answered
  <2>4. /\ host'.at = "SEND" /\ host'.word = 1 /\ loaded = I2cData(host'.frame - 1)
        /\ host'.frame - 1 \in 0 .. Len(Frames)
    <3>0. Len(Frames) \in Nat /\ DOMAIN Frames = 1 .. Len(Frames)
      BY BootAssumption
    <3>1. CASE Welcomed /\ Before
      BY <1>0, <1>4, <3>0, <3>1, HostReplyDoes DEF Welcomed, Before
    <3>2. CASE Answered
      <4>1. host.at = "AWAIT_ACK" /\ msg_apb_i2c.data \in {"GOOD", "CORRUPTED"}
        BY <3>2 DEF Answered
      <4>2. /\ host.frame + 1 - 1 = host.frame /\ host.frame \in 0 .. Len(Frames)
            /\ host.frame - 1 \in 0 .. Len(Frames)
        BY <1>0, <3>0, <3>2 DEF Answered, Known
      <4> QED BY <1>0, <1>4, <3>2, <4>1, <4>2, HostReplyDoes DEF Answered, Before
    <3> QED BY <2>2, <3>1, <3>2
  <2>5. Sending'
    BY <1>1, <2>1, <2>3, <2>4 DEF Sending, Silent, NoMail, Sent
  <2> QED BY <1>1, <1>2, <2>2, <2>4, <2>5 DEF Phase, Before
<1>5. CASE HostPushes
  <2>1. /\ host.at = "SEND" /\ host.frame \in DOMAIN Frames /\ host.word \in 1 .. 3
        /\ host'.at = "SEND" /\ host'.mode = host.mode
        /\ host'.frame = host.frame /\ host'.word = host.word + 1
        /\ UNCHANGED <<msg_i2c_apb, msg_apb_i2c>>
    BY <1>0, <1>5, HostPushesDoes
  <2> SUFFICES ASSUME I2c, host.mode = "CHECK_WITH_CRC" PROVE Phase'
    BY <1>1, <2>1 DEF I2cInv, I2c
  <2>2. Sending /\ Before /\ NotYet
    BY <2>1 DEF I2cInv, Phase, Asked, Welcomed, Rung, Draining, Answered, Jumped
  <2>3. PICK w : SentWord(w, host.word) /\ fifo_i2c_apb' = Append(fifo_i2c_apb, w)
    BY <1>0, <1>5, HostPushesDoes DEF SentWord
  <2>4. /\ Len(fifo_i2c_apb) = host.word - 1
        /\ \A i \in DOMAIN fifo_i2c_apb : SentWord(fifo_i2c_apb[i], i)
    BY <2>2 DEF Sending, Sent
  <2>5. Len(fifo_i2c_apb') = host'.word - 1
    BY <1>0, <2>1, <2>3, <2>4
  <2>6. ASSUME NEW i \in DOMAIN fifo_i2c_apb' PROVE SentWord(fifo_i2c_apb'[i], i)
    <3>1. CASE i = host.word
      <4>1. fifo_i2c_apb'[i] = w
        BY <1>0, <2>1, <2>3, <2>4, <3>1
      <4> QED BY <2>3, <3>1, <4>1
    <3>2. CASE i # host.word
      <4>1. i \in DOMAIN fifo_i2c_apb /\ fifo_i2c_apb'[i] = fifo_i2c_apb[i]
        BY <1>0, <2>1, <2>3, <2>4, <3>2
      <4> QED BY <2>4, <4>1
    <3> QED BY <3>1, <3>2
  <2>7. Sent'
    BY <2>1, <2>6 DEF Sent, SentWord
  <2>8. Sending'
    BY <1>1, <2>1, <2>2, <2>5, <2>7 DEF Sending, Silent, NoMail, Known
  <2> QED BY <1>1, <1>2, <2>1, <2>2, <2>8 DEF Phase, Before
<1>6. CASE HostRings
  <2>1. /\ host.at = "SEND" /\ host.word = 4 /\ host'.mode = host.mode
        /\ host'.at = IF host.mode = "CHECK_WITH_CRC" THEN "AWAIT_ACK" ELSE "AWAIT_EMPTY"
        /\ host'.frame = host.frame
        /\ msg_i2c_apb'.data = "NEW_FRAME" /\ msg_i2c_apb'.new
        /\ UNCHANGED <<msg_apb_i2c, fifo_i2c_apb>>
    BY <1>0, <1>6, HostRingsDoes
  <2> SUFFICES ASSUME I2c, host.mode = "CHECK_WITH_CRC" PROVE Phase'
    BY <1>1, <2>1 DEF I2cInv, I2c
  <2>2. Sending /\ Before /\ NotYet
    BY <2>1 DEF I2cInv, Phase, Asked, Welcomed, Rung, Draining, Answered, Jumped
  <2>3. Sent' = Sent
    BY <2>1 DEF Sent, SentWord
  <2>4. Rung'
    BY <1>1, <2>1, <2>2, <2>3 DEF Sending, Rung, Silent, Known, Busy, I2cLabels
  <2> QED BY <1>1, <1>2, <2>1, <2>2, <2>4 DEF Phase, Before
<1>7. CASE HostSeesEmpty
  <2>1. host.at = "AWAIT_EMPTY" /\ host'.mode = host.mode
    BY <1>0, <1>7, HostSeesEmptyDoes
  <2>2. ~(I2c /\ host.mode = "CHECK_WITH_CRC")
    BY <2>1 DEF I2cInv, Phase, Asked, Welcomed, Sending, Rung, Draining, Answered, Jumped
  <2> QED BY <1>1, <2>1, <2>2 DEF I2cInv, I2c
<1> QED BY <1>3, <1>4, <1>5, <1>6, <1>7 DEF I2cHost

\* Every step takes the download to one of its phases.
LEMMA NextPhase ==
  BootType /\ LoaderInv /\ HeardInv /\ I2cInv /\ [Next]_vars => I2cInv'
<1> SUFFICES ASSUME BootType, LoaderInv, HeardInv, I2cInv, [Next]_vars PROVE I2cInv'
  OBVIOUS
<1>1. CASE ReadResetReason
  <2>1. /\ pc = "RESET" /\ pc' = "START" /\ UNCHANGED <<shared, i2cvars, host>>
    BY <1>1 DEF ReadResetReason, outside
  <2> QED BY <2>1, PhaseKept DEF Busy, I2cLabels, shared, flags, i2cvars, mailbox
<1>2. CASE Start
  <2>1. /\ pc = "START" /\ pc' \in {"FLASH", "LOOP"} /\ UNCHANGED <<shared, host>>
        /\ UNCHANGED <<gUseCRCFlg, rxbuf, rxlen, msg_i2c_apb, fifo_i2c_apb>>
    BY <1>2 DEF Start, world, outside, i2cvars, mailbox
  <2>2. UNCHANGED msg_apb_i2c
    BY <1>2, <2>1 DEF Start, HeardInv, i2cvars, mailbox
  <2> QED BY <2>1, <2>2, PhaseKept DEF Busy, I2cLabels, shared, flags
<1>3. CASE LoopJtag
  <2>1. /\ entry = NoEntry /\ entry' = JtagEntry
        /\ UNCHANGED <<flags, loaded, pc, i2cvars, host>>
    BY <1>3 DEF LoopJtag, Ready, Running, jump_to_address, world, outside
  <2> QED BY <2>1, PhaseKept DEF flags, i2cvars, mailbox
<1>4. CASE LoopUart
  <2>1. pc = "LOOP" /\ pc' = "I2C_GATE" /\ UNCHANGED <<i2cvars, host>>
    BY <1>4 DEF LoopUart, world, outside
  <2>2. CASE gStopUartBootLoaderFlg
    <3>1. UNCHANGED shared
      BY <1>4, <2>2 DEF LoopUart
    <3> QED BY <2>1, <3>1, PhaseKept DEF Busy, I2cLabels, shared, flags, i2cvars, mailbox
  <2>3. CASE ~gStopUartBootLoaderFlg
    <3>1. UNCHANGED gStopUartBootLoaderFlg
      BY <1>4, <2>3, UartKeepsFlags DEF LoopUart
    <3> QED BY <2>3, <3>1 DEF I2cInv, I2c
  <2> QED BY <2>2, <2>3
<1>5. CASE LoopI2c \/ Tick
  <2>1. /\ pc \in {"I2C_GATE", "TICK"} /\ pc' \in {"I2C", "TICK", "LOOP"}
        /\ UNCHANGED <<shared, i2cvars, host>>
    BY <1>5 DEF LoopI2c, Tick, world, outside
  <2> QED BY <2>1, PhaseKept DEF Busy, I2cLabels, shared, flags, i2cvars, mailbox
<1>6. CASE I2cStep
  <2>1. processI2CProtocolFrames /\ Running /\ UNCHANGED host
    BY <1>6 DEF I2cStep, Ready, world, outside
  <2> QED BY <2>1, StatusPhase, CheckPhase, NewFramePhase, ReadDataPhase, DrainPhase
          DEF processI2CProtocolFrames
<1>7. CASE CharacterTime \/ ScriptReads \/ Debugger \/ UNCHANGED vars
  <2>1. UNCHANGED <<shared, pc, i2cvars, host>>
    BY <1>7 DEF CharacterTime, ScriptReads, Debugger, vars, world, outside
  <2> QED BY <2>1, PhaseKept DEF shared, flags, i2cvars, mailbox
<1>8. CASE I2cHost
  BY <1>8, HostPhase
<1> QED BY <1>1, <1>2, <1>3, <1>4, <1>5, <1>6, <1>7, <1>8 DEF Next, ROM

\* At reset no host has been heard.
LEMMA InitPhase == Init => I2cInv
  BY DEF Init, BootInit, I2cInv, I2c

(***************************************************************************)
(* What a download over I2C with CRCs leaves in memory, whatever the UART  *)
(* receives meanwhile.                                                     *)
(***************************************************************************)
I2cDownload ==
    gStopUartBootLoaderFlg /\ ~Unchecked =>
      /\ I2cData(host.frame - 1) \subseteq loaded
      /\ loaded \subseteq I2cData(Len(Frames))
      /\ entry \in {NoEntry, JtagEntry} \cup I2cEntries
      /\ JumpFrameIsLast =>
            entry \in {NoEntry, JtagEntry} \/ loaded = I2cData(Len(Frames))

\* Frames are stored in their order.
LEMMA I2cDataGrows ==
  ASSUME NEW m \in Nat, NEW n \in Nat, m <= n
  PROVE  I2cData(m) \subseteq I2cData(n)
<1> DEFINE J(k) == {j \in 1 .. k : Frames[j].cmd = "LOAD"}
           P(j) == <<Frames[j].address, Frames[j].bytes>>
<1>1. J(m) \subseteq J(n)
  OBVIOUS
<1>2. I2cData(m) = {P(j) : j \in J(m)} /\ I2cData(n) = {P(j) : j \in J(n)}
  BY DEF I2cData
<1> HIDE DEF J, P
<1> QED BY <1>1, <1>2

\* In every phase of the download the memory is as it should be.
LEMMA PhaseMemory ==
  ASSUME BootType, HeardInv, I2cInv
  PROVE  I2cDownload
<1>0. host.frame \in Nat \ {0} /\ host.mode \in Modes \cup {"none"}
  BY DEF BootType, BusType, HostType
<1> SUFFICES ASSUME I2c, ~Unchecked
             PROVE  /\ I2cData(host.frame - 1) \subseteq loaded
                    /\ loaded \subseteq I2cData(Len(Frames))
                    /\ entry \in {NoEntry, JtagEntry} \cup I2cEntries
                    /\ JumpFrameIsLast =>
                          entry \in {NoEntry, JtagEntry} \/ loaded = I2cData(Len(Frames))
  BY DEF I2cDownload, I2c
<1>1. Phase
  BY <1>0 DEF I2cInv, HeardInv, Unchecked, Modes
<1>2. Len(Frames) \in Nat /\ DOMAIN Frames = 1 .. Len(Frames)
  BY BootAssumption
<1>3. /\ host.frame - 1 \in Nat /\ host.frame - 1 <= Len(Frames)
      /\ Known => host.frame <= Len(Frames)
  <2>1. host.frame = 1 \/ Known \/ host.frame - 1 \in 0 .. Len(Frames)
    BY <1>1 DEF Phase, Asked, Welcomed, Sending, Rung, Draining, Answered, Jumped
  <2> QED BY <1>0, <1>2, <2>1 DEF Known
<1>4. I2cData(host.frame - 1) \subseteq I2cData(Len(Frames))
  BY <1>2, <1>3, I2cDataGrows
<1>5. Known => /\ I2cData(host.frame - 1) \subseteq I2cData(host.frame)
               /\ I2cData(host.frame) \subseteq I2cData(Len(Frames))
  BY <1>0, <1>2, <1>3, I2cDataGrows
<1>6. CASE Before
  <2>1. loaded = I2cData(host.frame - 1)
    BY <1>6 DEF Before
  <2>2. NotYet \/ Jumped
    BY <1>1 DEF Phase
  <2>3. CASE NotYet
    BY <1>4, <2>1, <2>3 DEF NotYet
  <2>4. CASE Jumped
    <3>1. Known /\ Frames[host.frame].cmd = "JUMP" /\ entry = Frames[host.frame].address
      BY <2>4 DEF Jumped
    <3>2. entry \in I2cEntries
      BY <3>1 DEF I2cEntries, Known
    <3>3. JumpFrameIsLast => loaded = I2cData(Len(Frames))
      <4>1. loaded = I2cData(host.frame)
        BY <2>1, <3>1, I2cDataNext DEF Known
      <4>2. JumpFrameIsLast => host.frame = Len(Frames)
        BY <3>1 DEF JumpFrameIsLast, Known
      <4> QED BY <4>1, <4>2
    <3> QED BY <1>4, <2>1, <3>2, <3>3
  <2> QED BY <2>2, <2>3, <2>4
<1>7. CASE ~Before
  <2>1. Known /\ loaded = I2cData(host.frame) /\ NotYet
    BY <1>1, <1>7 DEF Phase, Answered
  <2> QED BY <1>5, <2>1 DEF NotYet
<1> QED BY <1>6, <1>7

(***************************************************************************)
(* For all frames and any number of corrupted words, and whatever is on    *)
(* the UART: once the I2C host has been heard and uses CRCs, the memory    *)
(* holds the frames that were acknowledged and nothing but frames of this  *)
(* host, and the ROM jumps only to an address of its jump frames, after    *)
(* all the others if the jump comes last.                                  *)
(***************************************************************************)
THEOREM I2cDownloadSound == Spec => []I2cDownload
<1>1. Spec => [](BootType /\ LoaderInv /\ HeardInv /\ I2cInv)
  <2>1. Init => BootType /\ LoaderInv /\ HeardInv /\ I2cInv
    BY InitType, InitLoaderInv, InitHeard, InitPhase
  <2>2. BootType /\ LoaderInv /\ HeardInv /\ I2cInv /\ [Next]_vars
          => (BootType /\ LoaderInv /\ HeardInv /\ I2cInv)'
    BY NextType, NextLoaderInv, NextHeard, NextPhase
  <2> QED BY <2>1, <2>2, PTL DEF Spec
<1>2. BootType /\ HeardInv /\ I2cInv => I2cDownload
  BY PhaseMemory
<1> QED BY <1>1, <1>2, PTL

-----------------------------------------------------------------------------
(* The UART download: how far the loader has got in the current line *)

TheLine == Image[script.line - 1]

\* The line with one digit corrupted, and the line as it may be received.
OneOff(line) == UNION {{Hit(line, i, d) : d \in Flips(line[i])} :
                          i \in {j \in 3 .. Len(line) - 1 : Field(j) \in HitFields}}
Arriving(line) == {line} \cup (IF errors > 0 THEN OneOff(line) ELSE {})

(***************************************************************************)
(* What an error leaves of the layout of a record: there is room for the   *)
(* address, m bytes of data and the checksum, whatever the count says.     *)
(***************************************************************************)
Layout(line, m) ==
    /\ m \in 0 .. 255 /\ Len(line) = DataAt(line) + 2 * m + 2
    /\ line[1] = CharS /\ line[2] \in {0} \cup StoredTypes \cup JumpTypes
    /\ \A i \in 3 .. Len(line) - 1 : line[i] \in 0 .. 15
    /\ line[Len(line)] = CharLF
    /\ line[2] \notin JumpTypes => m > 0

\* The characters from first on, up to the one before p.
Taken(line, first, p) == /\ Len(uart.buf) = p - first
                         /\ \A i \in 1 .. p - first : uart.buf[i] = line[first + i - 1]

Typed(line) == uart.type = line[2] /\ uart.addrSize = AddressBytes(line)

\* The state of the machine when the next character is the p-th.
AtStart(line, p) == p = 1 /\ uart.state = "IDLE"
AtType(line, p)  == p = 2 /\ uart.state = "RECORD_TYPE"
AtCount(line, p) == /\ p \in {3, 4} /\ uart.state = "COUNT" /\ Typed(line)
                    /\ Taken(line, 3, p)
AtAddress(line, p) ==
    /\ p \in 5 .. DataAt(line) - 1 /\ uart.state = "ADDRESS" /\ Typed(line)
    /\ uart.dataCount = DataBytes(line) % UINT16 /\ uart.chk = ByteOf(line, 3)
    /\ Taken(line, 5, p)

\* j bytes of data are complete.
Collected(line, p) ==
    \E j \in 0 .. DataBytes(line) :
      /\ p \in {DataAt(line) + 2 * j, DataAt(line) + 2 * j + 1}
      /\ Taken(line, DataAt(line) + 2 * j, p)
      /\ Len(uart.data) = j /\ \A i \in 1 .. j : uart.data[i] = RecordData(line)[i]
AtData(line, p) ==
    /\ p \in DataAt(line) .. CrcAt(line) - 1 /\ uart.state = "DATA" /\ Typed(line)
    /\ line[2] \notin JumpTypes /\ Complete(line)
    /\ uart.dataCount = DataBytes(line) /\ uart.chk = HeadSum(line)
    /\ uart.address = RecordAddress(line) /\ uart.rxd = p - DataAt(line)
    /\ Collected(line, p)

AtCrc(line, p) ==
    /\ p \in {CrcAt(line), CrcAt(line) + 1} /\ uart.state = "CRC" /\ Typed(line)
    /\ Complete(line)
    /\ uart.chk = FullSum(line) /\ uart.address = RecordAddress(line)
    /\ line[2] \notin JumpTypes => uart.data = RecordData(line)
    /\ Taken(line, CrcAt(line), p)

Parsed(line, p) == \/ AtStart(line, p) \/ AtType(line, p) \/ AtCount(line, p)
                   \/ AtAddress(line, p) \/ AtData(line, p) \/ AtCrc(line, p)

\* The characters from the p-th on are in the receive FIFO or not sent yet.
Coming(line, p) ==
    /\ Len(uart_rx) <= 1
    /\ p + Len(uart_rx) + Len(script.out) = Len(line) + 1
    /\ uart_rx # << >> => uart_rx[1] = line[p]
    /\ \A i \in DOMAIN script.out : script.out[i] = line[Len(line) - Len(script.out) + i]

\* The script waits for an answer: the line is still on its way, or its last
\* predecessor's line end is.
InLine ==
    \/ \E got \in Arriving(TheLine) : \E p \in 1 .. Len(got) - 1 :
          Parsed(got, p) /\ Coming(got, p)
    \/ /\ uart.state = "TERMINATION" /\ Len(uart_rx) = 1 /\ script.out = TheLine

\* The record is complete but for its line end.
LineDone ==
    \/ uart.state = "TERMINATION" /\ Len(uart_rx) + Len(script.out) = 1
    \/ uart.state = "IDLE" /\ uart_rx = << >> /\ script.out = << >>

\* By a corrupted count the record wants more than the rest of the line.
Rest == Len(uart_rx) + Len(script.out)
Starved == \/ /\ uart.state = "DATA" /\ uart.rxd + Rest < 1000
              /\ uart.rxd + Rest < 2 * uart.dataCount + 2
           \/ uart.state = "CRC" /\ Len(uart.buf) + Rest < 2

\* The record was refused, and in what is left of the line no new one begins.
NoStart(s) == \A i \in DOMAIN s : s[i] # CharS
Rejected == /\ uart.state \in {"TERMINATION", "IDLE"}
            /\ NoStart(uart_rx) /\ NoStart(script.out)

\* A line that noise has hit may leave the loader in any state, but there is no
\* second 'S' in it.
Noisy == NoStart(uart_rx) /\ NoStart(script.out)

Stored(n) == loaded = UartData(n)

\* Before the first 'S' is heard: no line is out, or the first line is.
Calling ==
    \/ /\ script.line = 1 /\ script.out = << >> /\ uart_rx = << >>
       /\ \/ uart_tx.left = 0 /\ script.inbox \in {<< >>, <<"BOOTME">>}
          \/ uart_tx.left > 0 /\ uart_tx.text = "BOOTME" /\ script.inbox = << >>
    \/ /\ script.line = 2 /\ 1 \in DOMAIN Image
       /\ uart_tx.left = 0 /\ script.inbox = << >>
       /\ Running /\ ~I2c => \E got \in Arriving(TheLine) : Coming(got, 1)

Waiting == uart_tx.left = 0 /\ script.inbox = << >>
Replying == uart_tx.left > 0 /\ uart_tx.text = "OK" /\ script.inbox = << >>
Replied == uart_tx.left = 0 /\ script.inbox = <<"OK">>
Refusing == \/ uart_tx.left > 0 /\ uart_tx.text = "NOT OK" /\ script.inbox = << >>
            \/ uart_tx.left = 0 /\ script.inbox \in {<< >>, <<"NOT OK">>}

JumpedTo(line) == line[2] \in JumpTypes /\ entry = RecordAddress(line)

Heard ==
    /\ script.line - 1 \in DOMAIN Image
    /\ \/ /\ Waiting /\ Stored(script.line - 2)
          /\ \/ NotYet /\ (Running => InLine)
             \/ JumpedTo(TheLine)
       \/ /\ Replying \/ Replied
          /\ script.line \in DOMAIN Image
          /\ Stored(script.line - 1)
          /\ NotYet /\ (Running => LineDone)
       \/ /\ Refusing /\ Stored(script.line - 2)
          /\ NotYet /\ (Running => Starved \/ Rejected)

UartInv == IF Uart THEN Heard ELSE Calling
\* Two hex digits make a byte.
LEMMA ByteFacts ==
  ASSUME NEW line, NEW i \in Nat, line[i] \in 0 .. 15, line[i + 1] \in 0 .. 15
  PROVE  ByteOf(line, i) \in Byte
  BY DEF ByteOf, Byte

\* The numbers of a layout.
LEMMA LayoutFacts ==
  ASSUME NEW line \in Seq(Chars), NEW m, Layout(line, m)
  PROVE  /\ AddressBytes(line) \in 2 .. 4 /\ ByteOf(line, 3) \in 0 .. 255
         /\ DataBytes(line) = ByteOf(line, 3) - AddressBytes(line) - 1
         /\ DataBytes(line) \in -5 .. 252
         /\ DataAt(line) = 5 + 2 * AddressBytes(line)
         /\ m \in 0 .. 255 /\ Len(line) = DataAt(line) + 2 * m + 2
         /\ Len(line) \in Nat /\ Len(line) > 10
         /\ \A i \in 3 .. Len(line) - 1 : line[i] \in 0 .. 15
         /\ line[2] \in {0} \cup StoredTypes \cup JumpTypes
<1>1. AddressBytes(line) \in 2 .. 4
  BY DEF AddressBytes
<1>2. /\ m \in 0 .. 255 /\ Len(line) = DataAt(line) + 2 * m + 2
      /\ \A i \in 3 .. Len(line) - 1 : line[i] \in 0 .. 15
      /\ line[2] \in {0} \cup StoredTypes \cup JumpTypes
  BY DEF Layout
<1> DEFINE a == AddressBytes(line)
           b == ByteOf(line, 3)
           n == Len(line)
<1>3. DataAt(line) = 5 + 2 * a
  BY DEF DataAt
<1>4. n \in Nat /\ n > 10
  <2>1. a \in 2 .. 4 /\ n = 5 + 2 * a + 2 * m + 2 /\ n \in Nat
    BY <1>1, <1>2, <1>3
  <2> HIDE DEF a, n
  <2> QED BY <1>2, <2>1
<1>5. line[3] \in 0 .. 15 /\ line[3 + 1] \in 0 .. 15
  <2>1. 3 \in 3 .. n - 1 /\ 3 + 1 \in 3 .. n - 1
    <3> HIDE DEF n
    <3> QED BY <1>4
  <2> QED BY <1>2, <2>1
<1>6. b \in 0 .. 255
  BY <1>5, ByteFacts DEF Byte
<1>7. DataBytes(line) = b - a - 1
  BY DEF DataBytes
<1>8. b - a - 1 \in -5 .. 252
  <2> HIDE DEF a, b
  <2>1. a \in 2 .. 4
    BY <1>1 DEF a
  <2> QED BY <1>6, <2>1
<1> QED BY <1>1, <1>2, <1>3, <1>4, <1>6, <1>7, <1>8

\* Where the checksum of a record is that is complete by its own count.
LEMMA CompleteFacts ==
  ASSUME NEW line \in Seq(Chars), NEW m, Layout(line, m), Complete(line)
  PROVE  /\ CrcAt(line) \in Nat /\ CrcAt(line) >= DataAt(line) /\ CrcAt(line) + 2 <= Len(line)
         /\ DataAt(line) \in Nat /\ DataAt(line) >= 9
         /\ line[2] \in JumpTypes => CrcAt(line) = DataAt(line)
         /\ line[2] \notin JumpTypes =>
               /\ DataBytes(line) \in 0 .. 252
               /\ DataBytes(line) = 0 => CrcAt(line) = DataAt(line) + 1
               /\ DataBytes(line) > 0 => CrcAt(line) = DataAt(line) + 2 * DataBytes(line)
<1> DEFINE a == AddressBytes(line)
           d == DataBytes(line)
           e == DataAt(line)
           c == CrcAt(line)
<1>1. a \in 2 .. 4 /\ e = 5 + 2 * a /\ d \in -5 .. 252
  BY LayoutFacts
<1>2. /\ line[2] \in JumpTypes => c = e + 0
      /\ line[2] \notin JumpTypes => /\ d >= 0
                                     /\ d = 0 => c = e + 1
                                     /\ d # 0 => c = e + 2 * d
      /\ c + 2 <= Len(line)
  BY DEF CrcAt, Complete
<1> HIDE DEF a, c, d, e
<1>3. /\ c \in Nat /\ c >= e /\ e \in Nat /\ e >= 9
      /\ line[2] \in JumpTypes => c = e
      /\ line[2] \notin JumpTypes => /\ d \in 0 .. 252
                                     /\ d = 0 => c = e + 1
                                     /\ d > 0 => c = e + 2 * d
  BY <1>1, <1>2
<1> QED BY <1>2, <1>3 DEF c, d, e

\* A character below 16 is a digit.
LEMMA LowChar ==
  ASSUME NEW c \in Chars, c < 16
  PROVE  c \in 0 .. 15
  BY DEF Chars, CharLF

\* A well-formed record is complete, and its checksum comes last.
LEMMA RecordFacts ==
  ASSUME NEW line \in Seq(Chars), SRecord(line)
  PROVE  /\ Layout(line, DataBytes(line)) /\ Complete(line) /\ CrcAt(line) = Len(line) - 2
         /\ DataBytes(line) \in 0 .. 255 /\ DataAt(line) \in Nat
         /\ CrcAt(line) = DataAt(line) + 2 * DataBytes(line)
<1> DEFINE a == AddressBytes(line)
           b == ByteOf(line, 3)
           d == DataBytes(line)
           e == DataAt(line)
           n == Len(line)
           c == CrcAt(line)
<1>1. /\ n > 4 /\ n = 2 * b + 5 /\ n \in Nat
      /\ line[1] = CharS /\ line[2] \in {0} \cup StoredTypes \cup JumpTypes
      /\ \A i \in 3 .. n - 1 : line[i] < 16
      /\ line[n] = CharLF
      /\ IF line[2] \in JumpTypes THEN d = 0 ELSE d > 0
  BY DEF SRecord
<1>2. a \in 2 .. 4 /\ e = 5 + 2 * a /\ d = b - a - 1
  BY DEF AddressBytes, DataAt, DataBytes
<1>3. ASSUME NEW i \in 3 .. n - 1 PROVE line[i] \in 0 .. 15
  <2>1. line[i] < 16
    BY <1>1
  <2>2. line[i] \in Chars
    <3>1. i \in 1 .. n
      BY <1>1
    <3> QED BY <3>1 DEF n
  <2> QED BY <2>1, <2>2, LowChar, Zenon
<1>4. line[3] \in 0 .. 15 /\ line[3 + 1] \in 0 .. 15
  <2>1. 3 \in 3 .. n - 1 /\ 3 + 1 \in 3 .. n - 1
    <3> HIDE DEF n
    <3> QED BY <1>1
  <2> QED BY <1>3, <2>1
<1>5. b \in 0 .. 255
  BY <1>4, ByteFacts DEF Byte
<1>6. c = e + (IF line[2] \in JumpTypes THEN 0 ELSE IF d = 0 THEN 1 ELSE 2 * d)
  BY DEF CrcAt
<1>7. /\ d \in 0 .. 255 /\ n = e + 2 * d + 2 /\ c = n - 2 /\ c + 2 <= n /\ d >= 0 /\ e \in Nat
      /\ c = e + 2 * d
      /\ line[2] \notin JumpTypes => d > 0
  <2> HIDE DEF a, b, c, d, e, n
  <2> QED BY <1>1, <1>2, <1>5, <1>6
<1>8. Layout(line, d)
  <2>1. d \in 0 .. 255 /\ Len(line) = DataAt(line) + 2 * d + 2
    BY <1>7
  <2> HIDE DEF d
  <2> QED BY <1>1, <1>3, <1>7, <2>1 DEF Layout
<1>9. Complete(line)
  BY <1>7 DEF Complete
<1> QED BY <1>7, <1>8, <1>9

\* atoh of digits of the line yields the bytes of the line.
LEMMA AtohBytes ==
  ASSUME NEW s \in Seq(Chars), NEW line, NEW first \in Nat, NEW m \in Nat, Len(s) = 2 * m,
         \A i \in 1 .. 2 * m : s[i] = line[first + i - 1] /\ s[i] < 16
  PROVE  atoh(s) = Bytes(line, first, m)
<1>1. atoh(s) = [b \in 1 .. m |-> 16 * s[2 * b - 1] + s[2 * b]]
  BY AtohEven
<1>2. ASSUME NEW b \in 1 .. m
      PROVE  16 * s[2 * b - 1] + s[2 * b] = ByteOf(line, first + 2 * (b - 1))
  <2>1. 2 * b - 1 \in 1 .. 2 * m /\ 2 * b \in 1 .. 2 * m
    OBVIOUS
  <2>2. /\ first + (2 * b - 1) - 1 = first + 2 * (b - 1)
        /\ first + 2 * b - 1 = (first + 2 * (b - 1)) + 1
    OBVIOUS
  <2>3. s[2 * b - 1] = line[first + 2 * (b - 1)] /\ s[2 * b] = line[(first + 2 * (b - 1)) + 1]
    BY <2>1, <2>2
  <2> QED BY <2>3 DEF ByteOf
<1> DEFINE g(b) == 16 * s[2 * b - 1] + s[2 * b]
           h(b) == ByteOf(line, first + 2 * (b - 1))
<1>3. \A b \in 1 .. m : g(b) = h(b)
  BY <1>2
<1>4. atoh(s) = [b \in 1 .. m |-> g(b)] /\ Bytes(line, first, m) = [b \in 1 .. m |-> h(b)]
  BY <1>1 DEF Bytes
<1> HIDE DEF g, h
<1> QED BY <1>3, <1>4

\* The buffer with the next character of the line.
LEMMA TakenNext ==
  ASSUME LoaderType, NEW line, NEW first \in Nat, NEW p \in Nat, first <= p,
         Taken(line, first, p), lChar = line[p], lChar \in Chars
  PROVE  /\ Filled \in Seq(Chars) /\ Len(Filled) = p + 1 - first
         /\ \A i \in 1 .. p + 1 - first : Filled[i] = line[first + i - 1]
<1>1. /\ Filled \in Seq(Chars) /\ Len(Filled) = Len(uart.buf) + 1 /\ uart.buf \in Seq(Chars)
  BY FilledTyped DEF LoaderType
<1>2. Len(uart.buf) = p - first /\ \A i \in 1 .. p - first : uart.buf[i] = line[first + i - 1]
  BY DEF Taken
<1>3. ASSUME NEW i \in 1 .. p + 1 - first PROVE Filled[i] = line[first + i - 1]
  <2>1. CASE i = p + 1 - first
    <3>1. Filled[i] = lChar /\ first + i - 1 = p
      BY <1>1, <1>2, <2>1 DEF Filled
    <3> QED BY <3>1
  <2>2. CASE i # p + 1 - first
    <3>1. i \in 1 .. p - first
      BY <2>2
    <3>2. Filled[i] = uart.buf[i]
      BY <1>1, <1>2, <3>1 DEF Filled
    <3> QED BY <1>2, <3>1, <3>2
  <2> QED BY <2>1, <2>2
<1> QED BY <1>1, <1>2, <1>3

\* A character in a given state means a call of this state's action.
LEMMA Dispatch ==
  ASSUME LoaderType, processUartProtocolFrames, uart_rx # << >>
  PROVE  /\ uart.state = "IDLE" => Idle
         /\ uart.state = "RECORD_TYPE" => RecordType
         /\ uart.state = "COUNT" => Count
         /\ uart.state = "ADDRESS" => Address
         /\ uart.state = "DATA" => Data
         /\ uart.state = "CRC" => Crc
         /\ uart.state = "TERMINATION" => Termination
         /\ uart_rx' = Tail(uart_rx) /\ lChar \in Chars
<1>1. ~NoCharacter
  BY DEF NoCharacter
<1>2. \E s : Reads(s)
  BY <1>1 DEF processUartProtocolFrames, Idle, RecordType, Count, Address, Data, Crc, Termination
<1>3. uart_rx' = Tail(uart_rx)
  BY <1>2 DEF Reads
<1>4. lChar \in Chars
  BY DEF LoaderType, lChar
<1>5. (Count => uart.state = "COUNT") /\ (Address => uart.state = "ADDRESS")
      /\ (Data => uart.state = "DATA") /\ (Crc => uart.state = "CRC")
      /\ (Termination => uart.state = "TERMINATION")
  BY DEF Count, Address, Data, Crc, Termination, Reads
<1>6. (Idle => uart.state = "IDLE") /\ (RecordType => uart.state = "RECORD_TYPE")
  BY DEF Idle, RecordType, Reads
<1> QED BY <1>1, <1>3, <1>4, <1>5, <1>6 DEF processUartProtocolFrames

\* The type of the record and the size of its address.
LEMMA TypeStep ==
  ASSUME LoaderType, NEW line \in Seq(Chars), NEW m, Layout(line, m), uart.state = "RECORD_TYPE",
         lChar = line[2], RecordType
  PROVE  AtCount(line, 3)' /\ UNCHANGED <<shared, uart_tx>>
<1>1. DOMAIN uart = Fields
  BY DEF LoaderType, UartWidths
<1>2. line[2] \in {0, 1, 2, 3, 7, 8, 9}
  BY LayoutFacts DEF StoredTypes, JumpTypes
<1> DEFINE size == AddressSize(lChar)
<1>3. size = AddressBytes(line)
  BY <1>2 DEF AddressSize, AddressBytes
<1>4. uart' = [uart EXCEPT !.type = lChar, !.addrSize = size, !.state = "COUNT",
                           !.buf = << >>, !.chk = 0]
  BY <1>2 DEF RecordType, KnownTypes
<1> HIDE DEF size
<1>5. /\ uart'.type = line[2] /\ uart'.addrSize = size /\ uart'.state = "COUNT"
      /\ uart'.buf = << >>
  BY <1>1, <1>4 DEF Fields
<1>6. Taken(line, 3, 3)'
  BY <1>5 DEF Taken
<1>7. UNCHANGED <<shared, uart_tx>>
  BY DEF RecordType, Quiet
<1> QED BY <1>3, <1>5, <1>6, <1>7 DEF AtCount, Typed

\* The count, digit by digit.
LEMMA CountStep ==
  ASSUME LoaderType, NEW line \in Seq(Chars), NEW m, Layout(line, m), NEW p, AtCount(line, p),
         lChar = line[p], lChar \in Chars, Count
  PROVE  /\ (p = 3 /\ AtCount(line, 4)') \/ (p = 4 /\ AtAddress(line, 5)')
         /\ UNCHANGED <<shared, uart_tx>>
<1>1. DOMAIN uart = Fields /\ uart.state = "COUNT" /\ uart.chk = 0
  BY DEF LoaderType, UartWidths, AtCount
<1>2. UNCHANGED <<shared, uart_tx>>
  BY DEF Count, Quiet
<1>3. p \in {3, 4} /\ Typed(line) /\ Taken(line, 3, p)
  BY DEF AtCount
<1>4. /\ Filled \in Seq(Chars) /\ Len(Filled) = p + 1 - 3
      /\ \A i \in 1 .. p + 1 - 3 : Filled[i] = line[3 + i - 1]
  BY <1>3, TakenNext
<1>5. CASE p = 3
  <2>1. uart' = [uart EXCEPT !.buf = Filled]
    BY <1>4, <1>5 DEF Count
  <2>2. /\ uart'.buf = Filled /\ uart'.state = "COUNT" /\ uart'.type = uart.type
        /\ uart'.addrSize = uart.addrSize
    BY <1>1, <2>1 DEF Fields
  <2>3. Len(uart'.buf) = 4 - 3 /\ \A i \in 1 .. 4 - 3 : uart'.buf[i] = line[3 + i - 1]
    BY <1>4, <1>5, <2>2
  <2>4. Taken(line, 3, 4)'
    BY <2>3 DEF Taken
  <2> QED BY <1>2, <1>3, <1>5, <2>2, <2>4 DEF AtCount, Typed
<1>6. CASE p = 4
  <2> DEFINE total == atoh(Filled)[1]
  <2>1. uart' = [uart EXCEPT !.dataCount = DataCount(total), !.chk = uart.chk + total,
                             !.buf = << >>, !.state = "ADDRESS"]
    BY <1>4, <1>6 DEF Count
  <2>2. total = ByteOf(line, 3)
    <3>1. \A i \in 3 .. Len(line) - 1 : line[i] \in 0 .. 15
      BY LayoutFacts
    <3>2. Len(line) > 10 /\ Len(line) \in Nat
      BY LayoutFacts
    <3> DEFINE one == 1
    <3>3. one \in Nat /\ one = 1 /\ Len(Filled) = 2 * one /\ p + 1 - 3 = 2 * one
      BY <1>4, <1>6
    <3> HIDE DEF one
    <3>4. ASSUME NEW i \in 1 .. 2 * one PROVE Filled[i] = line[3 + i - 1] /\ Filled[i] < 16
      <4>1. 3 + i - 1 \in 3 .. Len(line) - 1
        BY <3>2, <3>3
      <4>2. line[3 + i - 1] \in 0 .. 15
        BY <3>1, <4>1
      <4>3. Filled[i] = line[3 + i - 1]
        BY <1>4, <3>3
      <4> QED BY <4>2, <4>3, SMTT(30)
    <3>6. atoh(Filled) = Bytes(line, 3, one)
      <4>1. /\ Filled \in Seq(Chars) /\ 3 \in Nat /\ one \in Nat /\ Len(Filled) = 2 * one
            /\ \A i \in 1 .. 2 * one : Filled[i] = line[3 + i - 1] /\ Filled[i] < 16
        BY <1>4, <3>3, <3>4
      <4> QED BY <4>1, AtohBytes, Zenon
    <3>7. Bytes(line, 3, 1)[1] = ByteOf(line, 3 + 2 * (1 - 1)) /\ 3 + 2 * (1 - 1) = 3
      BY DEF Bytes
    <3> QED BY <3>3, <3>6, <3>7
  <2> DEFINE dc == DataCount(total)
  <2>3. dc = DataBytes(line) % UINT16 /\ uart.chk + total = ByteOf(line, 3)
    <3> DEFINE b == ByteOf(line, 3)
    <3>1. b \in 0 .. 255
      BY LayoutFacts
    <3>2. dc = (b - AddressBytes(line) - 1) % UINT16
      BY <1>3, <2>2 DEF DataCount, Typed
    <3>3. uart.chk + total = b
      <4>1. uart.chk + total = 0 + b
        BY <1>1, <2>2
      <4> HIDE DEF b
      <4> QED BY <3>1, <4>1
    <3> QED BY <3>2, <3>3 DEF DataBytes
  <2> HIDE DEF total, dc
  <2>4. /\ uart'.dataCount = dc /\ uart'.chk = uart.chk + total /\ uart'.buf = << >>
        /\ uart'.state = "ADDRESS" /\ uart'.type = uart.type /\ uart'.addrSize = uart.addrSize
    BY <1>1, <2>1 DEF Fields, dc
  <2>5. Taken(line, 5, 5)'
    BY <2>4 DEF Taken
  <2>6. 5 \in 5 .. DataAt(line) - 1
    <3> DEFINE a == AddressBytes(line)
    <3>1. a \in 2 .. 4 /\ DataAt(line) = 5 + 2 * a
      BY LayoutFacts
    <3> HIDE DEF a
    <3> QED BY <3>1
  <2> QED BY <1>2, <1>3, <1>6, <2>3, <2>4, <2>5, <2>6 DEF AtAddress, Typed
<1> QED BY <1>3, <1>5, <1>6

\* The machine has come to the data of a record that is not complete.
Overrun(line) == /\ line[2] \notin JumpTypes /\ ~Complete(line)
                 /\ uart'.state = "DATA" /\ uart'.rxd = 0
                 /\ uart'.dataCount = DataBytes(line) % UINT16

\* The address, and the turn to the data or, in a jump record, to the checksum.
LEMMA AddressStep ==
  ASSUME LoaderType, NEW line \in Seq(Chars), NEW m, Layout(line, m), NEW p, AtAddress(line, p),
         lChar = line[p], lChar \in Chars, Address
  PROVE  /\ \/ AtAddress(line, p + 1)' \/ AtData(line, p + 1)' \/ AtCrc(line, p + 1)'
            \/ p + 1 = DataAt(line) /\ Overrun(line)
         /\ UNCHANGED <<shared, uart_tx>>
<1> DEFINE a == AddressBytes(line)
           d == DataBytes(line)
<1>1. DOMAIN uart = Fields /\ uart.state = "ADDRESS"
  BY DEF LoaderType, UartWidths, AtAddress
<1>2. UNCHANGED <<shared, uart_tx>>
  BY DEF Address, Quiet
<1>3. /\ a \in 2 .. 4 /\ d \in -5 .. 252 /\ DataAt(line) = 5 + 2 * a
      /\ m \in 0 .. 255 /\ Len(line) = DataAt(line) + 2 * m + 2
      /\ \A i \in 3 .. Len(line) - 1 : line[i] \in 0 .. 15
      /\ line[2] \in {0} \cup StoredTypes \cup JumpTypes
  BY LayoutFacts
<1>4. /\ p \in 5 .. DataAt(line) - 1 /\ Typed(line) /\ Taken(line, 5, p)
      /\ uart.type = line[2] /\ uart.addrSize = a
      /\ uart.dataCount = d % UINT16 /\ uart.chk = ByteOf(line, 3)
  BY DEF AtAddress, Typed
<1> HIDE DEF a, d
<1>5. p \in Nat /\ 5 <= p /\ p <= 4 + 2 * a
  BY <1>3, <1>4
<1>6. /\ Filled \in Seq(Chars) /\ Len(Filled) = p + 1 - 5
      /\ \A i \in 1 .. p + 1 - 5 : Filled[i] = line[5 + i - 1]
  BY <1>4, <1>5, TakenNext
<1>7. CASE p < 4 + 2 * a
  <2>1. uart' = [uart EXCEPT !.buf = Filled]
    BY <1>3, <1>4, <1>5, <1>6, <1>7 DEF Address
  <2>2. /\ uart'.buf = Filled /\ uart'.state = "ADDRESS" /\ uart'.type = uart.type
        /\ uart'.addrSize = uart.addrSize /\ uart'.dataCount = uart.dataCount
        /\ uart'.chk = uart.chk
    BY <1>1, <2>1 DEF Fields
  <2>3. Taken(line, 5, p + 1)'
    <3>1. /\ Len(uart'.buf) = p + 1 - 5
          /\ \A i \in 1 .. p + 1 - 5 : uart'.buf[i] = line[5 + i - 1]
      BY <1>6, <2>2, Zenon
    <3> QED BY <1>5, <3>1, SMTT(30) DEF Taken
  <2>4. p + 1 \in 5 .. DataAt(line) - 1
    BY <1>3, <1>5, <1>7
  <2>5. AtAddress(line, p + 1)'
    BY <1>4, <2>2, <2>3, <2>4 DEF AtAddress, Typed, d
  <2> QED BY <1>2, <2>5
<1>8. CASE p = 4 + 2 * a
  <2> DEFINE address == atoh(Filled)
             chk == (uart.chk + SumBytes(address)) % UINT16
             state == CASE uart.type \in {0} \cup StoredTypes -> "DATA"
                        [] uart.type \in JumpTypes -> "CRC"
                        [] OTHER -> "ADDRESS"
  <2>1. uart' = [uart EXCEPT !.address = address, !.chk = chk, !.buf = << >>, !.rxd = 0,
                             !.data = << >>, !.state = state]
    <3>1. ~(Len(Filled) < 2 * uart.addrSize)
      BY <1>3, <1>4, <1>6, <1>8
    <3> QED BY <3>1 DEF Address
  <2>2. address = RecordAddress(line)
    <3>1. p + 1 - 5 = 2 * a /\ a \in Nat
      BY <1>3, <1>8
    <3>2. \A i \in 1 .. 2 * a : Filled[i] = line[5 + i - 1]
      BY <1>6, <3>1
    <3>3. ASSUME NEW i \in 1 .. 2 * a PROVE Filled[i] = line[5 + i - 1] /\ Filled[i] < 16
      <4>1. 5 + i - 1 \in 3 .. Len(line) - 1
        BY <1>3
      <4>2. line[5 + i - 1] \in 0 .. 15
        BY <1>3, <4>1
      <4>3. Filled[i] = line[5 + i - 1]
        BY <3>2
      <4> QED BY <4>2, <4>3
    <3>4. atoh(Filled) = Bytes(line, 5, a)
      <4>1. /\ Filled \in Seq(Chars) /\ 5 \in Nat /\ a \in Nat /\ Len(Filled) = 2 * a
            /\ \A i \in 1 .. 2 * a : Filled[i] = line[5 + i - 1] /\ Filled[i] < 16
        BY <1>6, <3>1, <3>3
      <4> QED BY <4>1, AtohBytes, Zenon
    <3> QED BY <3>4 DEF RecordAddress, a
  <2>3. chk = HeadSum(line)
    BY <1>4, <2>2 DEF HeadSum
  <2>4. /\ line[2] \in JumpTypes => state = "CRC"
        /\ line[2] \notin JumpTypes => state = "DATA"
    BY <1>3, <1>4 DEF StoredTypes, JumpTypes
  <2> HIDE DEF address, chk, state
  <2>5. /\ uart'.address = address /\ uart'.chk = chk /\ uart'.buf = << >> /\ uart'.rxd = 0
        /\ uart'.data = << >> /\ uart'.state = state /\ uart'.type = uart.type
        /\ uart'.addrSize = uart.addrSize /\ uart'.dataCount = uart.dataCount
    BY <1>1, <2>1 DEF Fields
  <2>6. Typed(line)'
    BY <1>4, <2>5 DEF Typed, a
  <2>7. p + 1 = DataAt(line)
    BY <1>3, <1>8
  <2>8. CASE line[2] \in JumpTypes
    <3>1. CrcAt(line) = DataAt(line) + 0
      BY <2>8 DEF CrcAt
    <3>2. p + 1 = CrcAt(line) /\ CrcAt(line) + 2 <= Len(line)
      BY <1>3, <2>7, <3>1
    <3>3. Taken(line, p + 1, p + 1)'
      BY <1>5, <2>5 DEF Taken
    <3>4. Complete(line)
      BY <2>8, <3>2 DEF Complete
    <3>5. AtCrc(line, p + 1)'
      BY <2>2, <2>3, <2>4, <2>5, <2>6, <2>8, <3>2, <3>3, <3>4 DEF AtCrc, FullSum
    <3> QED BY <1>2, <3>5
  <2>9. CASE line[2] \notin JumpTypes /\ Complete(line)
    <3>1. /\ d \in 0 .. 252 /\ DataAt(line) \in Nat
          /\ d = 0 => CrcAt(line) = DataAt(line) + 1
          /\ d > 0 => CrcAt(line) = DataAt(line) + 2 * d
      BY <2>9, CompleteFacts DEF d
    <3>2. p + 1 \in DataAt(line) .. CrcAt(line) - 1
      BY <2>7, <3>1, SMTT(30)
    <3>3. 0 \in 0 .. d /\ p + 1 = DataAt(line) + 2 * 0 /\ 0 = (p + 1) - DataAt(line)
      BY <2>7, <3>1
    <3>4. Taken(line, DataAt(line) + 2 * 0, p + 1)'
      BY <1>5, <2>5, <3>3 DEF Taken
    <3>5. Len(uart'.data) = 0 /\ \A i \in 1 .. 0 : uart'.data[i] = RecordData(line)[i]
      BY <2>5
    <3>6. Collected(line, p + 1)'
      BY <3>3, <3>4, <3>5 DEF Collected, d
    <3>7. d % UINT16 = d
      BY <3>1 DEF UINT16
    <3>8. AtData(line, p + 1)'
      BY <1>4, <2>2, <2>3, <2>4, <2>5, <2>6, <2>9, <3>2, <3>3, <3>6, <3>7 DEF AtData, d
    <3> QED BY <1>2, <3>8
  <2>10. CASE line[2] \notin JumpTypes /\ ~Complete(line)
    BY <1>2, <1>4, <2>4, <2>5, <2>7, <2>10 DEF Overrun, d
  <2> QED BY <2>8, <2>9, <2>10
<1> QED BY <1>3, <1>5, <1>7, <1>8

\* The low byte of a sum is the same with 16 bits as without a limit.
LEMMA LowByte ==
  ASSUME NEW x \in Nat, NEW y \in Nat
  PROVE  /\ (x % UINT16) % 256 = x % 256
         /\ (((x % UINT16) + y) % UINT16) % 256 = (x + y) % 256
<1>1. ASSUME NEW z \in Nat PROVE (z % UINT16) % 256 = z % 256
  BY DEF UINT16
<1>2. x % UINT16 \in Nat /\ ((x % UINT16) + y) % UINT16 = (x + y) % UINT16
  BY DEF UINT16
<1> QED BY <1>1, <1>2

\* The bytes of a record.
LEMMA BytesFacts ==
  ASSUME NEW line, NEW first \in Nat, NEW n \in Nat,
         \A i \in first .. first + 2 * n - 1 : line[i] \in 0 .. 15
  PROVE  /\ Bytes(line, first, n) \in Seq(Byte) /\ Len(Bytes(line, first, n)) = n
         /\ \A k \in 1 .. n : Bytes(line, first, n)[k] = ByteOf(line, first + 2 * (k - 1))
<1> DEFINE h(k) == ByteOf(line, first + 2 * (k - 1))
<1>1. ASSUME NEW k \in 1 .. n PROVE h(k) \in Byte
  <2> DEFINE i == first + 2 * (k - 1)
  <2>1. i \in first .. first + 2 * n - 1 /\ i + 1 \in first .. first + 2 * n - 1 /\ i \in Nat
    OBVIOUS
  <2> HIDE DEF i
  <2>2. line[i] \in 0 .. 15 /\ line[i + 1] \in 0 .. 15
    BY <2>1
  <2>3. ByteOf(line, i) \in Byte
    BY <2>1, <2>2, ByteFacts
  <2> QED BY <2>3 DEF i
<1>2. Bytes(line, first, n) = [k \in 1 .. n |-> h(k)]
  BY DEF Bytes
<1> HIDE DEF h
<1>3. /\ Bytes(line, first, n) \in Seq(Byte) /\ Len(Bytes(line, first, n)) = n
      /\ \A k \in 1 .. n : Bytes(line, first, n)[k] = h(k)
  BY <1>1, <1>2
<1> QED BY <1>3 DEF h

\* The address of a record, and its data if it is complete.
LEMMA RecordParts ==
  ASSUME NEW line \in Seq(Chars), NEW m, Layout(line, m)
  PROVE  /\ RecordAddress(line) \in Seq(Byte)
         /\ Len(RecordAddress(line)) = AddressBytes(line)
         /\ \A k \in 1 .. AddressBytes(line) :
               RecordAddress(line)[k] = ByteOf(line, 5 + 2 * (k - 1))
         /\ RecordAddress(line) # NoEntry
         /\ line[2] \notin JumpTypes /\ Complete(line) =>
               /\ RecordData(line) \in Seq(Byte) /\ Len(RecordData(line)) = DataBytes(line)
               /\ \A k \in 1 .. DataBytes(line) :
                     RecordData(line)[k] = ByteOf(line, DataAt(line) + 2 * (k - 1))
<1> DEFINE a == AddressBytes(line)
           d == DataBytes(line)
           n == Len(line)
           e == DataAt(line)
<1>1. /\ a \in 2 .. 4 /\ e = 5 + 2 * a /\ n = e + 2 * m + 2 /\ m \in 0 .. 255
      /\ \A i \in 3 .. n - 1 : line[i] \in 0 .. 15
  BY LayoutFacts
<1>2. RecordAddress(line) = Bytes(line, 5, a) /\ RecordData(line) = Bytes(line, e, d)
  BY DEF RecordAddress, RecordData, DataAt, DataBytes
<1> HIDE DEF a, n, e
<1>3. ASSUME NEW i \in 5 .. 5 + 2 * a - 1 PROVE line[i] \in 0 .. 15
  <2>1. i \in 3 .. n - 1
    BY <1>1
  <2> QED BY <1>1, <2>1
<1>4. a \in Nat /\ e \in Nat /\ 5 \in Nat
  BY <1>1
<1>5. /\ Bytes(line, 5, a) \in Seq(Byte) /\ Len(Bytes(line, 5, a)) = a
      /\ \A k \in 1 .. a : Bytes(line, 5, a)[k] = ByteOf(line, 5 + 2 * (k - 1))
  BY <1>3, <1>4, BytesFacts
<1>6. RecordAddress(line) # NoEntry
  BY <1>1, <1>2, <1>5 DEF NoEntry
<1>7. ASSUME line[2] \notin JumpTypes, Complete(line)
      PROVE  /\ Bytes(line, e, d) \in Seq(Byte) /\ Len(Bytes(line, e, d)) = d
             /\ \A k \in 1 .. d : Bytes(line, e, d)[k] = ByteOf(line, e + 2 * (k - 1))
  <2> DEFINE c == CrcAt(line)
  <2>1. d \in 0 .. 252 /\ (d > 0 => c = e + 2 * d) /\ c + 2 <= n
    BY <1>7, CompleteFacts DEF e, n
  <2> HIDE DEF c, d
  <2>2. ASSUME NEW i \in e .. e + 2 * d - 1 PROVE line[i] \in 0 .. 15
    <3>1. i \in 3 .. n - 1
      BY <1>1, <2>1
    <3> QED BY <1>1, <3>1
  <2>3. d \in Nat
    BY <2>1
  <2> QED BY <1>4, <2>2, <2>3, BytesFacts
<1> QED BY <1>2, <1>5, <1>6, <1>7 DEF a, e

\* One more byte at the end.
LEMMA OneMore ==
  ASSUME NEW s \in Seq(Byte), NEW t \in Seq(Byte), NEW j \in Nat, Len(s) = j, Len(t) = 1
  PROVE  /\ s \o t \in Seq(Byte) /\ Len(s \o t) = j + 1
         /\ (s \o t)[j + 1] = t[1] /\ \A i \in 1 .. j : (s \o t)[i] = s[i]
<1>0. /\ s \o t \in Seq(Byte) /\ Len(s \o t) = Len(s) + Len(t)
      /\ \A i \in 1 .. Len(s) + Len(t) :
            (s \o t)[i] = IF i <= Len(s) THEN s[i] ELSE t[i - Len(s)]
  BY ConcatProperties, Zenon
<1>1. /\ s \o t \in Seq(Byte) /\ Len(s \o t) = j + 1
      /\ \A i \in 1 .. j + 1 : (s \o t)[i] = IF i <= j THEN s[i] ELSE t[i - j]
  BY <1>0, Zenon
<1>2. j + 1 \in 1 .. j + 1 /\ ~(j + 1 <= j) /\ (j + 1) - j = 1
  OBVIOUS
<1>3. (s \o t)[j + 1] = t[1]
  BY <1>1, <1>2
<1>4. ASSUME NEW i \in 1 .. j PROVE (s \o t)[i] = s[i]
  <2>1. i \in 1 .. j + 1 /\ i <= j
    OBVIOUS
  <2> QED BY <1>1, <2>1
<1> QED BY <1>1, <1>3, <1>4

\* The data, digit by digit, and the turn to the checksum.
LEMMA DataStep ==
  ASSUME LoaderType, NEW line \in Seq(Chars), NEW m, Layout(line, m), NEW p, AtData(line, p),
         lChar = line[p], lChar \in Chars, Data
  PROVE  /\ AtData(line, p + 1)' \/ AtCrc(line, p + 1)'
         /\ UNCHANGED <<shared, uart_tx>>
<1> DEFINE d == DataBytes(line)
           e == DataAt(line)
           bytes == RecordData(line)
<1>1. DOMAIN uart = Fields /\ uart.state = "DATA" /\ uart.data \in Seq(Byte)
  BY DEF LoaderType, UartWidths, AtData
<1>2. UNCHANGED <<shared, uart_tx>>
  BY DEF Data, Quiet
<1>3. /\ d \in 0 .. 252 /\ e \in Nat /\ e >= 9
      /\ d = 0 => CrcAt(line) = e + 1
      /\ d > 0 => CrcAt(line) = e + 2 * d
      /\ CrcAt(line) \in Nat /\ CrcAt(line) + 2 <= Len(line) /\ Len(line) \in Nat
      /\ \A i \in 3 .. Len(line) - 1 : line[i] \in 0 .. 15
      /\ Complete(line)
  <2>1. line[2] \notin JumpTypes /\ Complete(line)
    BY DEF AtData
  <2>2. Len(line) \in Nat /\ \A i \in 3 .. Len(line) - 1 : line[i] \in 0 .. 15
    BY LayoutFacts
  <2> QED BY <2>1, <2>2, CompleteFacts, Zenon
<1>4. /\ p \in e .. CrcAt(line) - 1 /\ Typed(line)
      /\ uart.type = line[2] /\ uart.addrSize = AddressBytes(line)
      /\ line[2] \notin JumpTypes
      /\ uart.dataCount = d /\ uart.chk = HeadSum(line)
      /\ uart.address = RecordAddress(line) /\ uart.rxd = p - e
  BY DEF AtData, Typed
<1>5. PICK j \in 0 .. d :
         /\ p \in {e + 2 * j, e + 2 * j + 1}
         /\ Taken(line, e + 2 * j, p)
         /\ Len(uart.data) = j /\ \A i \in 1 .. j : uart.data[i] = bytes[i]
  BY DEF AtData, Collected
<1>6. /\ bytes \in Seq(Byte) /\ Len(bytes) = d
      /\ \A k \in 1 .. d : bytes[k] = ByteOf(line, e + 2 * (k - 1))
  BY <1>3, <1>4, RecordParts
<1> DEFINE first == e + 2 * j
<1>7. /\ Filled \in Seq(Chars) /\ Len(Filled) = p + 1 - first
      /\ \A i \in 1 .. p + 1 - first : Filled[i] = line[first + i - 1]
      /\ first \in Nat /\ p \in Nat
  <2> HIDE DEF d, e
  <2>1. first \in Nat /\ p \in Nat /\ first <= p
    BY <1>3, <1>5
  <2>2. Taken(line, first, p)
    BY <1>5
  <2> HIDE DEF first
  <2> QED BY <2>1, <2>2, TakenNext
<1> DEFINE whole == Len(Filled) = 2
           data == IF whole THEN uart.data \o atoh(Filled) ELSE uart.data
           rxd == (uart.rxd + 1) % UINT16
           chk == (uart.chk + SumBytes(data)) % UINT16
<1>8. uart' = IF DataDone(rxd)
              THEN [uart EXCEPT !.data = data, !.buf = << >>, !.rxd = 0, !.chk = chk,
                                !.state = "CRC"]
              ELSE [uart EXCEPT !.data = data, !.rxd = rxd,
                                !.buf = IF whole THEN << >> ELSE Filled]
  BY DEF Data
<1> HIDE DEF d, e, bytes
<1>0. d \in Nat /\ e \in Nat /\ p \in Nat /\ j \in Nat
  BY <1>3, <1>5, <1>7
<1>9. rxd = p + 1 - e /\ rxd \in Nat
  <2>1. uart.rxd + 1 = p + 1 - e /\ uart.rxd + 1 \in 0 .. 1000
    BY <1>3, <1>4, <1>5
  <2>2. rxd = p + 1 - e
    <3> DEFINE x == uart.rxd + 1
    <3>1. x \in 0 .. 1000
      BY <2>1
    <3> HIDE DEF x
    <3>2. x % UINT16 = x
      BY <3>1 DEF UINT16
    <3> QED BY <2>1, <3>2 DEF x
  <2> HIDE DEF rxd
  <2>3. uart.rxd + 1 \in Nat
    <3> DEFINE x == uart.rxd + 1
    <3>1. x \in 0 .. 1000
      BY <2>1
    <3> HIDE DEF x
    <3>2. x \in Nat
      BY <3>1
    <3> QED BY <3>2 DEF x
  <2> QED BY <2>1, <2>2, <2>3, ZenonT(30)
<1>12. d > 0 => j \in 0 .. d - 1
  BY <1>0, <1>3, <1>4, <1>5
<1>13. CASE d = 0
  <2>1. j = 0 /\ p = e /\ p + 1 = CrcAt(line) /\ p + 1 - first = 1
    BY <1>0, <1>3, <1>4, <1>5, <1>13
  <2>2. ~whole
    BY <1>7, <2>1
  <2>3. DataDone(rxd)
    <3> HIDE DEF rxd
    <3> QED BY <1>4, <1>9, <1>13 DEF DataDone
  <2>4. data = uart.data
    BY <2>2
  <2>5. data = bytes
    <3>1. Len(data) = 0 /\ Len(bytes) = 0 /\ data \in Seq(Byte)
      BY <1>1, <1>5, <1>6, <1>13, <2>1, <2>4
    <3> HIDE DEF data
    <3> QED BY <1>6, <3>1
  <2>6. uart' = [uart EXCEPT !.data = data, !.buf = << >>, !.rxd = 0, !.chk = chk,
                             !.state = "CRC"]
    <3> HIDE DEF data, whole, rxd, chk
    <3> QED BY <1>8, <2>3
  <2>7. chk = FullSum(line)
    <3> HIDE DEF data
    <3> QED BY <1>4, <2>5 DEF FullSum, bytes
  <2> HIDE DEF data, chk
  <2>8. /\ uart'.data = data /\ uart'.chk = chk /\ uart'.buf = << >>
        /\ uart'.state = "CRC" /\ uart'.type = uart.type /\ uart'.addrSize = uart.addrSize
        /\ uart'.address = uart.address
    BY <1>1, <2>6 DEF Fields
  <2>9. Taken(line, CrcAt(line), p + 1)'
    <3>1. (p + 1) - CrcAt(line) = 0
      <4> DEFINE c == CrcAt(line)
      <4>1. p + 1 = c
        BY <2>1
      <4> HIDE DEF c
      <4>2. (p + 1) - c = 0
        BY <1>0, <4>1
      <4> QED BY <4>2 DEF c
    <3> QED BY <2>8, <3>1 DEF Taken
  <2>10. AtCrc(line, p + 1)'
    BY <1>3, <1>4, <2>1, <2>5, <2>7, <2>8, <2>9 DEF AtCrc, Typed, bytes
  <2> QED BY <1>2, <2>10
<1>10. CASE p = first /\ d > 0
  <2>1. ~whole /\ ~DataDone(rxd) /\ p + 1 = e + 2 * j + 1
    <3> HIDE DEF rxd
    <3> QED BY <1>0, <1>4, <1>5, <1>7, <1>9, <1>10, <1>12 DEF DataDone
  <2>2. uart' = [uart EXCEPT !.data = uart.data, !.rxd = rxd, !.buf = Filled]
    <3> HIDE DEF whole, rxd, chk
    <3> QED BY <1>8, <2>1
  <2> HIDE DEF rxd
  <2>3. /\ uart'.data = uart.data /\ uart'.rxd = rxd /\ uart'.buf = Filled
        /\ uart'.state = "DATA" /\ uart'.type = uart.type /\ uart'.addrSize = uart.addrSize
        /\ uart'.dataCount = uart.dataCount /\ uart'.chk = uart.chk
        /\ uart'.address = uart.address
    BY <1>1, <2>2 DEF Fields
  <2>4. Taken(line, first, p + 1)'
    <3> HIDE DEF first
    <3>1. /\ Len(uart'.buf) = p + 1 - first
          /\ \A i \in 1 .. p + 1 - first : uart'.buf[i] = line[first + i - 1]
      BY <1>7, <2>3, Zenon
    <3> QED BY <1>7, <3>1 DEF Taken
  <2>5. p + 1 \in e .. CrcAt(line) - 1
    <3> DEFINE c == CrcAt(line)
    <3>1. c = e + 2 * d /\ j \in 0 .. d - 1 /\ p + 1 = e + 2 * j + 1
      BY <1>3, <1>10, <1>12, <2>1
    <3> HIDE DEF c
    <3>2. p + 1 \in e .. c - 1
      BY <1>0, <3>1
    <3> QED BY <3>2 DEF c
  <2>6. Collected(line, p + 1)'
    <3>1. /\ j \in 0 .. d /\ p + 1 \in {e + 2 * j, e + 2 * j + 1}
          /\ Taken(line, e + 2 * j, p + 1)'
          /\ Len(uart'.data) = j /\ \A i \in 1 .. j : uart'.data[i] = bytes[i]
      BY <1>5, <2>1, <2>3, <2>4
    <3> USE DEF d, e, bytes
    <3> QED BY <3>1, Zenon DEF Collected
  <2>7. Typed(line)'
    BY <1>4, <2>3 DEF Typed
  <2>8. AtData(line, p + 1)'
    <3>1. /\ uart'.state = "DATA" /\ uart'.dataCount = d /\ uart'.chk = HeadSum(line)
          /\ uart'.address = RecordAddress(line) /\ uart'.rxd = p + 1 - e
      BY <1>4, <1>9, <2>3
    <3>2. line[2] \notin JumpTypes
      BY <1>4
    <3> QED BY <1>0, <1>3, <1>7, <2>5, <2>6, <2>7, <3>1, <3>2 DEF AtData, d, e
  <2> QED BY <1>2, <2>8
<1>11. CASE p = first + 1 /\ d > 0
  <2>1. whole /\ p + 1 = e + 2 * (j + 1) /\ j \in Nat /\ j + 1 \in 1 .. d
    <3>1. p + 1 - first = 2 /\ p + 1 = e + 2 * (j + 1)
      BY <1>0, <1>11
    <3>2. j \in Nat /\ j + 1 \in 1 .. d
      BY <1>0, <1>11, <1>12
    <3> QED BY <1>7, <3>1, <3>2, Zenon
  <2>2. atoh(Filled) = Bytes(line, first, 1)
    <3> DEFINE one == 1
    <3>1. one = 1 /\ one \in Nat /\ Len(Filled) = 2 * one /\ p + 1 - first = 2 * one
      BY <1>7, <1>11
    <3> HIDE DEF one, first
    <3>2. ASSUME NEW i \in 1 .. 2 * one PROVE Filled[i] = line[first + i - 1] /\ Filled[i] < 16
      <4> DEFINE x == first + i - 1
      <4>1. Filled[i] = line[x]
        BY <1>7, <3>1
      <4>2. x \in 3 .. Len(line) - 1
        BY <1>0, <1>3, <1>4, <1>5, <1>7, <1>11, <1>12, <3>1 DEF first
      <4> HIDE DEF x
      <4>3. line[x] \in 0 .. 15
        BY <1>3, <4>2
      <4>4. Filled[i] = line[x] /\ Filled[i] < 16
        <5>1. line[x] < 16
          <6> DEFINE c == line[x]
          <6>1. c \in 0 .. 15
            BY <4>3
          <6> HIDE DEF c
          <6>2. c < 16
            BY <6>1
          <6> QED BY <6>2 DEF c
        <5> QED BY <4>1, <5>1, Zenon
      <4> QED BY <4>4 DEF x
    <3>3. atoh(Filled) = Bytes(line, first, one)
      <4>1. /\ Filled \in Seq(Chars) /\ first \in Nat /\ one \in Nat /\ Len(Filled) = 2 * one
            /\ \A i \in 1 .. 2 * one : Filled[i] = line[first + i - 1] /\ Filled[i] < 16
        BY <1>7, <3>1, <3>2
      <4> QED BY <4>1, AtohBytes, Zenon
    <3> QED BY <3>1, <3>3
  <2>3. /\ data \in Seq(Byte) /\ Len(data) = j + 1
        /\ \A i \in 1 .. j + 1 : data[i] = bytes[i]
    <3>1. atoh(Filled) = [k \in 1 .. 1 |-> ByteOf(line, first + 2 * (k - 1))]
      BY <2>2 DEF Bytes
    <3>2. Len(atoh(Filled)) = 1 /\ atoh(Filled)[1] = ByteOf(line, first)
      <4> HIDE DEF first
      <4>1. first + 2 * (1 - 1) = first
        BY <1>7
      <4> QED BY <3>1, <4>1
    <3>3. ByteOf(line, first) = bytes[j + 1]
      <4>1. e + 2 * ((j + 1) - 1) = first
        BY <1>3, <2>1
      <4> HIDE DEF first
      <4> QED BY <1>6, <2>1, <4>1
    <3>4. atoh(Filled) \in Seq(Byte)
      BY <1>7, AtohType
    <3>5. data = uart.data \o atoh(Filled)
      BY <2>1
    <3> HIDE DEF data
    <3>6. /\ data \in Seq(Byte) /\ Len(data) = j + 1
          /\ data[j + 1] = atoh(Filled)[1] /\ \A i \in 1 .. j : data[i] = uart.data[i]
      BY <1>1, <1>5, <2>1, <3>2, <3>4, <3>5, OneMore, ZenonT(30)
    <3>7. ASSUME NEW i \in 1 .. j + 1 PROVE data[i] = bytes[i]
      <4>1. CASE i = j + 1
        BY <3>2, <3>3, <3>6, <4>1
      <4>2. CASE i # j + 1
        <5>1. i \in 1 .. j
          BY <2>1, <4>2
        <5> QED BY <1>5, <3>6, <5>1
      <4> QED BY <4>1, <4>2
    <3> QED BY <3>6, <3>7
  <2>4. CASE j + 1 < d
    <3>1. ~DataDone(rxd)
      <4> HIDE DEF whole, rxd
      <4> QED BY <1>3, <1>4, <1>9, <2>1, <2>4 DEF DataDone
    <3>2. uart' = [uart EXCEPT !.data = data, !.rxd = rxd, !.buf = << >>]
      <4> HIDE DEF data, whole, rxd, chk
      <4> QED BY <1>8, <2>1, <3>1
    <3> HIDE DEF data, rxd
    <3>3. /\ uart'.data = data /\ uart'.rxd = rxd /\ uart'.buf = << >>
          /\ uart'.state = "DATA" /\ uart'.type = uart.type /\ uart'.addrSize = uart.addrSize
          /\ uart'.dataCount = uart.dataCount /\ uart'.chk = uart.chk
          /\ uart'.address = uart.address
      BY <1>1, <3>2 DEF Fields
    <3>4. Taken(line, p + 1, p + 1)'
      BY <1>7, <3>3 DEF Taken
    <3>5. p + 1 \in e .. CrcAt(line) - 1 /\ j + 1 \in 0 .. d
      BY <1>3, <1>11, <2>1, <2>4
    <3>6. Collected(line, p + 1)'
      <4>1. Taken(line, e + 2 * (j + 1), p + 1)'
        BY <2>1, <3>4, Zenon
      <4>2. /\ j + 1 \in 0 .. d /\ p + 1 \in {e + 2 * (j + 1), e + 2 * (j + 1) + 1}
            /\ Len(uart'.data) = j + 1 /\ \A i \in 1 .. j + 1 : uart'.data[i] = bytes[i]
        BY <2>1, <2>3, <3>3, <3>5
      <4> USE DEF d, e, bytes
      <4> QED BY <4>1, <4>2, Zenon DEF Collected
    <3>7. Typed(line)'
      BY <1>4, <3>3 DEF Typed
    <3>8. AtData(line, p + 1)'
      <4>1. /\ uart'.state = "DATA" /\ uart'.dataCount = d /\ uart'.chk = HeadSum(line)
            /\ uart'.address = RecordAddress(line) /\ uart'.rxd = p + 1 - e
        BY <1>4, <1>9, <3>3
      <4>2. line[2] \notin JumpTypes
        BY <1>4
      <4> QED BY <1>0, <1>3, <1>7, <3>5, <3>6, <3>7, <4>1, <4>2 DEF AtData, d, e
    <3> QED BY <1>2, <3>8
  <2>5. CASE ~(j + 1 < d)
    <3>1. DataDone(rxd) /\ j + 1 = d /\ p + 1 = CrcAt(line)
      <4> HIDE DEF whole, rxd
      <4> QED BY <1>3, <1>4, <1>9, <1>11, <2>1, <2>5 DEF DataDone
    <3>2. data = bytes
      <4> HIDE DEF data
      <4> QED BY <1>6, <2>3, <3>1, SeqEqual
    <3>3. uart' = [uart EXCEPT !.data = data, !.buf = << >>, !.rxd = 0, !.chk = chk,
                               !.state = "CRC"]
      <4> HIDE DEF data, whole, rxd, chk
      <4> QED BY <1>8, <3>1
    <3>4. chk = FullSum(line)
      <4> HIDE DEF data
      <4> QED BY <1>4, <3>2 DEF FullSum, bytes
    <3> HIDE DEF data, chk
    <3>5. /\ uart'.data = data /\ uart'.chk = chk /\ uart'.buf = << >>
          /\ uart'.state = "CRC" /\ uart'.type = uart.type /\ uart'.addrSize = uart.addrSize
          /\ uart'.address = uart.address
      BY <1>1, <3>3 DEF Fields
    <3>6. Taken(line, CrcAt(line), p + 1)'
      BY <1>7, <3>1, <3>5 DEF Taken
    <3>7. AtCrc(line, p + 1)'
      BY <1>3, <1>4, <3>1, <3>2, <3>4, <3>5, <3>6 DEF AtCrc, Typed, bytes
    <3> QED BY <1>2, <3>7
  <2> QED BY <2>4, <2>5, <2>1, <1>3
<1> QED BY <1>3, <1>5, <1>10, <1>11, <1>13

\* The low byte of the loader's sum is that of the sum of the record's bytes.
LEMMA LowSum ==
  ASSUME NEW line \in Seq(Chars), NEW m, Layout(line, m), Complete(line)
  PROVE  /\ SumBytes(RecordAddress(line)) \in Nat
         /\ line[2] \in JumpTypes =>
              FullSum(line) % 256 = (ByteOf(line, 3) + SumBytes(RecordAddress(line))) % 256
         /\ line[2] \notin JumpTypes =>
              /\ SumBytes(RecordData(line)) \in Nat
              /\ FullSum(line) % 256 = (ByteOf(line, 3) + SumBytes(RecordAddress(line))
                                         + SumBytes(RecordData(line))) % 256
<1> DEFINE b == ByteOf(line, 3)
           x == SumBytes(RecordAddress(line))
           y == SumBytes(RecordData(line))
<1>1. b \in 0 .. 255 /\ x \in Nat
  BY LayoutFacts, RecordParts, SumType
<1>2. line[2] \notin JumpTypes => y \in Nat
  BY RecordParts, SumType
<1>3. FullSum(line) = IF line[2] \in JumpTypes THEN (b + x) % UINT16
                      ELSE (((b + x) % UINT16) + y) % UINT16
  BY DEF FullSum, HeadSum
<1> HIDE DEF b, x, y
<1>4. b + x \in Nat
  BY <1>1
<1>5. line[2] \in JumpTypes => FullSum(line) % 256 = (b + x) % 256
  <2> DEFINE z == b + x
  <2>1. z \in Nat /\ (line[2] \in JumpTypes => FullSum(line) = z % UINT16)
    BY <1>3, <1>4
  <2> HIDE DEF z
  <2>2. (z % UINT16) % 256 = z % 256
    BY <2>1, LowByte, ZenonT(30)
  <2> QED BY <2>1, <2>2 DEF z
<1>6. line[2] \notin JumpTypes => FullSum(line) % 256 = (b + x + y) % 256
  BY <1>2, <1>3, <1>4, LowByte
<1> QED BY <1>1, <1>2, <1>5, <1>6 DEF b, x, y

\* A jump record has no data.
LEMMA NoData ==
  ASSUME NEW line \in Seq(Chars), SRecord(line), line[2] \in JumpTypes
  PROVE  SumBytes(RecordData(line)) = 0
<1>1. DataBytes(line) = 0 /\ DataAt(line) \in Nat
  BY RecordFacts DEF SRecord
<1>2. RecordData(line) = Bytes(line, DataAt(line), 0)
  BY <1>1 DEF RecordData, DataAt, DataBytes
<1> DEFINE e == DataAt(line)
<1>3. \A i \in e .. e + 2 * 0 - 1 : line[i] \in 0 .. 15
  <2>1. e \in Nat
    BY <1>1
  <2> HIDE DEF e
  <2> QED BY <2>1
<1>4. Bytes(line, e, 0) \in Seq(Byte) /\ Len(Bytes(line, e, 0)) = 0
  <2>1. e \in Nat /\ 0 \in Nat
    BY <1>1
  <2> HIDE DEF e
  <2> QED BY <1>3, <2>1, BytesFacts
<1> QED BY <1>2, <1>4, SumType

\* The checksum of a well-formed record is right.
LEMMA ChecksumFacts ==
  ASSUME NEW line \in Seq(Chars), SRecord(line)
  PROVE  /\ Checks(line)
         /\ ByteOf(line, 3) \in Nat /\ SumBytes(RecordAddress(line)) \in Nat
         /\ SumBytes(RecordData(line)) \in Nat
<1> DEFINE b == ByteOf(line, 3)
           x == SumBytes(RecordAddress(line))
           y == SumBytes(RecordData(line))
<1>1. Layout(line, DataBytes(line)) /\ Complete(line) /\ CrcAt(line) = Len(line) - 2
  BY RecordFacts
<1>2. ByteOf(line, CrcAt(line)) = 255 - ((b + x + y) % 256)
  BY <1>1 DEF SRecord
<1>3. b \in 0 .. 255
  BY <1>1, LayoutFacts
<1>4. x \in Nat /\ y \in Nat
  BY <1>1, LowSum, NoData
<1>5. FullSum(line) % 256 = (b + x + y) % 256
  <2>1. CASE line[2] \in JumpTypes
    <3>1. y = 0 /\ FullSum(line) % 256 = (b + x) % 256
      BY <1>1, <2>1, LowSum, NoData
    <3>2. b + x + y = b + x
      <4> HIDE DEF b, x, y
      <4> QED BY <1>3, <1>4, <3>1
    <3> QED BY <3>1, <3>2
  <2>2. CASE line[2] \notin JumpTypes
    BY <1>1, <2>2, LowSum
  <2> QED BY <2>1, <2>2
<1>6. b \in Nat
  <2> HIDE DEF b
  <2> QED BY <1>3
<1> QED BY <1>2, <1>4, <1>5, <1>6 DEF Checks

-----------------------------------------------------------------------------
(* A corrupted digit *)

\* A corrupted digit is off by a power of two.
LEMMA FlipFacts ==
  ASSUME NEW c \in 0 .. 15, NEW d \in Flips(c)
  PROVE  d \in 0 .. 15 /\ d - c \in {-8, -4, -2, -1, 1, 2, 4, 8}
<1>1. PICK k \in FlippedBits : d = c + k \/ d = c - k
  BY DEF Flips
<1>2. k \in {1, 2, 4, 8} /\ d \in 0 .. 15
  BY BootAssumption DEF Flips
<1> QED BY <1>1, <1>2

\* The same number of low bits, and one of them inverted: another remainder.
LEMMA OtherRemainder ==
  ASSUME NEW x \in Nat, NEW delta \in Int, delta # 0, -128 <= delta, delta <= 128
  PROVE  (x + delta) % 256 # x % 256
  OBVIOUS

\* The byte that a corrupted digit is part of, the r-th from the count on, and
\* how far it is off.
Off(line, i, d, r) == IF i = 3 + 2 * r THEN 16 * (d - line[i]) ELSE d - line[i]

\* One byte of the line is off, and the others are as they were.
OffInOne(line, got, i, d, r) ==
    LET delta == Off(line, i, d, r)
    IN  /\ delta \in Int /\ delta # 0 /\ -128 <= delta /\ delta <= 128
        /\ \A s \in Nat : 4 + 2 * s <= Len(line) - 1 =>
             /\ ByteOf(line, 3 + 2 * s) \in 0 .. 255
             /\ ByteOf(got, 3 + 2 * s) = ByteOf(line, 3 + 2 * s) + (IF s = r THEN delta ELSE 0)

LEMMA ByteChange ==
  ASSUME NEW line \in Seq(Chars), NEW r \in Nat, NEW i \in {3 + 2 * r, 4 + 2 * r},
         i \in 3 .. Len(line) - 1, \A j \in 3 .. Len(line) - 1 : line[j] \in 0 .. 15,
         NEW d \in Flips(line[i]), NEW got, got = Hit(line, i, d)
  PROVE  OffInOne(line, got, i, d, r)
<1> DEFINE n == Len(line)
           delta == Off(line, i, d, r)
           old == line[i]
<1>1. n \in Nat /\ DOMAIN line = 1 .. n
  OBVIOUS
<1>2. old \in 0 .. 15
  OBVIOUS
<1>3. d \in 0 .. 15 /\ d - old \in {-8, -4, -2, -1, 1, 2, 4, 8}
  BY <1>2, FlipFacts
<1>4. delta = IF i = 3 + 2 * r THEN 16 * (d - old) ELSE d - old
  BY DEF Off
<1> HIDE DEF n, old, delta
<1>5. delta \in Int /\ delta # 0 /\ -128 <= delta /\ delta <= 128
  BY <1>2, <1>3, <1>4
<1>6. ASSUME NEW s \in Nat, 4 + 2 * s <= n - 1
      PROVE  /\ ByteOf(line, 3 + 2 * s) \in 0 .. 255
             /\ ByteOf(got, 3 + 2 * s) = ByteOf(line, 3 + 2 * s) + (IF s = r THEN delta ELSE 0)
  <2> DEFINE q == 3 + 2 * s
             h == line[q]
             l == line[q + 1]
  <2>1. q \in 3 .. n - 1 /\ q + 1 \in 3 .. n - 1 /\ q \in 1 .. n /\ q + 1 \in 1 .. n
    BY <1>1, <1>6
  <2>2. h \in 0 .. 15 /\ l \in 0 .. 15
    BY <2>1 DEF n
  <2>3. /\ got[q] = IF q = i THEN d ELSE h
        /\ got[q + 1] = IF q + 1 = i THEN d ELSE l
    BY <1>1, <2>1 DEF Hit
  <2>4. ByteOf(line, q) = 16 * h + l /\ ByteOf(got, q) = 16 * got[q] + got[q + 1]
    BY DEF ByteOf
  <2>5. /\ q = i => h = old
        /\ q + 1 = i => l = old
    BY DEF old
  <2> DEFINE gh == got[q]
             gl == got[q + 1]
  <2>6. /\ gh = IF q = i THEN d ELSE h
        /\ gl = IF q + 1 = i THEN d ELSE l
        /\ q = 3 + 2 * s
    BY <2>3
  <2> HIDE DEF q, h, l, gh, gl
  <2>7. 16 * h + l \in 0 .. 255
    BY <2>2
  <2>8. 16 * gh + gl = (16 * h + l) + (IF s = r THEN delta ELSE 0)
    <3>1. CASE s # r
      <4>1. q # i /\ q + 1 # i
        BY <2>6, <3>1
      <4> QED BY <2>2, <2>6, <3>1, <4>1
    <3>2. CASE s = r /\ i = 3 + 2 * r
      <4>1. q = i /\ q + 1 # i
        BY <2>6, <3>2
      <4> QED BY <1>2, <1>3, <1>4, <2>2, <2>5, <2>6, <3>2, <4>1
    <3>3. CASE s = r /\ i = 4 + 2 * r
      <4>1. q # i /\ q + 1 = i /\ i # 3 + 2 * r
        BY <2>6, <3>3
      <4> QED BY <1>2, <1>3, <1>4, <2>2, <2>5, <2>6, <3>3, <4>1
    <3> QED BY <3>1, <3>2, <3>3
  <2> QED BY <2>4, <2>7, <2>8 DEF q, gh, gl
<1> QED BY <1>5, <1>6 DEF OffInOne, n, delta

\* A line with a corrupted digit still has the layout of the record.
Alike(got, line, m) ==
    /\ got \in Seq(Chars) /\ Len(got) = Len(line) /\ got[2] = line[2] /\ Layout(got, m)
    /\ AddressBytes(got) = AddressBytes(line) /\ DataAt(got) = DataAt(line)

LEMMA OneOffLayout ==
  ASSUME NEW line \in Seq(Chars), NEW m, Layout(line, m), NEW i \in 3 .. Len(line) - 1,
         NEW d \in Flips(line[i]), NEW got, got = Hit(line, i, d)
  PROVE  Alike(got, line, m)
<1> DEFINE n == Len(line)
<1>1. n \in Nat /\ n > 10 /\ \A j \in 3 .. n - 1 : line[j] \in 0 .. 15
  BY LayoutFacts
<1>2. d \in 0 .. 15 /\ d \in Chars
  <2>1. line[i] \in 0 .. 15
    BY <1>1
  <2>2. d \in 0 .. 15
    BY <2>1, FlipFacts
  <2> QED BY <2>2 DEF Chars, CharLF
<1>3. got \in Seq(Chars) /\ Len(got) = n /\ \A j \in 1 .. n : got[j] = IF j = i THEN d ELSE line[j]
  BY <1>2 DEF Hit
<1> HIDE DEF n
<1>4. 1 \in 1 .. n /\ 2 \in 1 .. n /\ n \in 1 .. n /\ i # 1 /\ i # 2 /\ i # n
  BY <1>1 DEF n
<1>5. got[1] = line[1] /\ got[2] = line[2] /\ got[n] = line[n]
  BY <1>3, <1>4
<1>6. AddressBytes(got) = AddressBytes(line) /\ DataAt(got) = DataAt(line)
  BY <1>5 DEF AddressBytes, DataAt
<1>7. ASSUME NEW j \in 3 .. n - 1 PROVE got[j] \in 0 .. 15
  <2>1. j \in 1 .. n
    BY <1>1
  <2> QED BY <1>1, <1>2, <1>3, <2>1
<1>8. Layout(got, m)
  <2>1. Len(got) = DataAt(got) + 2 * m + 2
    BY <1>3, <1>6 DEF Layout, n
  <2>2. /\ m \in 0 .. 255 /\ got[1] = CharS /\ got[2] \in {0} \cup StoredTypes \cup JumpTypes
        /\ got[Len(got)] = CharLF /\ (got[2] \notin JumpTypes => m > 0)
    BY <1>3, <1>5 DEF Layout, n
  <2> QED BY <1>3, <1>7, <2>1, <2>2 DEF Layout
<1> QED BY <1>3, <1>5, <1>6, <1>8 DEF Alike, n

(***************************************************************************)
(* One corrupted digit of the address, the data or the checksum, or of the *)
(* count of a jump record, always shows: the sum of all bytes is off by    *)
(* less than 256 and not by 0.                                             *)
(***************************************************************************)
LEMMA ErrorShows ==
  ASSUME NEW line \in Seq(Chars), SRecord(line), NEW i \in 3 .. Len(line) - 1,
         NEW d \in Flips(line[i]), NEW got, got = Hit(line, i, d),
         line[2] \in JumpTypes \/ i \notin {3, 4}
  PROVE  ~Checks(got)
<1> DEFINE m == DataBytes(line)
           a == AddressBytes(line)
           n == Len(line)
           e == DataAt(line)
           c == CrcAt(line)
           b == ByteOf(line, 3)
           x == SumBytes(RecordAddress(line))
           y == SumBytes(RecordData(line))
           z == ByteOf(line, c)
<1>1. Layout(line, m) /\ Complete(line) /\ c = e + 2 * m
  BY RecordFacts
<1>2. /\ got \in Seq(Chars) /\ Len(got) = n /\ got[2] = line[2] /\ Layout(got, m)
      /\ AddressBytes(got) = a /\ DataAt(got) = e
  <2> HIDE DEF m
  <2>1. Alike(got, line, m)
    BY <1>1, OneOffLayout, Zenon
  <2> QED BY <2>1 DEF Alike
<1>3. /\ a \in 2 .. 4 /\ e = 5 + 2 * a /\ m \in 0 .. 255 /\ n = e + 2 * m + 2 /\ n \in Nat
      /\ \A j \in 3 .. n - 1 : line[j] \in 0 .. 15
  BY <1>1, LayoutFacts
<1>4. /\ b \in Nat /\ x \in Nat /\ y \in Nat
      /\ z = 255 - ((b + x + y) % 256)
  <2>1. b \in Nat /\ x \in Nat /\ y \in Nat
    BY ChecksumFacts
  <2>2. n - 2 = c
    BY <1>1, RecordFacts
  <2> QED BY <2>1, <2>2 DEF SRecord
<1>5. line[2] \in JumpTypes => m = 0 /\ y = 0
  BY NoData DEF SRecord
<1> HIDE DEF m, a, n, e, c
<1>6. \E r \in Nat : i \in {3 + 2 * r, 4 + 2 * r} /\ r <= a + m + 1
  <2>1. i \in 3 .. n - 1 /\ n = 7 + 2 * a + 2 * m
    BY <1>3 DEF n
  <2> DEFINE r == (i - 3) \div 2
  <2>2. r \in Nat /\ i \in {3 + 2 * r, 4 + 2 * r}
    BY <1>3, <2>1
  <2>3. r <= a + m + 1
    <3> HIDE DEF r
    <3> QED BY <1>3, <2>1, <2>2
  <2> QED BY <2>2, <2>3
<1>7. PICK r \in Nat : i \in {3 + 2 * r, 4 + 2 * r} /\ r <= a + m + 1
  BY <1>6
<1> DEFINE delta == Off(line, i, d, r)
<1>8. /\ delta \in Int /\ delta # 0 /\ -128 <= delta /\ delta <= 128
      /\ \A s \in Nat : 4 + 2 * s <= n - 1 =>
           /\ ByteOf(line, 3 + 2 * s) \in 0 .. 255
           /\ ByteOf(got, 3 + 2 * s) = ByteOf(line, 3 + 2 * s) + (IF s = r THEN delta ELSE 0)
  <2>1. i \in 3 .. Len(line) - 1 /\ \A j \in 3 .. Len(line) - 1 : line[j] \in 0 .. 15
    BY <1>3 DEF n
  <2>2. i \in {3 + 2 * r, 4 + 2 * r}
    BY <1>7
  <2>3. OffInOne(line, got, i, d, r)
    BY <2>1, <2>2, ByteChange, Zenon
  <2> QED BY <2>3 DEF OffInOne, n
<1> HIDE DEF delta
<1> DEFINE b2 == ByteOf(got, 3)
           x2 == SumBytes(RecordAddress(got))
           y2 == SumBytes(RecordData(got))
           z2 == ByteOf(got, c)
<1>9. b2 = b + (IF r = 0 THEN delta ELSE 0)
  <2>1. 0 \in Nat /\ 4 + 2 * 0 <= n - 1 /\ 3 + 2 * 0 = 3
    BY <1>3
  <2>2. (0 = r) <=> (r = 0)
    OBVIOUS
  <2> QED BY <1>8, <2>1, <2>2
<1>10. x2 = x + (IF r \in 1 .. a THEN delta ELSE 0)
  <2> DEFINE s == RecordAddress(line)
             t == RecordAddress(got)
  <2>1. /\ s \in Seq(Byte) /\ Len(s) = a
        /\ \A k \in 1 .. a : s[k] = ByteOf(line, 5 + 2 * (k - 1))
    BY <1>1, RecordParts DEF a
  <2>2. /\ t \in Seq(Byte) /\ Len(t) = a
        /\ \A k \in 1 .. a : t[k] = ByteOf(got, 5 + 2 * (k - 1))
    BY <1>2, RecordParts
  <2> HIDE DEF s, t
  <2>3. ASSUME NEW k \in 1 .. a PROVE t[k] = s[k] + (IF k = r THEN delta ELSE 0)
    <3>1. k \in Nat /\ 4 + 2 * k <= n - 1 /\ 5 + 2 * (k - 1) = 3 + 2 * k
      BY <1>3
    <3> QED BY <1>8, <2>1, <2>2, <3>1
  <2>4. SumBytes(t) = SumBytes(s) + (IF r \in 1 .. a THEN delta ELSE 0)
    <3>1. r \in Int /\ Len(t) = Len(s)
      BY <2>1, <2>2
    <3>2. \A k \in 1 .. Len(s) : t[k] = s[k] + (IF k = r THEN delta ELSE 0)
      BY <2>1, <2>3
    <3>3. SumBytes(t) = SumBytes(s) + (IF r \in 1 .. Len(s) THEN delta ELSE 0)
      BY <1>8, <2>1, <2>2, <3>1, <3>2, SumChange, ZenonT(30)
    <3> QED BY <2>1, <3>3
  <2> QED BY <2>4 DEF s, t
<1>11. z2 = z + (IF r = a + m + 1 THEN delta ELSE 0) /\ z \in 0 .. 255
  <2> DEFINE s == a + m + 1
  <2>1. s \in Nat /\ 4 + 2 * s <= n - 1 /\ 3 + 2 * s = c
    BY <1>1, <1>3
  <2>2. (s = r) <=> (r = s)
    OBVIOUS
  <2> HIDE DEF s
  <2>3. ByteOf(got, c) = ByteOf(line, c) + (IF r = s THEN delta ELSE 0) /\ ByteOf(line, c) \in 0 .. 255
    BY <1>8, <2>1, <2>2
  <2> QED BY <2>3 DEF s
<1>12. CASE line[2] \in JumpTypes
  <2>1. CrcAt(got) = c /\ Complete(got)
    <3>1. CrcAt(got) = e + 0 /\ c = e + 2 * 0
      BY <1>1, <1>2, <1>5, <1>12 DEF CrcAt
    <3>2. CrcAt(got) = c
      BY <1>3, <3>1
    <3>3. c + 2 <= n
      BY <1>1, <1>3
    <3> QED BY <1>2, <1>12, <3>2, <3>3 DEF Complete
  <2>2. FullSum(got) % 256 = (b2 + x2) % 256
    BY <1>2, <1>12, <2>1, LowSum
  <2>3. m = 0 /\ y = 0
    BY <1>5, <1>12
  <2>4. SUFFICES ASSUME z2 = 255 - ((b2 + x2) % 256) PROVE FALSE
    BY <2>1, <2>2 DEF Checks
  <2> HIDE DEF b, x, y, z, b2, x2, z2
  <2>5. CASE r <= a
    <3>1. b2 + x2 = (b + x + y) + delta /\ z2 = z
      <4>1. CASE r = 0
        BY <1>3, <1>4, <1>8, <1>9, <1>10, <1>11, <2>3, <4>1
      <4>2. CASE r # 0
        <5>1. r \in 1 .. a /\ r # a + m + 1
          BY <1>3, <2>5, <4>2
        <5> QED BY <1>4, <1>8, <1>9, <1>10, <1>11, <2>3, <4>2, <5>1
      <4> QED BY <4>1, <4>2
    <3>2. b + x + y \in Nat
      BY <1>4
    <3>3. ((b + x + y) + delta) % 256 # (b + x + y) % 256
      BY <1>8, <3>2, OtherRemainder, ZenonT(30)
    <3>4. (b + x + y) % 256 \in Int /\ ((b + x + y) + delta) % 256 \in Int
      BY <1>8, <3>2
    <3> QED BY <1>4, <2>4, <3>1, <3>3, <3>4
  <2>6. CASE ~(r <= a)
    <3>1. r = a + m + 1 /\ r # 0 /\ r \notin 1 .. a
      BY <1>3, <1>7, <2>3, <2>6
    <3>2. b2 + x2 = b + x + y /\ z2 = z + delta
      BY <1>4, <1>9, <1>10, <1>11, <2>3, <3>1
    <3> QED BY <1>4, <1>8, <1>11, <2>4, <3>2
  <2> QED BY <2>5, <2>6
<1>13. CASE line[2] \notin JumpTypes
  <2>1. r # 0
    BY <1>7, <1>13
  <2>2. b2 = b
    <3> HIDE DEF b, b2
    <3> QED BY <1>4, <1>9, <2>1
  <2>3. DataBytes(got) = m
    BY <1>2, <2>2 DEF DataBytes, a, m
  <2>4. m > 0
    BY <1>1, <1>13 DEF Layout
  <2>5. CrcAt(got) = c /\ Complete(got)
    <3>1. CrcAt(got) = e + 2 * m
      <4>1. ~(m = 0)
        BY <1>3, <2>4
      <4> QED BY <1>2, <1>13, <2>3, <4>1 DEF CrcAt
    <3>2. c + 2 <= n /\ m >= 0
      BY <1>1, <1>3
    <3> QED BY <1>1, <1>2, <2>3, <3>1, <3>2 DEF Complete
  <2>6. FullSum(got) % 256 = (b2 + x2 + y2) % 256
    BY <1>2, <1>13, <2>5, LowSum
  <2>7. y2 = y + (IF r - a \in 1 .. m THEN delta ELSE 0)
    <3> DEFINE s == RecordData(line)
               t == RecordData(got)
    <3>1. /\ s \in Seq(Byte) /\ Len(s) = m
          /\ \A k \in 1 .. m : s[k] = ByteOf(line, e + 2 * (k - 1))
      BY <1>1, <1>13, RecordParts DEF e, m
    <3>2. /\ t \in Seq(Byte) /\ Len(t) = m
          /\ \A k \in 1 .. m : t[k] = ByteOf(got, e + 2 * (k - 1))
      BY <1>2, <1>13, <2>3, <2>5, RecordParts
    <3> HIDE DEF s, t
    <3> DEFINE j == r - a
    <3>3. ASSUME NEW k \in 1 .. m PROVE t[k] = s[k] + (IF k = j THEN delta ELSE 0)
      <4> DEFINE q == a + k
      <4>1. q \in Nat /\ 4 + 2 * q <= n - 1 /\ e + 2 * (k - 1) = 3 + 2 * q /\ (q = r <=> k = j)
        BY <1>3
      <4> HIDE DEF q, j
      <4> QED BY <1>8, <3>1, <3>2, <4>1
    <3>4. SumBytes(t) = SumBytes(s) + (IF j \in 1 .. m THEN delta ELSE 0)
      <4>1. j \in Int /\ Len(t) = Len(s)
        BY <1>3, <3>1, <3>2
      <4> HIDE DEF j
      <4>2. \A k \in 1 .. Len(s) : t[k] = s[k] + (IF k = j THEN delta ELSE 0)
        BY <3>1, <3>3
      <4>3. SumBytes(t) = SumBytes(s) + (IF j \in 1 .. Len(s) THEN delta ELSE 0)
        BY <1>8, <3>1, <3>2, <4>1, <4>2, SumChange, ZenonT(30)
      <4> QED BY <3>1, <4>3
    <3> QED BY <3>4 DEF s, t
  <2>8. SUFFICES ASSUME z2 = 255 - ((b2 + x2 + y2) % 256) PROVE FALSE
    BY <2>5, <2>6 DEF Checks
  <2> HIDE DEF b, x, y, z, b2, x2, y2, z2
  <2>9. CASE r <= a + m
    <3>1. b2 + x2 + y2 = (b + x + y) + delta /\ z2 = z
      <4>1. CASE r <= a
        <5>1. r \in 1 .. a /\ r - a \notin 1 .. m /\ r # a + m + 1
          BY <1>3, <2>1, <4>1
        <5> QED BY <1>4, <1>8, <1>10, <1>11, <2>2, <2>7, <5>1
      <4>2. CASE ~(r <= a)
        <5>1. r \notin 1 .. a /\ r - a \in 1 .. m /\ r # a + m + 1
          BY <1>3, <2>9, <4>2
        <5> QED BY <1>4, <1>8, <1>10, <1>11, <2>2, <2>7, <5>1
      <4> QED BY <4>1, <4>2
    <3>2. b + x + y \in Nat
      BY <1>4
    <3>3. ((b + x + y) + delta) % 256 # (b + x + y) % 256
      BY <1>8, <3>2, OtherRemainder, ZenonT(30)
    <3>4. (b + x + y) % 256 \in Int /\ ((b + x + y) + delta) % 256 \in Int
      BY <1>8, <3>2
    <3> QED BY <1>4, <2>8, <3>1, <3>3, <3>4
  <2>10. CASE ~(r <= a + m)
    <3>1. r = a + m + 1 /\ r \notin 1 .. a /\ r - a \notin 1 .. m
      BY <1>3, <1>7, <2>10
    <3>2. b2 + x2 + y2 = b + x + y /\ z2 = z + delta
      BY <1>4, <1>10, <1>11, <2>2, <2>7, <3>1
    <3> QED BY <1>4, <1>8, <1>11, <2>8, <3>2
  <2> QED BY <2>9, <2>10
<1> QED BY <1>12, <1>13

\* The digits that the checksum covers whatever they are corrupted to, and those of
\* the count if no shorter record is hidden in the file's records.
Protected == "type" \notin HitFields /\ ("count" \in HitFields => NoHiddenRecord)

\* A line as it arrives is the record, or the loader will not take it for one.
LEMMA Damaged ==
  ASSUME SRecordFile, Protected, NEW k \in DOMAIN Image, NEW got \in Arriving(Image[k])
  PROVE  /\ got \in Seq(Chars) /\ Len(got) = Len(Image[k])
         /\ Layout(got, DataBytes(Image[k]))
         /\ got = Image[k] \/ ~Complete(got) \/ ~Checks(got)
<1>1. Image[k] \in Seq(Chars) /\ SRecord(Image[k])
  BY BootAssumption DEF SRecordFile
<1>2. PICK line : line = Image[k]
  OBVIOUS
<1>3. line \in Seq(Chars) /\ SRecord(line) /\ Layout(line, DataBytes(line))
  BY <1>1, <1>2, RecordFacts
<1>4. CASE got = line
  BY <1>2, <1>3, <1>4
<1>5. CASE got # line
  <2>1. got \in OneOff(line)
    BY <1>2, <1>5 DEF Arriving
  <2>a. PICK i \in 3 .. Len(line) - 1 : /\ Field(i) \in HitFields
                                        /\ \E d \in Flips(line[i]) : got = Hit(line, i, d)
    BY <2>1 DEF OneOff
  <2>2. PICK d \in Flips(line[i]) : got = Hit(line, i, d)
    BY <2>a
  <2>3. got \in Seq(Chars) /\ Len(got) = Len(line) /\ Layout(got, DataBytes(line))
    <3>1. Alike(got, line, DataBytes(line))
      BY <1>3, <2>2, OneOffLayout, Zenon
    <3> QED BY <3>1 DEF Alike
  <2>4. CASE line[2] \in JumpTypes \/ i \notin {3, 4}
    <3>1. ~Checks(got)
      BY <1>3, <2>2, <2>4, ErrorShows
    <3> QED BY <1>2, <2>3, <3>1
  <2>5. CASE line[2] \notin JumpTypes /\ i \in {3, 4}
    <3>1. NoHiddenRecord
      BY <2>a, <2>5 DEF Field, Protected
    <3>2. Complete(got) => ~Checks(got)
      BY <1>2, <2>2, <2>5, <3>1, Zenon DEF NoHiddenRecord
    <3> QED BY <1>2, <2>3, <3>2
  <2> QED BY <2>4, <2>5
<1> QED BY <1>4, <1>5

\* What a record does once it is complete.
Executed(line) ==
    /\ UNCHANGED flags
    /\ uart'.state = "TERMINATION"
    /\ IF line[2] \in JumpTypes
       THEN entry' = RecordAddress(line) /\ UNCHANGED <<loaded, uart_tx>>
       ELSE /\ uart_tx' = [text |-> "OK", left |-> 4]
            /\ UNCHANGED entry
            /\ IF line[2] \in StoredTypes
               THEN loaded' = loaded \cup {<<RecordAddress(line), RecordData(line)>>}
               ELSE UNCHANGED loaded

\* What becomes of a record whose checksum is wrong.
Refused == /\ UNCHANGED <<flags, loaded, entry>>
           /\ uart'.state = "TERMINATION"
           /\ uart_tx' = [text |-> "NOT OK", left |-> 25]

\* The checksum, digit by digit, and the end of the record.
LEMMA CrcStep ==
  ASSUME LoaderType, NEW line \in Seq(Chars), NEW m, Layout(line, m),
         SRecord(line) \/ ~Checks(line), NEW p, AtCrc(line, p),
         lChar = line[p], lChar \in Chars, Crc
  PROVE  \/ p = CrcAt(line) /\ AtCrc(line, p + 1)' /\ UNCHANGED <<shared, uart_tx>>
         \/ p = CrcAt(line) + 1 /\ SRecord(line) /\ Executed(line)
         \/ p = CrcAt(line) + 1 /\ Refused
<1> DEFINE c == CrcAt(line)
<1>1. DOMAIN uart = Fields /\ uart.state = "CRC"
  BY DEF LoaderType, UartWidths, AtCrc
<1>2. /\ c \in Nat /\ c >= 9 /\ c + 2 <= Len(line) /\ Len(line) \in Nat
      /\ \A i \in 3 .. Len(line) - 1 : line[i] \in 0 .. 15
      /\ line[2] \in {0} \cup StoredTypes \cup JumpTypes
      /\ Complete(line)
  <2>1. /\ Len(line) \in Nat
        /\ \A i \in 3 .. Len(line) - 1 : line[i] \in 0 .. 15
        /\ line[2] \in {0} \cup StoredTypes \cup JumpTypes
    BY LayoutFacts
  <2>2. Complete(line)
    BY DEF AtCrc
  <2> DEFINE e == DataAt(line)
  <2>3. c \in Nat /\ c >= e /\ e \in Nat /\ e >= 9 /\ c + 2 <= Len(line)
    BY <2>2, CompleteFacts
  <2> HIDE DEF c, e
  <2>4. c >= 9
    BY <2>3
  <2> QED BY <2>1, <2>2, <2>3, <2>4
<1>3. /\ p \in {c, c + 1} /\ Typed(line) /\ Taken(line, c, p)
      /\ uart.type = line[2] /\ uart.addrSize = AddressBytes(line)
      /\ uart.chk = FullSum(line) /\ uart.address = RecordAddress(line)
      /\ line[2] \notin JumpTypes => uart.data = RecordData(line)
  BY DEF AtCrc, Typed
<1> HIDE DEF c
<1>4. /\ Filled \in Seq(Chars) /\ Len(Filled) = p + 1 - c /\ p \in Nat
      /\ \A i \in 1 .. p + 1 - c : Filled[i] = line[c + i - 1]
  <2>1. p \in Nat /\ c <= p
    BY <1>2, <1>3
  <2> QED BY <1>2, <1>3, <2>1, TakenNext
<1>5. CASE p = c
  <2>0. Len(Filled) < 2
    BY <1>2, <1>4, <1>5
  <2>1. uart' = [uart EXCEPT !.buf = Filled] /\ UNCHANGED <<shared, uart_tx>>
    <3>1. uart' = [uart EXCEPT !.buf = Filled] /\ Quiet /\ UNCHANGED shared
      BY <2>0, Zenon DEF Crc
    <3> QED BY <3>1 DEF Quiet
  <2>2. /\ uart'.buf = Filled /\ uart'.state = "CRC" /\ uart'.type = uart.type
        /\ uart'.addrSize = uart.addrSize /\ uart'.chk = uart.chk
        /\ uart'.address = uart.address /\ uart'.data = uart.data
    BY <1>1, <2>1 DEF Fields
  <2>3. Taken(line, c, p + 1)'
    <3>1. /\ Len(uart'.buf) = p + 1 - c
          /\ \A i \in 1 .. p + 1 - c : uart'.buf[i] = line[c + i - 1]
      BY <1>4, <2>2, Zenon
    <3>2. c' = c
      BY DEF c
    <3> QED BY <1>2, <1>4, <3>1, <3>2 DEF Taken
  <2>4. AtCrc(line, p + 1)'
    BY <1>3, <1>5, <2>2, <2>3 DEF AtCrc, Typed, c
  <2> QED BY <1>5, <2>1, <2>4 DEF c
<1>6. CASE p = c + 1
  <2>1. atoh(Filled)[1] = ByteOf(line, c)
    <3> DEFINE one == 1
    <3>1. one = 1 /\ one \in Nat /\ Len(Filled) = 2 * one /\ p + 1 - c = 2 * one
      BY <1>2, <1>4, <1>6
    <3> HIDE DEF one
    <3>2. ASSUME NEW i \in 1 .. 2 * one PROVE Filled[i] = line[c + i - 1] /\ Filled[i] < 16
      <4> DEFINE x == c + i - 1
      <4>1. Filled[i] = line[x]
        BY <1>4, <3>1
      <4>2. x \in 3 .. Len(line) - 1
        BY <1>2, <3>1
      <4> HIDE DEF x
      <4>3. line[x] \in 0 .. 15
        BY <1>2, <4>2
      <4>4. Filled[i] = line[x] /\ Filled[i] < 16
        BY <3>1, <4>1, <4>3, SMTT(30)
      <4> QED BY <4>4 DEF x
    <3>3. atoh(Filled) = Bytes(line, c, one)
      <4>1. /\ Filled \in Seq(Chars) /\ c \in Nat /\ one \in Nat /\ Len(Filled) = 2 * one
            /\ \A i \in 1 .. 2 * one : Filled[i] = line[c + i - 1] /\ Filled[i] < 16
        BY <1>2, <1>4, <3>1, <3>2
      <4> QED BY <4>1, AtohBytes, Zenon
    <3>4. Bytes(line, c, 1)[1] = ByteOf(line, c + 2 * (1 - 1)) /\ c + 2 * (1 - 1) = c
      BY <1>2 DEF Bytes
    <3> QED BY <3>1, <3>3, <3>4
  <2>2. ChecksumOK(atoh(Filled)[1]) <=> Checks(line)
    BY <1>3, <2>1 DEF ChecksumOK, Complement, Checks, c
  <2>4. ~(Len(Filled) < 2)
    BY <1>2, <1>4, <1>6
  <2> DEFINE ok == ChecksumOK(atoh(Filled)[1])
             act == ok /\ ~IsZero(uart.address)
             sum == Complement(uart.chk)
  <2>5. /\ uart' = [uart EXCEPT !.chk = sum, !.buf = << >>, !.data = << >>,
                                !.state = "TERMINATION"]
        /\ UNCHANGED flags
        /\ \/ /\ act /\ uart.type \in JumpTypes
              /\ jump_to_address(uart.address) /\ Quiet
           \/ /\ act /\ uart.type \in StoredTypes
              /\ memcpy(uart.address, uart.data) /\ Reply(TRUE)
           \/ /\ ~act \/ uart.type \notin JumpTypes \cup StoredTypes
              /\ UNCHANGED <<loaded, entry>> /\ Reply(ok)
    BY <2>4 DEF Crc
  <2>6. uart'.state = "TERMINATION"
    <3> HIDE DEF sum
    <3> QED BY <1>1, <2>5 DEF Fields
  <2>7. line[2] \in {0, 1, 2, 3, 7, 8, 9}
    BY <1>2 DEF StoredTypes, JumpTypes
  <2>8. CASE ~Checks(line)
    <3>1. ~ok /\ ~act
      BY <2>2, <2>8
    <3> HIDE DEF ok, act, sum
    <3>2. UNCHANGED <<loaded, entry>> /\ Reply(ok)
      BY <2>5, <3>1
    <3>3. uart_tx' = [text |-> "NOT OK", left |-> 25]
      BY <3>1, <3>2 DEF Reply
    <3> QED BY <1>6, <2>5, <2>6, <3>2, <3>3 DEF Refused, c
  <2> SUFFICES ASSUME SRecord(line), Checks(line)
               PROVE  p = CrcAt(line) + 1 /\ SRecord(line) /\ Executed(line)
    BY <2>8, ChecksumFacts
  <2>9. ok /\ (line[2] # 0 => act)
    BY <1>3, <2>2 DEF SRecord
  <2> HIDE DEF ok, act, sum
  <2>10. CASE line[2] \in JumpTypes
    <3>1. act /\ line[2] \notin StoredTypes
      BY <2>9, <2>10 DEF StoredTypes, JumpTypes
    <3>2. jump_to_address(uart.address) /\ Quiet
      BY <1>3, <2>5, <2>10, <3>1
    <3> QED BY <1>3, <1>6, <2>5, <2>6, <2>10, <3>2
            DEF Executed, jump_to_address, Quiet, c
  <2>11. CASE line[2] \in StoredTypes
    <3>1. act /\ line[2] \notin JumpTypes
      BY <2>9, <2>11 DEF StoredTypes, JumpTypes
    <3>2. memcpy(uart.address, uart.data) /\ Reply(TRUE)
      BY <1>3, <2>5, <2>11, <3>1
    <3>3. /\ loaded' = loaded \cup {<<RecordAddress(line), RecordData(line)>>}
          /\ UNCHANGED entry /\ uart_tx' = [text |-> "OK", left |-> 4]
      BY <1>3, <3>1, <3>2, Zenon DEF memcpy, Reply
    <3>4. p = CrcAt(line) + 1
      BY <1>6 DEF c
    <3> QED BY <2>5, <2>6, <2>11, <3>1, <3>3, <3>4, Zenon DEF Executed
  <2>12. CASE line[2] \notin JumpTypes \cup StoredTypes
    <3>1. UNCHANGED <<loaded, entry>> /\ Reply(ok)
      BY <1>3, <2>5, <2>12
    <3> QED BY <1>6, <2>5, <2>6, <2>9, <2>12, <3>1 DEF Executed, Reply, c
  <2> QED BY <2>10, <2>11, <2>12
<1> QED BY <1>3, <1>5, <1>6

-----------------------------------------------------------------------------
(* The image *)

\* One more line in memory.
LEMMA UartDataNext ==
  ASSUME NEW k \in DOMAIN Image
  PROVE  /\ Image[k][2] \in StoredTypes =>
              UartData(k) = UartData(k - 1)
                              \cup {<<RecordAddress(Image[k]), RecordData(Image[k])>>}
         /\ Image[k][2] \notin StoredTypes => UartData(k) = UartData(k - 1)
<1> DEFINE J(n) == {j \in 1 .. n : Image[j][2] \in 1 .. 3}
           P(j) == <<RecordAddress(Image[j]), RecordData(Image[j])>>
           stored == Image[k][2] \in 1 .. 3
<1>0. k \in Nat \ {0} /\ (stored <=> Image[k][2] \in StoredTypes)
  BY BootAssumption DEF StoredTypes
<1>1. \A j : (j \in J(k)) <=> (j \in J(k - 1) \/ (j = k /\ Image[j][2] \in 1 .. 3))
  BY <1>0
<1>2. UartData(k) = {P(j) : j \in J(k)} /\ UartData(k - 1) = {P(j) : j \in J(k - 1)}
  BY DEF UartData, Records
<1>3. stored => J(k) = J(k - 1) \cup {k}
  BY <1>1
<1>4. ~stored => J(k) = J(k - 1)
  BY <1>1
<1>5. stored => UartData(k) = UartData(k - 1) \cup {P(k)}
  <2> HIDE DEF J, P, stored
  <2> QED BY <1>2, <1>3
<1> QED BY <1>0, <1>2, <1>4, <1>5

\* Nothing in memory before the first line.
LEMMA UartDataZero == UartData(0) = {} /\ UartData(-1) = {}
<1>1. {j \in 1 .. 0 : Image[j][2] \in 1 .. 3} = {} /\ {j \in 1 .. -1 : Image[j][2] \in 1 .. 3} = {}
  OBVIOUS
<1> QED BY <1>1 DEF UartData, Records

\* Lines are stored in their order.
LEMMA UartDataGrows ==
  ASSUME NEW m \in Nat, NEW n \in Nat, m <= n
  PROVE  UartData(m) \subseteq UartData(n)
<1> DEFINE J(k) == {j \in 1 .. k : Image[j][2] \in 1 .. 3}
           P(j) == <<RecordAddress(Image[j]), RecordData(Image[j])>>
<1>1. J(m) \subseteq J(n)
  OBVIOUS
<1>2. UartData(m) = {P(j) : j \in J(m)} /\ UartData(n) = {P(j) : j \in J(n)}
  BY DEF UartData, Records
<1> HIDE DEF J, P
<1> QED BY <1>1, <1>2

\* The lines of the file.
LEMMA ImageFacts ==
  ASSUME SRecordFile, NEW k \in DOMAIN Image
  PROVE  /\ Image[k] \in Seq(Chars) /\ SRecord(Image[k])
         /\ k \in Nat \ {0} /\ DOMAIN Image = 1 .. Len(Image) /\ Len(Image) \in Nat
         /\ Image[k][2] \in JumpTypes <=> k = Len(Image)
         /\ RecordAddress(Image[k]) # NoEntry
         /\ Len(Image[k]) \in Nat /\ Len(Image[k]) > 4
         /\ Image[k][1] = CharS /\ Image[k][Len(Image[k])] = CharLF
<1>1. Image[k] \in Seq(Chars) /\ k \in Nat \ {0} /\ DOMAIN Image = 1 .. Len(Image) /\ Len(Image) \in Nat
  BY BootAssumption
<1>2. SRecord(Image[k]) /\ (Image[k][2] \in JumpTypes <=> k = Len(Image))
  BY DEF SRecordFile
<1>3. RecordAddress(Image[k]) # NoEntry
  <2>1. PICK line : line = Image[k]
    OBVIOUS
  <2>2. line \in Seq(Chars) /\ Layout(line, DataBytes(line))
    BY <1>1, <1>2, <2>1, RecordFacts
  <2> QED BY <2>1, <2>2, RecordParts
<1>4. /\ Len(Image[k]) > 4
      /\ Image[k][1] = CharS /\ Image[k][Len(Image[k])] = CharLF
  BY <1>2 DEF SRecord
<1> QED BY <1>1, <1>2, <1>3, <1>4

-----------------------------------------------------------------------------
(* The UART download, step by step *)

\* One character of a line: the next one is expected, or the record wants more data
\* than there is, or it is complete and was executed or refused.
Stepped(line, p) ==
    \/ /\ p + 1 \in 1 .. Len(line) - 1 /\ Parsed(line, p + 1)'
       /\ UNCHANGED <<loaded, entry, uart_tx>>
       /\ (p = 1 \/ Uart) => Uart'
    \/ /\ p # 1 /\ p + 1 = DataAt(line) /\ Overrun(line)
       /\ UNCHANGED <<loaded, entry, uart_tx>>
       /\ Uart => Uart'
    \/ p # 1 /\ p = Len(line) - 1 /\ SRecord(line) /\ Executed(line)
    \/ p # 1 /\ Refused

LEMMA LineStep ==
  ASSUME LoaderType, NEW line \in Seq(Chars), NEW m, Layout(line, m),
         SRecord(line) \/ ~Complete(line) \/ ~Checks(line), NEW p \in 1 .. Len(line) - 1,
         Parsed(line, p), uart_rx # << >>, lChar = line[p], processUartProtocolFrames
  PROVE  Stepped(line, p)
<1>1. lChar \in Chars
  BY Dispatch
<1> DEFINE n == Len(line)
           e == DataAt(line)
           c == CrcAt(line)
<1>2. n \in Nat /\ e \in Nat /\ e >= 9 /\ n >= e + 2
  <2> DEFINE a == AddressBytes(line)
  <2>1. a \in 2 .. 4 /\ m \in 0 .. 255 /\ e = 5 + 2 * a /\ n = e + 2 * m + 2
    BY LayoutFacts
  <2> HIDE DEF a, e, n
  <2> QED BY <2>1
<1>0. Complete(line) => c \in Nat /\ c >= e /\ c + 2 <= n
  BY CompleteFacts
<1>3. CASE AtStart(line, p)
  <2>1. p = 1 /\ Idle
    BY <1>3, Dispatch DEF AtStart
  <2>2. lChar = CharS
    BY <2>1 DEF Layout
  <2>3. /\ uart' = [uart EXCEPT !.state = "RECORD_TYPE"] /\ gStopI2CBootLoaderFlg'
        /\ UNCHANGED <<loaded, entry, uart_tx>>
    BY <2>1, <2>2 DEF Idle, Quiet
  <2>4. uart'.state = "RECORD_TYPE"
    BY <2>3 DEF LoaderType, UartWidths, Fields
  <2>5. AtType(line, p + 1)'
    BY <2>1, <2>4 DEF AtType
  <2> HIDE DEF n, e, c
  <2>6. p + 1 \in 1 .. n - 1
    BY <1>2, <2>1
  <2> QED BY <1>1, <2>3, <2>5, <2>6 DEF Stepped, Parsed, Uart, n
<1>4. CASE AtType(line, p)
  <2>1. p = 2 /\ RecordType /\ lChar = line[2] /\ uart.state = "RECORD_TYPE"
    BY <1>4, Dispatch DEF AtType
  <2>2. AtCount(line, 3)' /\ UNCHANGED <<shared, uart_tx>>
    BY <2>1, TypeStep
  <2> HIDE DEF n, e, c
  <2>3. p + 1 \in 1 .. n - 1 /\ p + 1 = 3
    BY <1>2, <2>1
  <2> QED BY <1>1, <2>1, <2>2, <2>3 DEF Stepped, Parsed, Uart, n, shared, flags
<1>5. CASE AtCount(line, p)
  <2>1. Count /\ p \in {3, 4}
    BY <1>5, Dispatch DEF AtCount
  <2>2. /\ (p = 3 /\ AtCount(line, 4)') \/ (p = 4 /\ AtAddress(line, 5)')
        /\ UNCHANGED <<shared, uart_tx>>
    BY <1>1, <1>5, <2>1, CountStep
  <2> HIDE DEF n, e, c
  <2>3. /\ p + 1 \in 1 .. n - 1 /\ p # 1
        /\ p = 3 => p + 1 = 4
        /\ p = 4 => p + 1 = 5
    BY <1>2, <2>1
  <2> QED BY <1>1, <2>2, <2>3 DEF Stepped, Parsed, Uart, n, shared, flags
<1>6. CASE AtAddress(line, p)
  <2>1. Address /\ p \in 5 .. e - 1
    BY <1>6, Dispatch DEF AtAddress
  <2>2. /\ \/ AtAddress(line, p + 1)' \/ AtData(line, p + 1)' \/ AtCrc(line, p + 1)'
           \/ p + 1 = DataAt(line) /\ Overrun(line)
        /\ UNCHANGED <<shared, uart_tx>>
    BY <1>1, <1>6, <2>1, AddressStep
  <2> HIDE DEF n, e, c
  <2>3. p + 1 \in 1 .. n - 1 /\ p # 1
    BY <1>2, <2>1
  <2> QED BY <1>1, <2>2, <2>3 DEF Stepped, Parsed, Uart, n, shared, flags
<1>7. CASE AtData(line, p)
  <2>1. Data /\ p \in e .. c - 1 /\ Complete(line)
    BY <1>7, Dispatch DEF AtData
  <2>2. /\ AtData(line, p + 1)' \/ AtCrc(line, p + 1)'
        /\ UNCHANGED <<shared, uart_tx>>
    BY <1>1, <1>7, <2>1, DataStep
  <2> HIDE DEF n, e, c
  <2>3. p + 1 \in 1 .. n - 1 /\ p # 1
    BY <1>0, <1>2, <2>1
  <2> QED BY <1>1, <2>2, <2>3 DEF Stepped, Parsed, Uart, n, shared, flags
<1>8. CASE AtCrc(line, p)
  <2>1. Crc /\ p \in {c, c + 1} /\ Complete(line)
    BY <1>8, Dispatch DEF AtCrc
  <2>2. \/ p = CrcAt(line) /\ AtCrc(line, p + 1)' /\ UNCHANGED <<shared, uart_tx>>
        \/ p = CrcAt(line) + 1 /\ SRecord(line) /\ Executed(line)
        \/ p = CrcAt(line) + 1 /\ Refused
    BY <1>1, <1>8, <2>1, CrcStep
  <2>3. c \in Nat /\ c >= e /\ c + 2 <= n
    BY <1>0, <2>1
  <2>4. CASE p = c /\ AtCrc(line, p + 1)' /\ UNCHANGED <<shared, uart_tx>>
    <3>1. UNCHANGED <<loaded, entry, uart_tx>> /\ (Uart => Uart')
      BY <2>4 DEF Uart, shared, flags
    <3> HIDE DEF n, e, c
    <3>2. p # 1 /\ p + 1 \in 1 .. n - 1
      BY <1>2, <2>3, <2>4
    <3> QED BY <2>4, <3>1, <3>2, Zenon DEF Stepped, Parsed, n
  <2>5. CASE p = c + 1
    <3>1. SRecord(line) => c = n - 2
      BY RecordFacts
    <3> HIDE DEF n, e, c
    <3>2. p # 1 /\ (SRecord(line) => p = n - 1)
      BY <1>2, <2>3, <2>5, <3>1
    <3>3. p # c
      BY <2>3, <2>5
    <3> QED BY <2>2, <3>2, <3>3, Zenon DEF Stepped, c, n
  <2> QED BY <2>2, <2>4, <2>5
<1> QED BY <1>3, <1>4, <1>5, <1>6, <1>7, <1>8 DEF Parsed

\* Nothing is left of a queue of one.
LEMMA TailOfOne ==
  ASSUME NEW S, NEW s \in Seq(S), Len(s) = 1
  PROVE  Tail(s) = << >> /\ Len(Tail(s)) = 0
<1>1. Tail(s) \in Seq(S) /\ Len(Tail(s)) = 0
  OBVIOUS
<1>2. Tail(s) # << >> => Len(Tail(s)) \in Nat \ {0}
  BY <1>1, EmptySeq
<1> QED BY <1>1, <1>2

\* A character of the line leaves the receive FIFO.
LEMMA ComingNext ==
  ASSUME LineType, NEW line \in Seq(Chars), NEW p \in Nat, Coming(line, p),
         uart_rx # << >>, uart_rx' = Tail(uart_rx), UNCHANGED script
  PROVE  /\ lChar = line[p] /\ Coming(line, p + 1)'
         /\ uart_rx' = << >> /\ Len(script.out) = Len(line) - p
<1>1. /\ uart_rx \in Seq(Chars) /\ script.out \in Seq(Chars) /\ Len(uart_rx) \in Nat
      /\ Len(script.out) \in Nat /\ Len(line) \in Nat
  BY DEF LineType, LoaderType, ScriptType
<1>2. /\ Len(uart_rx) <= 1 /\ p + Len(uart_rx) + Len(script.out) = Len(line) + 1
      /\ uart_rx[1] = line[p]
      /\ \A i \in DOMAIN script.out : script.out[i] = line[Len(line) - Len(script.out) + i]
  BY DEF Coming
<1> DEFINE r == Len(uart_rx)
           o == Len(script.out)
           n == Len(line)
<1>3. /\ Len(uart_rx) = 1 /\ (p + 1) + 0 + Len(script.out) = Len(line) + 1
      /\ Len(script.out) = Len(line) - p
  <2>1. r \in Nat /\ o \in Nat /\ n \in Nat /\ r <= 1 /\ p + r + o = n + 1
    BY <1>1, <1>2
  <2>2. r # 0
    BY <1>1
  <2> HIDE DEF r, o, n
  <2>3. r = 1 /\ (p + 1) + 0 + o = n + 1 /\ o = n - p
    BY <2>1, <2>2
  <2> QED BY <2>3 DEF r, o, n
<1>4. uart_rx' = << >> /\ Len(uart_rx') = 0
  BY <1>1, <1>3, TailOfOne
<1>5. lChar = line[p]
  BY <1>1, <1>2 DEF lChar
<1>6. Coming(line, p + 1)'
  <2>1. \A i \in DOMAIN script'.out : script'.out[i] = line[Len(line) - Len(script'.out) + i]
    BY <1>2
  <2>2. (p + 1) + Len(uart_rx') + Len(script'.out) = Len(line) + 1
    BY <1>3, <1>4
  <2>3. Len(uart_rx') <= 1 /\ ~(uart_rx' # << >>)
    BY <1>4
  <2> QED BY <2>1, <2>2, <2>3, Zenon DEF Coming
<1> QED BY <1>3, <1>4, <1>5, <1>6

\* What may arrive with fewer errors may arrive with more.
LEMMA ArrivingKept ==
  ASSUME errors > 0 => errors' > 0, NEW line, NEW got \in Arriving(line)
  PROVE  got \in Arriving(line)'
  BY DEF Arriving

\* How far the loader has got depends on the UART loader's variables alone.
LEMMA ParsedKept ==
  ASSUME UNCHANGED uart, NEW line, NEW p
  PROVE  Parsed(line, p)' <=> Parsed(line, p)
  BY DEF Parsed, AtStart, AtType, AtCount, AtAddress, AtData, Collected, AtCrc, Typed, Taken

\* A step that the UART loader and the script take no part in.
LEMMA UartKept ==
  ASSUME SRecordFile, UartInv,
         UNCHANGED <<gStopI2CBootLoaderFlg, script, uart, uart_rx, uart_tx>>,
         I2c => I2c', Running' => Running, errors > 0 => errors' > 0,
         Uart => loaded' = loaded,
         Uart => entry' = entry \/ (entry = NoEntry /\ entry' = JtagEntry)
  PROVE  UartInv'
<1>1. PICK line : line = TheLine
  OBVIOUS
<1>2. TheLine' = line
  BY <1>1 DEF TheLine
<1>3. ASSUME NEW got, NEW p PROVE Coming(got, p)' <=> Coming(got, p)
  BY DEF Coming
<1>4. CASE ~Uart
  <2>1. Calling
    BY <1>4 DEF UartInv
  <2>2. (\E got \in Arriving(line) : Coming(got, 1))
          => (\E got \in Arriving(line)' : Coming(got, 1)')
    BY <1>3, ArrivingKept
  <2>3. CASE /\ script.line = 2 /\ 1 \in DOMAIN Image
             /\ uart_tx.left = 0 /\ script.inbox = << >>
             /\ Running /\ ~I2c => \E got \in Arriving(TheLine) : Coming(got, 1)
    <3>1. Running' /\ ~I2c' => \E got \in Arriving(line)' : Coming(got, 1)'
      BY <1>1, <2>2, <2>3
    <3>2. Running' /\ ~I2c' => (\E got \in Arriving(TheLine) : Coming(got, 1))'
      BY <1>2, <3>1
    <3>3. Calling'
      BY <2>3, <3>2 DEF Calling
    <3> QED BY <1>4, <3>3 DEF UartInv, Uart
  <2>4. CASE /\ script.line = 1 /\ script.out = << >> /\ uart_rx = << >>
             /\ \/ uart_tx.left = 0 /\ script.inbox \in {<< >>, <<"BOOTME">>}
                \/ uart_tx.left > 0 /\ uart_tx.text = "BOOTME" /\ script.inbox = << >>
    <3>1. Calling'
      BY <2>4 DEF Calling
    <3> QED BY <1>4, <3>1 DEF UartInv, Uart
  <2> QED BY <2>1, <2>3, <2>4 DEF Calling
<1>5. CASE Uart
  <2>1. Heard
    BY <1>5 DEF UartInv
  <2>2. /\ Waiting' = Waiting /\ Replying' = Replying /\ Replied' = Replied
        /\ LineDone' = LineDone /\ Refusing' = Refusing
    BY DEF Waiting, Replying, Replied, LineDone, Refusing
  <2>3. Starved' = Starved /\ Rejected' = Rejected
    BY DEF Starved, Rest, Rejected, NoStart
  <2>4. InLine => InLine'
    <3>1. CASE \E got \in Arriving(line) : \E p \in 1 .. Len(got) - 1 :
                  Parsed(got, p) /\ Coming(got, p)
      <4>1. PICK got \in Arriving(line) : \E p \in 1 .. Len(got) - 1 :
                  Parsed(got, p) /\ Coming(got, p)
        BY <3>1
      <4>2. PICK p \in 1 .. Len(got) - 1 : Parsed(got, p) /\ Coming(got, p)
        BY <4>1
      <4>3. Parsed(got, p)' /\ Coming(got, p)' /\ got \in Arriving(line)'
        BY <1>3, <4>2, ArrivingKept, ParsedKept
      <4> QED BY <1>2, <4>2, <4>3 DEF InLine
    <3>2. CASE uart.state = "TERMINATION" /\ Len(uart_rx) = 1 /\ script.out = TheLine
      BY <1>1, <1>2, <3>2 DEF InLine
    <3> QED BY <1>1, <3>1, <3>2 DEF InLine
  <2>5. /\ \A n : Stored(n)' <=> Stored(n)
        /\ NotYet => NotYet'
    BY <1>5 DEF Stored, NotYet
  <2>6. JumpedTo(TheLine) => JumpedTo(TheLine)'
    <3>1. script.line - 1 \in DOMAIN Image
      BY <2>1 DEF Heard
    <3>2. RecordAddress(TheLine) # NoEntry
      BY <3>1, ImageFacts DEF TheLine
    <3>3. JumpedTo(TheLine) => entry' = entry
      BY <1>5, <3>2 DEF JumpedTo
    <3> QED BY <1>1, <1>2, <3>3 DEF JumpedTo
  <2>7. Heard'
    BY <2>1, <2>2, <2>3, <2>4, <2>5, <2>6 DEF Heard
  <2> QED BY <1>5, <2>7 DEF UartInv, Uart
<1> QED BY <1>4, <1>5

\* A record that is not complete will not be: it wants more than the rest of its line.
LEMMA OverrunStarves ==
  ASSUME NEW line \in Seq(Chars), NEW m, Layout(line, m), Overrun(line),
         NEW p \in Nat, p + 1 = DataAt(line), LineType', Coming(line, p + 1)'
  PROVE  Starved'
<1> DEFINE d == DataBytes(line)
           e == DataAt(line)
           c == CrcAt(line)
           n == Len(line)
           r == Len(uart_rx')
           o == Len(script'.out)
<1>1. /\ d \in -5 .. 252 /\ m \in 0 .. 255 /\ n = e + 2 * m + 2 /\ n \in Nat
  BY LayoutFacts
<1>2. p + 1 = e /\ (p + 1) + r + o = n + 1
  BY DEF Coming
<1>3. r \in Nat /\ o \in Nat
  BY DEF LineType, LoaderType, ScriptType
<1>4. /\ uart'.state = "DATA" /\ uart'.rxd = 0 /\ uart'.dataCount = d % UINT16
      /\ m > 0
  BY DEF Overrun, Layout
<1>5. d < 0 \/ d > m
  <2>1. ~(d >= 0) \/ ~(c + 2 <= n)
    BY DEF Overrun, Complete
  <2>2. c = e + (IF d = 0 THEN 1 ELSE 2 * d)
    BY DEF Overrun, CrcAt
  <2> HIDE DEF d, e, c, n
  <2>3. e \in Nat
    BY <1>2
  <2>4. CASE d = 0
    <3>1. c = e + 1
      BY <2>2, <2>4
    <3> QED BY <1>1, <1>4, <2>1, <2>3, <2>4, <3>1
  <2>5. CASE d > 0
    <3>1. c = e + 2 * d
      BY <1>1, <2>2, <2>5
    <3> QED BY <1>1, <2>1, <2>3, <2>5, <3>1
  <2> QED BY <1>1, <2>4, <2>5
<1> HIDE DEF d, e, c, n, r, o
<1>6. r + o = 2 * m + 3
  BY <1>1, <1>2, <1>3
<1>7. d % UINT16 \in Nat /\ 2 * m + 3 < 2 * (d % UINT16) + 2
  <2>1. CASE d < 0
    <3>1. d % UINT16 = d + 65536
      BY <1>1, <2>1 DEF UINT16
    <3> QED BY <1>1, <3>1
  <2>2. CASE d > m
    <3>1. d % UINT16 = d
      BY <1>1, <2>2 DEF UINT16
    <3> QED BY <1>1, <2>2, <3>1
  <2> QED BY <1>5, <2>1, <2>2
<1>8. 0 + (r + o) < 1000 /\ 0 + (r + o) < 2 * (d % UINT16) + 2
  <2> DEFINE z == d % UINT16
  <2>1. z \in Nat /\ 2 * m + 3 < 2 * z + 2
    BY <1>7
  <2> HIDE DEF z
  <2>2. 0 + (r + o) < 1000 /\ 0 + (r + o) < 2 * z + 2
    BY <1>1, <1>6, <2>1
  <2> QED BY <2>2 DEF z
<1> QED BY <1>4, <1>8 DEF Starved, Rest, r, o

\* A record that wants more than its line has takes all of it and waits.
LEMMA StarvedStep ==
  ASSUME LineType, Starved, uart_rx # << >>, processUartProtocolFrames, UNCHANGED script
  PROVE  Starved' /\ UNCHANGED <<shared, uart_tx>>
<1> DEFINE r == Len(uart_rx)
           o == Len(script.out)
<1>1. /\ LoaderType /\ DOMAIN uart = Fields /\ uart_rx \in Seq(Chars) /\ script.out \in Seq(Chars)
      /\ uart.rxd \in Nat /\ uart.dataCount \in Nat /\ uart.buf \in Seq(Chars)
  <2>1. LoaderType /\ script.out \in Seq(Chars)
    BY DEF LineType, ScriptType
  <2>2. uart_rx \in Seq(Chars) /\ UartWidths
    BY <2>1 DEF LoaderType
  <2>3. /\ DOMAIN uart = Fields /\ uart.buf \in Seq(Chars)
        /\ uart.rxd \in Uint16 /\ uart.dataCount \in Uint16
    BY <2>2 DEF UartWidths
  <2>4. \A z \in Uint16 : z \in Nat
    BY Uint16Facts, Zenon
  <2> QED BY <2>1, <2>2, <2>3, <2>4, Zenon
<1>2. r \in Nat \ {0} /\ o \in Nat /\ Len(uart_rx') = r - 1 /\ script'.out = script.out
  <2>1. uart_rx' = Tail(uart_rx)
    BY <1>1, Dispatch
  <2> QED BY <1>1, <2>1, EmptySeq
<1>3. CASE uart.state = "DATA"
  <2> DEFINE whole == Len(Filled) = 2
             data  == IF whole THEN uart.data \o atoh(Filled) ELSE uart.data
             rxd   == (uart.rxd + 1) % UINT16
             sum   == (uart.chk + SumBytes(data)) % UINT16
             buf   == IF whole THEN << >> ELSE Filled
             x     == uart.rxd
             dc    == uart.dataCount
  <2>1. Data
    BY <1>1, <1>3, Dispatch
  <2>2. /\ uart' = IF DataDone(rxd)
                   THEN [uart EXCEPT !.data = data, !.buf = << >>, !.rxd = 0,
                                     !.chk = sum, !.state = "CRC"]
                   ELSE [uart EXCEPT !.data = data, !.rxd = rxd, !.buf = buf]
        /\ UNCHANGED <<shared, uart_tx>>
    BY <2>1 DEF Data, Quiet
  <2>3. x + (r + o) < 1000 /\ x + (r + o) < 2 * dc + 2 /\ x \in Nat /\ dc \in Nat
    BY <1>1, <1>3 DEF Starved, Rest
  <2>4. rxd = x + 1
    <3> HIDE DEF r, o
    <3>1. x + 1 < 1000
      <4> HIDE DEF x, dc
      <4> QED BY <1>2, <2>3
    <3>2. (x + 1) % UINT16 = x + 1
      <4> HIDE DEF x
      <4> QED BY <2>3, <3>1 DEF UINT16
    <3> QED BY <3>2
  <2>5. DataDone(rxd) <=> x + 1 >= 2 * dc
    BY <2>4 DEF DataDone
  <2> HIDE DEF data, sum, buf, rxd
  <2>6. CASE DataDone(rxd)
    <3>1. uart'.state = "CRC" /\ uart'.buf = << >>
      BY <1>1, <2>2, <2>6 DEF Fields
    <3>2. 0 + ((r - 1) + o) < 2
      <4> HIDE DEF x, dc, r, o
      <4> QED BY <1>2, <2>3, <2>5, <2>6
    <3>3. Len(uart'.buf) + (Len(uart_rx') + Len(script'.out)) < 2
      BY <1>2, <3>1, <3>2
    <3> QED BY <2>2, <3>1, <3>3 DEF Starved, Rest
  <2>7. CASE ~DataDone(rxd)
    <3>1. uart'.state = "DATA" /\ uart'.rxd = rxd /\ uart'.dataCount = dc
      BY <1>1, <1>3, <2>2, <2>7 DEF Fields
    <3>2. (x + 1) + ((r - 1) + o) < 1000 /\ (x + 1) + ((r - 1) + o) < 2 * dc + 2
      <4> HIDE DEF x, dc, r, o
      <4> QED BY <1>2, <2>3
    <3>3. /\ uart'.rxd + (Len(uart_rx') + Len(script'.out)) < 1000
          /\ uart'.rxd + (Len(uart_rx') + Len(script'.out)) < 2 * uart'.dataCount + 2
      BY <1>2, <2>4, <3>1, <3>2
    <3> QED BY <2>2, <3>1, <3>3 DEF Starved, Rest
  <2> QED BY <2>6, <2>7
<1>4. CASE uart.state = "CRC"
  <2> DEFINE b == Len(uart.buf)
  <2>1. Crc
    BY <1>1, <1>4, Dispatch
  <2>a. Len(uart.buf) + Rest < 2
    BY <1>4 DEF Starved
  <2>b. b \in Nat
    BY <1>1
  <2>2. b + (r + o) < 2 /\ b \in Nat
    BY <2>a, <2>b, Zenon DEF Rest
  <2>3. b = 0 /\ r = 1 /\ o = 0
    <3> HIDE DEF b, r, o
    <3> QED BY <1>2, <2>2
  <2>4. Len(Filled) = 1
    <3>1. lChar \in Chars
      BY <1>1, Dispatch
    <3> QED BY <1>1, <2>3, <3>1 DEF Filled
  <2>5. uart' = [uart EXCEPT !.buf = Filled] /\ UNCHANGED <<shared, uart_tx>>
    BY <2>1, <2>4 DEF Crc, Quiet
  <2>6. uart'.state = "CRC" /\ uart'.buf = Filled
    BY <1>1, <1>4, <2>5 DEF Fields
  <2>7. Len(uart'.buf) + (Len(uart_rx') + Len(script'.out)) < 2
    BY <1>2, <2>3, <2>4, <2>6
  <2> QED BY <2>5, <2>6, <2>7 DEF Starved, Rest
<1> QED BY <1>3, <1>4 DEF Starved

\* A record that is over leaves nothing in its line that begins another.
LEMMA RestRejects ==
  ASSUME NEW line \in Seq(Chars), NEW m, Layout(line, m), NEW p \in Nat, p > 1,
         LineType', Coming(line, p + 1)', uart'.state = "TERMINATION"
  PROVE  Rejected'
<1> DEFINE n == Len(line)
           r == Len(uart_rx')
           o == Len(script'.out)
<1>1. /\ n \in Nat /\ n > 10 /\ (\A i \in 3 .. n - 1 : line[i] \in 0 .. 15)
  BY LayoutFacts
<1>2. line[n] = CharLF
  BY DEF Layout
<1>3. ASSUME NEW i \in 3 .. n PROVE line[i] # CharS
  <2>1. CASE i = n
    BY <1>2, <2>1 DEF CharLF, CharS
  <2>2. CASE i # n
    <3>1. i \in 3 .. n - 1
      BY <1>1, <2>2
    <3> QED BY <1>1, <3>1, SMTT(30) DEF CharS
  <2> QED BY <2>1, <2>2
<1>4. /\ uart_rx' \in Seq(Chars) /\ script'.out \in Seq(Chars) /\ r \in Nat /\ o \in Nat
      /\ DOMAIN uart_rx' = 1 .. r /\ DOMAIN script'.out = 1 .. o
  BY DEF LineType, LoaderType, ScriptType
<1>5. /\ r <= 1 /\ (p + 1) + r + o = n + 1
      /\ uart_rx' # << >> => uart_rx'[1] = line[p + 1]
      /\ \A i \in DOMAIN script'.out : script'.out[i] = line[n - o + i]
  BY DEF Coming
<1>6. ASSUME NEW i \in DOMAIN uart_rx' PROVE uart_rx'[i] # CharS
  <2>1. i = 1 /\ p + 1 \in 3 .. n /\ uart_rx' # << >>
    <3>1. uart_rx' # << >>
      BY <1>4
    <3> HIDE DEF n, r, o
    <3> QED BY <1>1, <1>4, <1>5, <3>1
  <2> QED BY <1>3, <1>5, <2>1
<1>7. ASSUME NEW i \in DOMAIN script'.out PROVE script'.out[i] # CharS
  <2>1. n - o + i \in 3 .. n
    <3> HIDE DEF n, r, o
    <3> QED BY <1>1, <1>4, <1>5
  <2> QED BY <1>3, <1>5, <2>1
<1> QED BY <1>6, <1>7 DEF Rejected, NoStart

\* What is left of a line that is over.
Leftover == uart.state \in {"TERMINATION", "IDLE"} /\ NoStart(uart_rx)

\* It is ignored.
LEMMA LeftoverStep ==
  ASSUME LoaderType, Leftover, uart_rx # << >>, processUartProtocolFrames
  PROVE  Leftover' /\ UNCHANGED <<shared, uart_tx>>
<1>1. uart_rx \in Seq(Chars)
  BY DEF LoaderType
<1>2. uart_rx' = Tail(uart_rx)
  BY Dispatch
<1>3. ASSUME NEW i \in DOMAIN uart_rx' PROVE uart_rx'[i] # CharS
  <2>1. i + 1 \in DOMAIN uart_rx /\ uart_rx'[i] = uart_rx[i + 1]
    BY <1>1, <1>2
  <2> QED BY <2>1 DEF Leftover, NoStart
<1>4. uart'.state \in {"TERMINATION", "IDLE"} /\ UNCHANGED <<shared, uart_tx>>
  <2>1. CASE uart.state = "TERMINATION"
    <3>1. Termination
      BY <2>1, Dispatch
    <3>2. /\ uart' = [Cleared EXCEPT !.dataCount = uart.dataCount]
          /\ UNCHANGED <<shared, uart_tx>>
      BY <3>1 DEF Termination, Quiet
    <3>3. uart'.state = "IDLE"
      BY <3>2 DEF Cleared
    <3> QED BY <3>2, <3>3
  <2>2. CASE uart.state = "IDLE"
    <3>1. Idle
      BY <2>2, Dispatch
    <3>2. lChar # CharS
      <4>1. 1 \in DOMAIN uart_rx /\ lChar = uart_rx[1]
        BY <1>1 DEF lChar
      <4> QED BY <4>1 DEF Leftover, NoStart
    <3>3. UNCHANGED <<uart, shared>> /\ UNCHANGED uart_tx
      BY <3>1, <3>2 DEF Idle, Quiet
    <3> QED BY <2>2, <3>3
  <2> QED BY <2>1, <2>2 DEF Leftover
<1> QED BY <1>3, <1>4 DEF Leftover, NoStart

\* And so is the rest that has not been sent.
LEMMA RejectedStep ==
  ASSUME LineType, Rejected, uart_rx # << >>, processUartProtocolFrames, UNCHANGED script
  PROVE  Rejected' /\ UNCHANGED <<shared, uart_tx>>
<1>1. Leftover' /\ UNCHANGED <<shared, uart_tx>>
  BY LeftoverStep DEF LineType, Rejected, Leftover
<1> QED BY <1>1 DEF Rejected, Leftover, NoStart

\* The UART loader reads the script's line, character by character.
LEMMA LoopUartInv ==
  ASSUME BootType, BootType', LoaderInv, HeardInv, UartInv, SRecordFile, Protected, LoopUart
  PROVE  UartInv'
<1>1. /\ LoaderType /\ LineType /\ script.line \in Nat \ {0}
      /\ uart_rx \in Seq(Chars) /\ script.out \in Seq(Chars)
  BY DEF BootType, LineType, LoaderType, ScriptType
<1>2. Running /\ uart_tx.left = 0 /\ UNCHANGED <<script, errors>> /\ LineType'
  BY DEF LoopUart, Ready, world, outside, BootType
<1>3. CASE I2c
  <2>1. UNCHANGED <<gStopUartBootLoaderFlg, gStopI2CBootLoaderFlg, uart, uart_rx, uart_tx,
                    loaded, entry>>
    BY <1>3 DEF LoopUart, I2c, uartvars, shared, flags
  <2> QED BY <1>2, <2>1, UartKept DEF I2c, Running
<1>4. CASE ~I2c /\ uart_rx = << >>
  <2>1. NoCharacter
    BY <1>4 DEF LoopUart, I2c, processUartProtocolFrames, Idle, RecordType, Count, Address,
                Data, Crc, Termination, Reads
  <2>2. UNCHANGED <<gStopUartBootLoaderFlg, gStopI2CBootLoaderFlg, uart, uart_rx, uart_tx,
                    loaded, entry>>
    BY <2>1 DEF NoCharacter, uartvars, shared, flags
  <2> QED BY <1>2, <2>2, UartKept DEF I2c, Running
<1>5. CASE ~I2c /\ uart_rx # << >>
  <2>1. processUartProtocolFrames /\ uart_rx # << >>
    BY <1>5 DEF LoopUart, I2c
  <2>2. uart_rx' = Tail(uart_rx)
    BY <1>1, <2>1, Dispatch
  <2>3. PICK line : line = TheLine
    OBVIOUS
  <2>4. TheLine' = line
    BY <1>2, <2>3 DEF TheLine
  <2>5. ASSUME script.line - 1 \in DOMAIN Image
        PROVE  /\ line \in Seq(Chars) /\ SRecord(line) /\ Len(line) \in Nat /\ Len(line) > 4
               /\ line[2] \in JumpTypes <=> script.line - 1 = Len(Image)
    BY <2>3, <2>5, ImageFacts DEF TheLine
  <2>a. ASSUME script.line - 1 \in DOMAIN Image, NEW got \in Arriving(line)
        PROVE  /\ got \in Seq(Chars) /\ Len(got) = Len(line)
               /\ Layout(got, DataBytes(line)) /\ got \in Arriving(TheLine)'
               /\ got = line \/ ~Complete(got) \/ ~Checks(got)
    <3>1. got \in Arriving(line)'
      BY <1>2, ArrivingKept
    <3>2. line = Image[script.line - 1]
      BY <2>3 DEF TheLine
    <3>3. /\ got \in Seq(Chars) /\ Len(got) = Len(line)
          /\ Layout(got, DataBytes(line))
          /\ got = line \/ ~Complete(got) \/ ~Checks(got)
      BY <2>a, <3>2, Damaged
    <3> QED BY <2>4, <3>1, <3>3
  <2>6. CASE ~Uart
    <3>1. /\ script.line = 2 /\ 1 \in DOMAIN Image /\ script.inbox = << >>
          /\ \E got \in Arriving(line) : Coming(got, 1)
      BY <1>2, <1>5, <2>3, <2>6 DEF UartInv, Calling
    <3>2. script.line - 1 = 1 /\ script.line - 2 = 0 /\ script.line - 1 \in DOMAIN Image
      BY <3>1
    <3>3. line \in Seq(Chars) /\ SRecord(line) /\ Len(line) \in Nat /\ Len(line) > 4
      BY <2>5, <3>2
    <3>4. uart.state = "IDLE" /\ loaded = {}
      BY <1>5, <2>6 DEF HeardInv
    <3>5. PICK got \in Arriving(line) : Coming(got, 1)
      BY <3>1
    <3>6. /\ got \in Seq(Chars) /\ Len(got) = Len(line)
          /\ Layout(got, DataBytes(line)) /\ got \in Arriving(TheLine)'
          /\ SRecord(got) \/ ~Complete(got) \/ ~Checks(got)
      BY <2>a, <3>2, <3>3
    <3>7. 1 \in 1 .. Len(got) - 1 /\ 1 \in Nat /\ Parsed(got, 1)
      BY <3>3, <3>4, <3>6 DEF Parsed, AtStart
    <3>8. lChar = got[1] /\ Coming(got, 1 + 1)'
      BY <1>1, <1>2, <2>1, <2>2, <3>5, <3>6, <3>7, ComingNext
    <3>9. /\ 1 + 1 \in 1 .. Len(got) - 1 /\ Parsed(got, 1 + 1)'
          /\ UNCHANGED <<loaded, entry, uart_tx>> /\ Uart'
      <4>1. Stepped(got, 1)
        BY <1>1, <2>1, <3>6, <3>7, <3>8, LineStep
      <4> QED BY <4>1 DEF Stepped
    <3>10. InLine'
      BY <3>6, <3>8, <3>9 DEF InLine
    <3>11. Waiting' /\ NotYet' /\ Stored(script.line - 2)'
      BY <1>2, <3>1, <3>2, <3>4, <3>9, UartDataZero DEF Waiting, NotYet, Running, Stored
    <3>12. Heard'
      BY <1>2, <3>2, <3>10, <3>11 DEF Heard
    <3> QED BY <3>9, <3>12 DEF UartInv
  <2>7. CASE Uart
    <3>1. Heard /\ script.line - 1 \in DOMAIN Image
      BY <2>7 DEF UartInv, Heard
    <3>2. /\ line \in Seq(Chars) /\ SRecord(line) /\ Len(line) \in Nat /\ Len(line) > 4
          /\ line[2] \in JumpTypes <=> script.line - 1 = Len(Image)
      BY <2>5, <3>1
    <3>3. ~JumpedTo(TheLine) /\ ~Replying
      BY <1>2, <3>1, ImageFacts DEF JumpedTo, Replying, Running, TheLine
    <3>4. NotYet /\ NoEntry \in {NoEntry, JtagEntry}
      BY <1>2 DEF NotYet, Running
    <3>5. CASE Waiting /\ Stored(script.line - 2) /\ InLine
      <4>1. Len(uart_rx) \in Nat /\ Len(script.out) \in Nat
        BY <1>1
      <4>2. CASE uart.state = "TERMINATION" /\ Len(uart_rx) = 1 /\ script.out = TheLine
        <5>1. Termination
          BY <1>1, <2>1, <4>2, Dispatch
        <5>2. /\ uart' = [Cleared EXCEPT !.dataCount = uart.dataCount]
              /\ UNCHANGED <<gStopI2CBootLoaderFlg, loaded, entry, uart_tx>>
          BY <5>1 DEF Termination, Quiet, shared, flags
        <5>3. Parsed(line, 1)'
          <6>1. uart'.state = "IDLE"
            BY <5>2 DEF Cleared
          <6> QED BY <6>1 DEF Parsed, AtStart
        <5>4. Coming(line, 1)'
          <6>1. uart_rx' = << >> /\ Len(uart_rx') = 0
            BY <1>1, <2>2, <4>2, TailOfOne
          <6>2. 1 + 0 + Len(line) = Len(line) + 1
            BY <3>2
          <6>3. ASSUME NEW i \in DOMAIN line PROVE line[i] = line[Len(line) - Len(line) + i]
            BY <3>2
          <6> QED BY <1>2, <2>3, <4>2, <6>1, <6>2, <6>3 DEF Coming
        <5>5. InLine'
          <6>1. 1 \in 1 .. Len(line) - 1
            BY <3>2
          <6>2. line \in Arriving(TheLine)'
            BY <2>4 DEF Arriving
          <6> QED BY <5>3, <5>4, <6>1, <6>2 DEF InLine
        <5>6. Waiting' /\ Stored(script.line - 2)' /\ NotYet' /\ Uart'
          BY <1>2, <2>7, <3>4, <3>5, <5>2 DEF Waiting, Stored, NotYet, Uart
        <5> QED BY <1>2, <3>1, <5>5, <5>6 DEF Heard, UartInv
      <4>3. CASE \E got \in Arriving(TheLine) : \E p \in 1 .. Len(got) - 1 :
                    Parsed(got, p) /\ Coming(got, p)
        <5>0. PICK got \in Arriving(line) : \E p \in 1 .. Len(got) - 1 :
                    Parsed(got, p) /\ Coming(got, p)
          BY <2>3, <4>3
        <5>1. PICK p \in 1 .. Len(got) - 1 : Parsed(got, p) /\ Coming(got, p)
          BY <5>0
        <5>a. /\ got \in Seq(Chars) /\ Len(got) = Len(line) /\ Len(got) \in Nat
              /\ Layout(got, DataBytes(line)) /\ got \in Arriving(TheLine)'
              /\ got = line \/ ~Complete(got) \/ ~Checks(got)
          BY <2>a, <3>1, <3>2
        <5>2. p \in Nat /\ p >= 1
          BY <5>a
        <5>3. /\ lChar = got[p] /\ Coming(got, p + 1)'
              /\ uart_rx' = << >> /\ Len(script.out) = Len(got) - p
          BY <1>1, <1>2, <2>1, <2>2, <5>a, <5>1, <5>2, ComingNext
        <5>4. Stepped(got, p)
          <6>1. SRecord(got) \/ ~Complete(got) \/ ~Checks(got)
            BY <3>2, <5>a
          <6> QED BY <1>1, <2>1, <5>a, <5>1, <5>3, <6>1, LineStep
        <5>5. CASE /\ p + 1 \in 1 .. Len(got) - 1 /\ Parsed(got, p + 1)'
                   /\ UNCHANGED <<loaded, entry, uart_tx>> /\ Uart'
          <6>1. InLine'
            BY <5>a, <5>3, <5>5 DEF InLine
          <6>2. Waiting' /\ Stored(script.line - 2)' /\ NotYet'
            BY <1>2, <3>4, <3>5, <5>5 DEF Waiting, Stored, NotYet
          <6> QED BY <1>2, <3>1, <5>5, <6>1, <6>2 DEF Heard, UartInv
        <5>7. CASE /\ p + 1 = DataAt(got) /\ Overrun(got)
                   /\ UNCHANGED <<loaded, entry, uart_tx>> /\ Uart'
          <6>1. Starved'
            BY <1>2, <5>a, <5>2, <5>3, <5>7, OverrunStarves
          <6>2. Refusing' /\ Stored(script.line - 2)' /\ NotYet'
            BY <1>2, <3>4, <3>5, <5>7 DEF Refusing, Waiting, Stored, NotYet
          <6> QED BY <1>2, <3>1, <5>7, <6>1, <6>2 DEF Heard, UartInv
        <5>8. CASE p # 1 /\ Refused
          <6>1. Rejected'
            <7>1. p > 1
              BY <5>2, <5>8
            <7> QED BY <1>2, <5>a, <5>2, <5>3, <5>8, <7>1, RestRejects DEF Refused
          <6>2. Uart' /\ Stored(script.line - 2)' /\ NotYet'
            BY <1>2, <2>7, <3>4, <3>5, <5>8 DEF Refused, Uart, flags, Stored, NotYet
          <6>3. Refusing'
            <7>1. uart_tx'.text = "NOT OK"
              BY <5>8, Zenon DEF Refused
            <7>2. script'.inbox = << >>
              BY <1>2, <3>5 DEF Waiting
            <7>3. uart_tx'.left > 0
              <8>1. uart_tx'.left = 25
                BY <5>8, Zenon DEF Refused
              <8> QED BY <8>1
            <7> QED BY <7>1, <7>2, <7>3, Zenon DEF Refusing
          <6> QED BY <1>2, <3>1, <6>1, <6>2, <6>3 DEF Heard, UartInv
        <5>6. CASE p = Len(got) - 1 /\ SRecord(got) /\ Executed(got)
          <6>0. p = Len(line) - 1 /\ Executed(line) /\ Len(script.out) = Len(line) - p
            <7>1. Complete(got) /\ Checks(got)
              BY <5>a, <5>6, RecordFacts, ChecksumFacts
            <7>2. got = line
              BY <5>a, <7>1
            <7> QED BY <5>3, <5>6, <7>2
          <6>1. Uart'
            BY <2>7, <6>0 DEF Executed, Uart, flags
          <6>2. CASE line[2] \in JumpTypes
            <7>1. entry' = RecordAddress(line) /\ UNCHANGED <<loaded, uart_tx>>
              BY <6>0, <6>2 DEF Executed
            <7>2. JumpedTo(TheLine)'
              BY <2>4, <6>2, <7>1 DEF JumpedTo
            <7>3. Waiting' /\ Stored(script.line - 2)'
              BY <1>2, <3>5, <7>1 DEF Waiting, Stored
            <7> QED BY <1>2, <3>1, <6>1, <7>2, <7>3 DEF Heard, UartInv
          <6>3. CASE line[2] \notin JumpTypes
            <7>1. /\ uart_tx' = [text |-> "OK", left |-> 4] /\ UNCHANGED entry
                  /\ uart'.state = "TERMINATION"
                  /\ line[2] \in StoredTypes =>
                        loaded' = loaded \cup {<<RecordAddress(line), RecordData(line)>>}
                  /\ line[2] \notin StoredTypes => UNCHANGED loaded
              BY <6>0, <6>3 DEF Executed
            <7>2. script.line \in DOMAIN Image
              <8>1. script.line - 1 # Len(Image)
                BY <3>2, <6>3
              <8>2. DOMAIN Image = 1 .. Len(Image) /\ Len(Image) \in Nat
                BY <3>1, ImageFacts
              <8> QED BY <1>1, <3>1, <8>1, <8>2
            <7>3. Replying'
              BY <1>2, <3>5, <7>1 DEF Replying, Waiting
            <7>4. Stored(script.line - 1)'
              <8> DEFINE k == script.line - 1
              <8>1. k \in DOMAIN Image /\ k - 1 = script.line - 2 /\ Image[k] = line
                BY <1>1, <2>3, <3>1 DEF TheLine
              <8>2. loaded = UartData(k - 1)
                BY <3>5, <8>1 DEF Stored
              <8>3. loaded' = UartData(k)
                <9> HIDE DEF k
                <9> QED BY <7>1, <8>1, <8>2, UartDataNext
              <8> QED BY <1>2, <8>3 DEF Stored
            <7>5. LineDone'
              <8>1. Len(uart_rx') = 0
                BY <5>3
              <8>2. Len(script.out) = 1
                <9> DEFINE n == Len(line)
                <9>1. n \in Nat /\ p = n - 1 /\ Len(script.out) = n - p
                  BY <3>2, <6>0
                <9> HIDE DEF n
                <9> QED BY <9>1
              <8>3. Len(uart_rx') + Len(script'.out) = 1
                BY <1>2, <8>1, <8>2
              <8> QED BY <7>1, <8>3 DEF LineDone
            <7>6. NotYet'
              BY <3>4, <7>1 DEF NotYet
            <7> QED BY <1>2, <3>1, <6>1, <7>2, <7>3, <7>4, <7>5, <7>6 DEF Heard, UartInv
          <6> QED BY <6>2, <6>3
        <5> QED BY <2>7, <5>4, <5>5, <5>6, <5>7, <5>8 DEF Stepped
      <4> QED BY <3>5, <4>2, <4>3 DEF InLine
    <3>6. CASE Replied /\ script.line \in DOMAIN Image /\ Stored(script.line - 1) /\ LineDone
      <4>1. uart.state = "TERMINATION" /\ Len(uart_rx) + Len(script.out) = 1
        BY <2>1, <3>6 DEF LineDone
      <4>2. Len(uart_rx) = 1 /\ Len(script.out) = 0
        <5> DEFINE r == Len(uart_rx)
                   o == Len(script.out)
        <5>1. r \in Nat /\ o \in Nat /\ r # 0 /\ r + o = 1
          BY <1>1, <2>1, <4>1
        <5> HIDE DEF r, o
        <5>2. r = 1 /\ o = 0
          BY <5>1
        <5> QED BY <5>2 DEF r, o
      <4>3. uart_rx' = << >> /\ script.out = << >>
        <5>1. uart_rx' = << >>
          BY <1>1, <2>2, <4>2, TailOfOne
        <5>2. script.out = << >>
          BY <1>1, <4>2
        <5> QED BY <5>1, <5>2
      <4>4. Termination
        BY <1>1, <2>1, <4>1, Dispatch
      <4>5. /\ uart' = [Cleared EXCEPT !.dataCount = uart.dataCount]
            /\ UNCHANGED <<gStopI2CBootLoaderFlg, loaded, entry, uart_tx>>
        BY <4>4 DEF Termination, Quiet, shared, flags
      <4>6. uart'.state = "IDLE"
        BY <4>5 DEF Cleared
      <4>7. LineDone'
        BY <1>2, <4>3, <4>6 DEF LineDone
      <4>8. Replied' /\ Stored(script.line - 1)' /\ NotYet' /\ Uart'
        BY <1>2, <2>7, <3>4, <3>6, <4>5 DEF Replied, Stored, NotYet, Uart
      <4> QED BY <1>2, <3>1, <3>6, <4>7, <4>8 DEF Heard, UartInv
    <3>7. CASE Refusing /\ Stored(script.line - 2) /\ (Starved \/ Rejected)
      <4>1. Starved' \/ Rejected'
        BY <1>1, <1>2, <2>1, <3>7, StarvedStep, RejectedStep
      <4>2. UNCHANGED <<shared, uart_tx>>
        BY <1>1, <1>2, <2>1, <3>7, StarvedStep, RejectedStep
      <4>3. Refusing' /\ Stored(script.line - 2)' /\ NotYet' /\ Uart'
        BY <1>2, <2>7, <3>4, <3>7, <4>2 DEF Refusing, Stored, NotYet, Uart, shared, flags
      <4> QED BY <1>2, <3>1, <4>1, <4>3 DEF Heard, UartInv
    <3> QED BY <1>2, <3>1, <3>3, <3>5, <3>6, <3>7 DEF Heard
  <2> QED BY <2>6, <2>7
<1> QED BY <1>3, <1>4, <1>5

\* The ROM calls only while no host has been heard.
LEMMA TickInv ==
  ASSUME BootType, HeardInv, UartInv, SRecordFile, Protected, Tick
  PROVE  UartInv'
<1>1. UNCHANGED <<gStopUartBootLoaderFlg, gStopI2CBootLoaderFlg, script, uart, uart_rx,
                  loaded, entry, errors>>
  BY DEF Tick, shared, flags, world, outside
<1>2. CASE UNCHANGED uart_tx
  BY <1>1, <1>2, UartKept DEF I2c, Running
<1>3. CASE BootMeDue /\ uart_tx' = [text |-> "BOOTME", left |-> 12]
  <2>1. ~Uart /\ ~I2c /\ Running /\ script.out = << >> /\ script.inbox = << >>
    BY <1>3 DEF BootMeDue, HeardInv, Tick, Ready
  <2>2. script.line = 1 /\ uart_rx = << >>
    <3>1. SUFFICES ASSUME script.line = 2, 1 \in DOMAIN Image,
                          NEW got \in Arriving(TheLine), Coming(got, 1)
                   PROVE  FALSE
      BY <2>1 DEF UartInv, Calling
    <3> DEFINE n == Len(got)
               r == Len(uart_rx)
    <3>2. n \in Nat /\ n > 4
      <4>1. TheLine = Image[1]
        BY <3>1 DEF TheLine
      <4>2. Len(got) = Len(Image[1])
        BY <3>1, <4>1, Damaged
      <4> QED BY <3>1, <4>2, ImageFacts
    <3>3. r \in Nat /\ r <= 1 /\ 1 + r + 0 = n + 1
      <4>1. Len(script.out) = 0
        BY <2>1
      <4> QED BY <3>1, <4>1 DEF Coming, BootType, LineType, LoaderType
    <3> HIDE DEF n, r
    <3> QED BY <3>2, <3>3
  <2>3. uart_tx'.left = 12 /\ uart_tx'.text = "BOOTME"
    BY <1>3
  <2>4. Calling'
    BY <1>1, <2>1, <2>2, <2>3 DEF Calling
  <2> QED BY <1>1, <2>1, <2>4 DEF UartInv, Uart
<1> QED BY <1>2, <1>3 DEF Tick

\* The script answers a call or an OK with the next line.
LEMMA ScriptSends ==
  ASSUME BootType, ScriptReads, script.inbox \in {<<"BOOTME">>, <<"OK">>},
         script.line \in DOMAIN Image
  PROVE  /\ script'.line = script.line + 1 /\ script'.inbox = << >>
         /\ script'.out = Image[script.line] /\ TheLine' = Image[script.line]
         /\ script'.line - 1 = script.line /\ script'.line - 2 = script.line - 1
<1>0. script.line \in Nat /\ DOMAIN Image = 1 .. Len(Image) /\ Len(Image) \in Nat
  BY BootAssumption DEF BootType, LineType, ScriptType
<1>1. Head(script.inbox) \in {"BOOTME", "OK"} /\ Tail(script.inbox) = << >>
  <2>1. CASE script.inbox = <<"BOOTME">>
    BY <2>1
  <2>2. CASE script.inbox = <<"OK">>
    BY <2>2
  <2> QED BY <2>1, <2>2
<1>2. script.line <= Len(Image)
  BY <1>0
<1>3. script' = [line |-> script.line + 1, out |-> Image[script.line], inbox |-> << >>]
  BY <1>1, <1>2, Zenon DEF ScriptReads
<1>4. /\ script'.line = script.line + 1 /\ script'.inbox = << >>
      /\ script'.out = Image[script.line]
  BY <1>3
<1>5. script'.line - 1 = script.line /\ script'.line - 2 = script.line - 1
  BY <1>0, <1>4
<1> QED BY <1>4, <1>5 DEF TheLine

\* It ignores NOT OK, and everything after its last line.
LEMMA ScriptIgnores ==
  ASSUME BootType, ScriptReads, NEW text, script.inbox = <<text>>,
         text \notin {"BOOTME", "OK"} \/ script.line \notin DOMAIN Image
  PROVE  script'.line = script.line /\ script'.out = script.out /\ script'.inbox = << >>
<1>0. /\ script.line \in Nat \ {0} /\ DOMAIN script = {"line", "out", "inbox"}
      /\ DOMAIN Image = 1 .. Len(Image) /\ Len(Image) \in Nat
  BY BootAssumption DEF BootType, LineType, ScriptType
<1>1. Head(script.inbox) = text /\ Tail(script.inbox) = << >>
  OBVIOUS
<1>2. ~(Head(script.inbox) \in {"BOOTME", "OK"} /\ script.line <= Len(Image))
  <2>1. script.line \notin DOMAIN Image => ~(script.line <= Len(Image))
    BY <1>0
  <2> QED BY <1>1, <2>1
<1>3. script' = [script EXCEPT !.inbox = Tail(@)]
  BY <1>2 DEF ScriptReads
<1> QED BY <1>0, <1>1, <1>3

\* A new line is as it was sent.
LEMMA FreshLine ==
  ASSUME SRecordFile, NEW k \in DOMAIN Image, script'.out = Image[k], uart_rx' = << >>
  PROVE  1 \in 1 .. Len(Image[k]) - 1 /\ Coming(Image[k], 1)'
<1>1. Image[k] \in Seq(Chars) /\ Len(Image[k]) \in Nat /\ Len(Image[k]) > 4
  BY ImageFacts
<1> DEFINE n == Len(Image[k])
<1>2. 1 + 0 + n = n + 1 /\ 1 \in 1 .. n - 1 /\ \A i \in 1 .. n : n - n + i = i
  <2>1. n \in Nat /\ n > 4
    BY <1>1
  <2> HIDE DEF n
  <2> QED BY <2>1
<1>3. \A i \in DOMAIN Image[k] : Image[k][i] = Image[k][Len(Image[k]) - Len(Image[k]) + i]
  BY <1>1, <1>2
<1>4. Len(uart_rx') = 0
  OBVIOUS
<1> QED BY <1>2, <1>3, <1>4 DEF Coming

\* The script answers a call with the first line, and an OK with the next one.
LEMMA ScriptReadsInv ==
  ASSUME BootType, UartInv, SRecordFile, ScriptReads
  PROVE  UartInv'
<1>1. /\ script.inbox # << >> /\ script.out = << >>
      /\ UNCHANGED <<gStopUartBootLoaderFlg, gStopI2CBootLoaderFlg, uart, uart_rx, uart_tx,
                     loaded, entry>>
  BY DEF ScriptReads, shared, flags, uartvars
<1>2. /\ uart_rx \in Seq(Chars) /\ script.line \in Nat \ {0} /\ Len(uart_rx) \in Nat
      /\ DOMAIN script = {"line", "out", "inbox"}
      /\ DOMAIN Image = 1 .. Len(Image) /\ Len(Image) \in Nat
  BY BootAssumption DEF BootType, LineType, LoaderType, ScriptType
<1>3. ASSUME script.inbox \in {<<"BOOTME">>, <<"OK">>}, script.line \in DOMAIN Image
      PROVE  /\ script'.line = script.line + 1 /\ script'.inbox = << >>
             /\ script'.out = Image[script.line] /\ TheLine' = Image[script.line]
             /\ script'.line - 1 = script.line /\ script'.line - 2 = script.line - 1
  BY <1>3, ScriptSends
<1>4. ASSUME NEW k \in DOMAIN Image, script'.out = Image[k], TheLine' = Image[k],
             uart_rx = << >>
      PROVE  \E got \in Arriving(TheLine)' : 1 \in 1 .. Len(got) - 1 /\ Coming(got, 1)'
  <2>1. PICK got : got = Image[k]
    OBVIOUS
  <2>2. got \in Arriving(TheLine)'
    BY <1>4, <2>1 DEF Arriving
  <2>3. 1 \in 1 .. Len(got) - 1 /\ Coming(got, 1)'
    BY <1>1, <1>4, <2>1, FreshLine
  <2> QED BY <2>2, <2>3
<1>5. CASE ~Uart
  <2>1. script.line = 1 /\ uart_rx = << >> /\ uart_tx.left = 0 /\ script.inbox = <<"BOOTME">>
    BY <1>1, <1>5 DEF UartInv, Calling
  <2>2. CASE 1 \in DOMAIN Image
    <3>1. /\ script'.line = 2 /\ script'.inbox = << >> /\ script'.out = Image[1]
          /\ TheLine' = Image[1]
      BY <1>3, <2>1, <2>2
    <3>2. \E got \in Arriving(TheLine)' : Coming(got, 1)'
      BY <1>4, <2>1, <2>2, <3>1
    <3>3. Calling'
      BY <1>1, <2>1, <2>2, <3>1, <3>2 DEF Calling
    <3> QED BY <1>1, <1>5, <3>3 DEF UartInv, Uart
  <2>3. CASE 1 \notin DOMAIN Image
    <3>4. script'.inbox = << >> /\ script'.line = 1 /\ script'.out = << >>
      BY <1>1, <2>1, <2>3, ScriptIgnores
    <3>5. Calling'
      BY <1>1, <2>1, <3>4 DEF Calling
    <3> QED BY <1>1, <1>5, <3>5 DEF UartInv, Uart
  <2> QED BY <2>2, <2>3
<1>6. CASE Uart
  <2>0. CASE ~Replied
    <3>1. /\ Refusing /\ Stored(script.line - 2) /\ NotYet /\ (Running => Starved \/ Rejected)
          /\ script.line - 1 \in DOMAIN Image
      BY <1>1, <1>6, <2>0 DEF UartInv, Heard, Waiting, Replying
    <3>2. uart_tx.left = 0 /\ script.inbox = <<"NOT OK">>
      BY <1>1, <3>1 DEF Refusing
    <3>3. PICK text : text = "NOT OK"
      BY Zenon
    <3>4. text # "BOOTME" /\ text # "OK" /\ script.inbox = <<text>>
      BY <3>2, <3>3, Zenon
    <3>5. script'.line = script.line /\ script'.out = script.out /\ script'.inbox = << >>
      BY <3>4, ScriptIgnores
    <3>6. Refusing' /\ Stored(script.line - 2)' /\ NotYet' /\ Running' = Running
      BY <1>1, <3>1, <3>2, <3>5 DEF Refusing, Stored, NotYet, Running
    <3>7. Starved' = Starved /\ Rejected' = Rejected
      BY <1>1, <3>5 DEF Starved, Rest, Rejected, NoStart
    <3>8. Heard'
      BY <3>1, <3>5, <3>6, <3>7 DEF Heard
    <3> QED BY <1>1, <1>6, <3>8 DEF UartInv, Uart
  <2> SUFFICES ASSUME Replied PROVE UartInv'
    BY <2>0
  <2>1. /\ Replied /\ script.line \in DOMAIN Image /\ Stored(script.line - 1)
        /\ NotYet /\ (Running => LineDone)
    BY <1>1, <1>6 DEF UartInv, Heard, Waiting, Replying, Replied, Refusing
  <2>2. script.inbox = <<"OK">> /\ uart_tx.left = 0
    BY <2>1 DEF Replied
  <2>3. /\ script'.line = script.line + 1 /\ script'.inbox = << >>
        /\ script'.out = Image[script.line] /\ TheLine' = Image[script.line]
        /\ script'.line - 1 = script.line /\ script'.line - 2 = script.line - 1
    BY <1>3, <2>1, <2>2
  <2>4. script'.line - 1 \in DOMAIN Image /\ Waiting' /\ Stored(script.line - 2)' /\ NotYet'
    BY <1>1, <2>1, <2>2, <2>3 DEF Waiting, Stored, NotYet
  <2>5. Running' => InLine'
    <3> SUFFICES ASSUME Running' PROVE InLine'
      OBVIOUS
    <3>1. LineDone
      BY <1>1, <2>1 DEF Running
    <3>2. CASE uart.state = "TERMINATION" /\ Len(uart_rx) + Len(script.out) = 1
      <4>1. Len(script.out) = 0
        BY <1>1
      <4>2. Len(uart_rx) = 1
        BY <1>2, <3>2, <4>1
      <4> QED BY <1>1, <2>3, <3>2, <4>2 DEF InLine
    <3>3. CASE uart.state = "IDLE" /\ uart_rx = << >>
      <4>1. PICK got \in Arriving(TheLine)' : 1 \in 1 .. Len(got) - 1 /\ Coming(got, 1)'
        BY <1>4, <2>1, <2>3, <3>3
      <4>2. Parsed(got, 1)'
        BY <1>1, <3>3 DEF Parsed, AtStart
      <4> QED BY <4>1, <4>2 DEF InLine
    <3> QED BY <3>1, <3>2, <3>3 DEF LineDone
  <2>6. Heard'
    BY <2>4, <2>5 DEF Heard
  <2> QED BY <1>1, <1>6, <2>6 DEF UartInv, Uart
<1> QED BY <1>5, <1>6

\* Errors are only counted up.
LEMMA ErrorsGrow == errors \in Nat /\ [Next]_vars => errors' \in {errors, errors + 1}
<1> SUFFICES ASSUME errors \in Nat, [Next]_vars PROVE errors' \in {errors, errors + 1}
  OBVIOUS
<1>1. CASE ROM \/ ScriptReads \/ Debugger \/ UNCHANGED vars
  BY <1>1 DEF ROM, ReadResetReason, Start, LoopJtag, LoopUart, LoopI2c, I2cStep, Tick, ScriptReads,
              Debugger, vars, world, outside
<1>2. CASE CharacterTime
  <2>1. CASE script.out # << >>
    BY <1>2, <2>1, Zenon DEF CharacterTime
  <2>2. CASE script.out = << >>
    BY <1>2, <2>2, Zenon DEF CharacterTime
  <2> QED BY <2>1, <2>2
<1>3. CASE HostChecks
  BY <1>3 DEF HostChecks
<1>4. CASE HostReadsReply
  BY <1>4 DEF HostReadsReply
<1>5. CASE HostPushes
  BY <1>5, Zenon DEF HostPushes
<1>6. CASE HostRings
  BY <1>6 DEF HostRings
<1>7. CASE HostSeesEmpty
  BY <1>7 DEF HostSeesEmpty
<1> QED BY <1>1, <1>2, <1>3, <1>4, <1>5, <1>6, <1>7 DEF Next, I2cHost

\* What is received of the next character: itself, or a corrupted digit.
NextAt == Len(TheLine) - Len(script.out) + 1
Heads(c) == \/ c = Head(script.out) /\ errors' = errors /\ hit' = hit
            \/ /\ c \in Flips(Head(script.out)) /\ Head(script.out) < 16
               /\ Field(NextAt) \in HitFields
               /\ errors < MaxErrors /\ errors' = errors + 1
               /\ hit' = hit \cup {script.line - 1}

\* One character time.
LEMMA CharacterFacts ==
  ASSUME LineType, CharacterTime
  PROVE  /\ script'.line = script.line
         /\ script'.out = IF script.out # << >> THEN Tail(script.out) ELSE << >>
         /\ script'.inbox = IF uart_tx.left = 1 THEN Append(script.inbox, uart_tx.text)
                            ELSE script.inbox
         /\ uart_tx'.text = uart_tx.text
         /\ uart_tx'.left = IF uart_tx.left = 0 THEN 0 ELSE uart_tx.left - 1
         /\ script.out # << >> => \E c : Heads(c)
               /\ uart_rx' = IF Len(uart_rx) < RX_DEPTH THEN Append(uart_rx, c) ELSE uart_rx
         /\ script.out = << >> => uart_tx.left > 0 /\ UNCHANGED <<uart_rx, errors, hit>>
         /\ Running /\ uart_tx.left = 0 /\ ~I2c => uart_rx = << >>
         /\ UNCHANGED <<gStopUartBootLoaderFlg, gStopI2CBootLoaderFlg, uart, loaded, entry>>
<1> DEFINE sends == script.out # << >>
           field == Field(NextAt)
           done == uart_tx.left = 1
           left == IF uart_tx.left = 0 THEN 0 ELSE uart_tx.left - 1
           out == IF sends THEN Tail(script.out) ELSE script.out
           inbox == IF done THEN Append(script.inbox, uart_tx.text) ELSE script.inbox
<1>1. /\ DOMAIN script = {"line", "out", "inbox"}
      /\ uart_tx \in [text : Texts, left : Nat]
  BY DEF LineType, LoaderType, ScriptType
<1>2. /\ uart_tx' = [uart_tx EXCEPT !.left = left]
      /\ script' = [script EXCEPT !.out = out, !.inbox = inbox]
      /\ sends \/ uart_tx.left > 0
      /\ Ready /\ ~gStopUartBootLoaderFlg => uart_rx = << >>
      /\ UNCHANGED <<shared, uart>>
      /\ ~sends => UNCHANGED <<uart_rx, errors, hit>>
  BY DEF CharacterTime
<1>3. ASSUME sends
      PROVE  \E c : Heads(c)
               /\ uart_rx' = IF Len(uart_rx) < RX_DEPTH THEN Append(uart_rx, c) ELSE uart_rx
  <2>1. PICK c \in Received(Head(script.out), field) :
              /\ uart_rx' = IF Len(uart_rx) < RX_DEPTH THEN Append(uart_rx, c) ELSE uart_rx
              /\ IF c = Head(script.out) THEN UNCHANGED <<errors, hit>>
                 ELSE errors' = errors + 1 /\ hit' = hit \cup {script.line - 1}
    BY <1>3, Zenon DEF CharacterTime, NextAt, TheLine
  <2>2. \/ c = Head(script.out)
        \/ /\ c \in Flips(Head(script.out)) /\ field \in HitFields /\ Head(script.out) < 16
           /\ errors < MaxErrors
    BY <2>1, Zenon DEF Received, Flips
  <2>3. Heads(c)
    BY <2>1, <2>2, Zenon DEF Heads
  <2> QED BY <2>1, <2>3
<1> HIDE DEF left, out, inbox, field
<1>4. /\ script'.line = script.line /\ script'.out = out /\ script'.inbox = inbox
      /\ uart_tx'.text = uart_tx.text /\ uart_tx'.left = left
  BY <1>1, <1>2
<1>5. UNCHANGED <<gStopUartBootLoaderFlg, gStopI2CBootLoaderFlg, uart, loaded, entry>>
  BY <1>2 DEF shared, flags
<1> QED BY <1>2, <1>3, <1>4, <1>5 DEF left, out, inbox, Ready, I2c

\* The character that the script sends next.
LEMMA ComingHead ==
  ASSUME NEW line \in Seq(Chars), NEW p \in Nat, script.out \in Seq(Chars), Coming(line, p),
         uart_rx = << >>, script.out # << >>
  PROVE  Head(script.out) = line[p] /\ Len(script.out) = Len(line) + 1 - p
<1> DEFINE n == Len(line)
           o == Len(script.out)
<1>1. /\ p + Len(uart_rx) + o = n + 1 /\ Len(uart_rx) = 0
      /\ \A i \in DOMAIN script.out : script.out[i] = line[n - o + i]
  BY DEF Coming
<1>2. n \in Nat /\ o \in Nat \ {0} /\ DOMAIN script.out = 1 .. o /\ Head(script.out) = script.out[1]
  BY EmptySeq
<1> HIDE DEF n, o
<1>3. 1 \in 1 .. o /\ n - o + 1 = p /\ o = n + 1 - p
  BY <1>1, <1>2
<1> QED BY <1>1, <1>2, <1>3 DEF n, o

\* A character enters the receive FIFO, as it was sent or not.
LEMMA ComingSent ==
  ASSUME NEW line \in Seq(Chars), NEW p \in Nat, script.out \in Seq(Chars), Coming(line, p),
         uart_rx = << >>, script.out # << >>, NEW got, Len(got) = Len(line),
         \A i \in p + 1 .. Len(line) : got[i] = line[i],
         uart_rx' = Append(uart_rx, got[p]), script'.out = Tail(script.out)
  PROVE  Coming(got, p)'
<1> DEFINE n == Len(line)
           o == Len(script.out)
<1>1. /\ p + Len(uart_rx) + Len(script.out) = Len(line) + 1
      /\ \A i \in DOMAIN script.out : script.out[i] = line[Len(line) - Len(script.out) + i]
      /\ Len(uart_rx) = 0
  BY DEF Coming
<1>2. n \in Nat /\ o \in Nat \ {0} /\ DOMAIN script.out = 1 .. o
  BY EmptySeq
<1>3. p + 0 + o = n + 1
  BY <1>1
<1>4. uart_rx' = <<got[p]>>
  OBVIOUS
<1>5. Len(uart_rx') = 1 /\ uart_rx'[1] = got[p]
  BY <1>4
<1>6. /\ Len(script'.out) = o - 1 /\ \A i \in 1 .. o - 1 : script'.out[i] = script.out[i + 1]
      /\ DOMAIN script'.out = 1 .. o - 1
  BY <1>2
<1>7. \A i \in 1 .. o : script.out[i] = line[n - o + i]
  BY <1>1, <1>2
<1>8. ASSUME NEW i \in 1 .. o - 1 PROVE script'.out[i] = got[n - (o - 1) + i]
  <2>0. n - (o - 1) + i \in p + 1 .. n
    <3> HIDE DEF n, o
    <3> QED BY <1>2, <1>3
  <2>1. got[n - (o - 1) + i] = line[n - (o - 1) + i]
    BY <2>0
  <2> HIDE DEF n, o
  <2>2. i + 1 \in 1 .. o /\ n - o + (i + 1) = n - (o - 1) + i
    BY <1>2
  <2>3. script'.out[i] = script.out[i + 1] /\ script.out[i + 1] = line[n - o + (i + 1)]
    BY <1>6, <1>7, <2>2
  <2> QED BY <2>1, <2>2, <2>3
<1>9. p + 1 + (o - 1) = n + 1
  <2> HIDE DEF n, o
  <2> QED BY <1>2, <1>3
<1>10. /\ p + Len(uart_rx') + Len(script'.out) = Len(got) + 1
       /\ \A i \in DOMAIN script'.out :
             script'.out[i] = got[Len(got) - Len(script'.out) + i]
  BY <1>5, <1>6, <1>8, <1>9
<1>11. Len(uart_rx') <= 1
  BY <1>5
<1> QED BY <1>5, <1>10, <1>11, Zenon DEF Coming

\* The last characters of a line may come in while the ROM sends its answer.
LEMMA LineDoneKept ==
  ASSUME LineType, CharacterTime, LineDone
  PROVE  LineDone'
<1>1. uart_rx \in Seq(Chars) /\ script.out \in Seq(Chars)
  BY DEF LineType, LoaderType, ScriptType
<1>2. UNCHANGED uart
  BY CharacterFacts
<1>3. CASE script.out = << >>
  <2>1. script'.out = << >> /\ UNCHANGED uart_rx
    BY <1>3, CharacterFacts
  <2> QED BY <1>2, <1>3, <2>1 DEF LineDone
<1>4. CASE script.out # << >>
  <2>1. uart.state = "TERMINATION" /\ Len(uart_rx) + Len(script.out) = 1
    BY <1>4 DEF LineDone
  <2>2. Len(uart_rx) = 0 /\ Len(script.out) = 1
    <3> DEFINE r == Len(uart_rx)
               o == Len(script.out)
    <3>1. r \in Nat /\ o \in Nat \ {0} /\ r + o = 1
      BY <1>1, <1>4, <2>1, EmptySeq
    <3> HIDE DEF r, o
    <3>2. r = 0 /\ o = 1
      BY <3>1
    <3> QED BY <3>2 DEF r, o
  <2>3. PICK c : uart_rx' = IF Len(uart_rx) < RX_DEPTH THEN Append(uart_rx, c) ELSE uart_rx
    BY <1>4, CharacterFacts
  <2>4. uart_rx' = Append(uart_rx, c) /\ script'.out = Tail(script.out)
    BY <1>4, <2>2, <2>3, CharacterFacts DEF RX_DEPTH
  <2>5. Len(uart_rx') = 1
    BY <1>1, <2>2, <2>4
  <2>6. Len(script'.out) = 0
    BY <1>1, <2>2, <2>4, TailOfOne
  <2> QED BY <1>2, <2>1, <2>5, <2>6 DEF LineDone
<1> QED BY <1>3, <1>4

\* Waiting for more than there is goes on while the rest of the line comes in.
LEMMA StarvedKept ==
  ASSUME LineType, CharacterTime, Starved
  PROVE  Starved'
<1> DEFINE r == Len(uart_rx)
           o == Len(script.out)
           r2 == Len(uart_rx')
           o2 == Len(script'.out)
<1>1. uart_rx \in Seq(Chars) /\ script.out \in Seq(Chars)
  BY DEF LineType, LoaderType, ScriptType
<1>2. UNCHANGED uart
  BY CharacterFacts
<1>3. r \in Nat /\ o \in Nat /\ r2 \in Nat /\ o2 \in Nat /\ r2 + o2 <= r + o
  <2>1. CASE script.out = << >>
    <3>1. script'.out = << >> /\ UNCHANGED uart_rx
      BY <2>1, CharacterFacts
    <3> QED BY <1>1, <2>1, <3>1
  <2>2. CASE script.out # << >>
    <3>1. PICK c : uart_rx' = IF Len(uart_rx) < RX_DEPTH THEN Append(uart_rx, c) ELSE uart_rx
      BY <2>2, CharacterFacts
    <3>2. r \in Nat /\ r2 \in {r, r + 1}
      BY <1>1, <3>1
    <3>3. script'.out = Tail(script.out)
      BY <2>2, CharacterFacts
    <3>4. o \in Nat \ {0} /\ o2 = o - 1
      BY <1>1, <2>2, <3>3, EmptySeq
    <3> HIDE DEF r, o, r2, o2
    <3> QED BY <3>2, <3>4
  <2> QED BY <2>1, <2>2
<1>4. CASE /\ uart.state = "DATA" /\ uart.rxd + Rest < 1000
           /\ uart.rxd + Rest < 2 * uart.dataCount + 2
  <2> DEFINE x == uart.rxd
             dc == uart.dataCount
  <2>1. /\ x + (r + o) < 1000 /\ x + (r + o) < 2 * dc + 2
    BY <1>4 DEF Rest
  <2>2. x \in Nat /\ dc \in Nat
    <3>1. UartWidths
      BY DEF LineType, LoaderType
    <3>2. uart.rxd \in Uint16 /\ uart.dataCount \in Uint16
      BY <3>1 DEF UartWidths
    <3> QED BY <3>2, Uint16Facts
  <2>3. x + (r2 + o2) < 1000 /\ x + (r2 + o2) < 2 * dc + 2
    <3> HIDE DEF r, o, r2, o2, x, dc
    <3> QED BY <1>3, <2>1, <2>2
  <2> QED BY <1>2, <1>4, <2>3 DEF Starved, Rest
<1>5. CASE uart.state = "CRC" /\ Len(uart.buf) + Rest < 2
  <2> DEFINE b == Len(uart.buf)
  <2>1. b + (r + o) < 2
    BY <1>5 DEF Rest
  <2>2. b \in Nat
    BY DEF LineType, LoaderType, UartWidths
  <2>3. b + (r2 + o2) < 2
    <3> HIDE DEF r, o, r2, o2, b
    <3> QED BY <1>3, <2>1, <2>2
  <2> QED BY <1>2, <1>5, <2>3 DEF Starved, Rest
<1> QED BY <1>4, <1>5 DEF Starved

\* Nothing in the rest of a line becomes an 'S' on its way.
LEMMA NoisyKept ==
  ASSUME LineType, CharacterTime, Noisy
  PROVE  Noisy'
<1>1. uart_rx \in Seq(Chars) /\ script.out \in Seq(Chars)
  BY DEF LineType, LoaderType, ScriptType
<1>2. CASE script.out = << >>
  <2>1. script'.out = << >> /\ UNCHANGED uart_rx
    BY <1>2, CharacterFacts
  <2> QED BY <1>2, <2>1 DEF Noisy, NoStart
<1>3. CASE script.out # << >>
  <2>1. PICK c : /\ Heads(c)
                 /\ uart_rx' = IF Len(uart_rx) < RX_DEPTH THEN Append(uart_rx, c) ELSE uart_rx
    BY <1>3, CharacterFacts
  <2>2. c # CharS
    <3>1. CASE c = Head(script.out)
      <4>1. 1 \in DOMAIN script.out /\ Head(script.out) = script.out[1]
        BY <1>1, <1>3, EmptySeq
      <4> QED BY <3>1, <4>1 DEF Noisy, NoStart
    <3>2. CASE c \in Flips(Head(script.out))
      BY <3>2 DEF Flips, CharS
    <3> QED BY <2>1, <3>1, <3>2 DEF Heads
  <2>3. ASSUME NEW i \in DOMAIN uart_rx' PROVE uart_rx'[i] # CharS
    <3>1. CASE uart_rx' = uart_rx
      BY <3>1 DEF Noisy, NoStart
    <3>2. CASE uart_rx' = Append(uart_rx, c)
      <4>1. \/ i \in DOMAIN uart_rx /\ uart_rx'[i] = uart_rx[i]
            \/ uart_rx'[i] = c
        BY <1>1, <3>2
      <4> QED BY <2>2, <4>1 DEF Noisy, NoStart
    <3> QED BY <2>1, <3>1, <3>2
  <2>4. script'.out = Tail(script.out)
    BY <1>3, CharacterFacts
  <2>5. ASSUME NEW i \in DOMAIN script'.out PROVE script'.out[i] # CharS
    <3>1. i + 1 \in DOMAIN script.out /\ script'.out[i] = script.out[i + 1]
      BY <1>1, <1>3, <2>4
    <3> QED BY <3>1 DEF Noisy, NoStart
  <2> QED BY <2>3, <2>5 DEF Noisy, NoStart
<1> QED BY <1>2, <1>3

\* So a refused line stays refused.
LEMMA RejectedKept ==
  ASSUME LineType, CharacterTime, Rejected
  PROVE  Rejected'
<1>1. UNCHANGED uart
  BY CharacterFacts
<1> QED BY <1>1, NoisyKept DEF Rejected, Noisy

\* Where the loader is in a line depends on what it has read of it.
LEMMA ParsedPrefix ==
  ASSUME NEW line \in Seq(Chars), NEW m, Layout(line, m), NEW got, Alike(got, line, m),
         NEW p \in Nat, p > 2, \A i \in 1 .. p - 1 : got[i] = line[i], Parsed(line, p)
  PROVE  Parsed(got, p)
<1> DEFINE a == AddressBytes(line)
           e == DataAt(line)
           d == DataBytes(line)
           c == CrcAt(line)
<1>1. /\ got \in Seq(Chars) /\ Len(got) = Len(line) /\ got[2] = line[2] /\ Layout(got, m)
      /\ AddressBytes(got) = a /\ DataAt(got) = e
  BY DEF Alike
<1>2. a \in 2 .. 4 /\ e = 5 + 2 * a /\ d \in -5 .. 252
  BY LayoutFacts
<1>3. ASSUME NEW i \in Nat, i >= 1, i + 1 < p
      PROVE  ByteOf(got, i) = ByteOf(line, i)
  <2>1. i \in 1 .. p - 1 /\ i + 1 \in 1 .. p - 1
    BY <1>3
  <2> QED BY <2>1 DEF ByteOf
<1>4. Typed(line) => Typed(got)
  BY <1>1 DEF Typed
<1>5. ASSUME NEW f \in Nat, f >= 1, Taken(line, f, p)
      PROVE  Taken(got, f, p)
  <2>1. Len(uart.buf) = p - f /\ \A i \in 1 .. p - f : uart.buf[i] = line[f + i - 1]
    BY <1>5 DEF Taken
  <2>2. ASSUME NEW i \in 1 .. p - f PROVE uart.buf[i] = got[f + i - 1]
    <3>1. f + i - 1 \in 1 .. p - 1
      BY <1>5
    <3> QED BY <2>1, <3>1
  <2> QED BY <2>1, <2>2, Zenon DEF Taken
<1>6. ASSUME NEW f \in Nat, f >= 1, NEW x \in Int, x <= 0 \/ f + 2 * x <= p
      PROVE  Bytes(got, f, x) = Bytes(line, f, x)
  <2>1. ASSUME NEW k \in 1 .. x
        PROVE  ByteOf(got, f + 2 * (k - 1)) = ByteOf(line, f + 2 * (k - 1))
    <3> DEFINE i == f + 2 * (k - 1)
    <3>1. i \in Nat /\ i >= 1 /\ i + 1 < p
      BY <1>6
    <3> HIDE DEF i
    <3>2. ByteOf(got, i) = ByteOf(line, i)
      BY <1>3, <3>1
    <3> QED BY <3>2 DEF i
  <2> DEFINE g(k) == ByteOf(got, f + 2 * (k - 1))
             h(k) == ByteOf(line, f + 2 * (k - 1))
  <2>2. \A k \in 1 .. x : g(k) = h(k)
    BY <2>1
  <2>3. Bytes(got, f, x) = [k \in 1 .. x |-> g(k)] /\ Bytes(line, f, x) = [k \in 1 .. x |-> h(k)]
    BY DEF Bytes
  <2> HIDE DEF g, h
  <2> QED BY <2>2, <2>3
<1>7. ASSUME p >= 5
      PROVE  /\ ByteOf(got, 3) = ByteOf(line, 3) /\ DataBytes(got) = d /\ CrcAt(got) = c
             /\ Complete(line) => Complete(got)
  <2>1. ByteOf(got, 3) = ByteOf(line, 3)
    <3>1. 3 \in Nat /\ 3 >= 1 /\ 3 + 1 < p
      BY <1>7
    <3> QED BY <1>3, <3>1
  <2>2. DataBytes(got) = d
    BY <1>1, <2>1 DEF DataBytes
  <2>3. CrcAt(got) = c
    BY <1>1, <2>2 DEF CrcAt
  <2> QED BY <1>1, <2>1, <2>2, <2>3 DEF Complete
<1>8. ASSUME p >= e
      PROVE  /\ p >= 5 /\ RecordAddress(got) = RecordAddress(line) /\ HeadSum(got) = HeadSum(line)
  <2>1. p >= 5 /\ 5 + 2 * a <= p
    <3> HIDE DEF a, e
    <3> QED BY <1>2, <1>8
  <2>2. a \in Int
    BY <1>2
  <2> HIDE DEF a
  <2>3. Bytes(got, 5, a) = Bytes(line, 5, a)
    BY <1>6, <2>1, <2>2
  <2>4. RecordAddress(got) = RecordAddress(line)
    BY <1>1, <2>3 DEF RecordAddress, a
  <2> QED BY <1>7, <2>1, <2>4 DEF HeadSum
<1>9. CASE AtStart(line, p) \/ AtType(line, p)
  BY <1>9 DEF AtStart, AtType
<1>10. CASE AtCount(line, p)
  BY <1>4, <1>5, <1>10 DEF AtCount, Parsed
<1>11. CASE AtAddress(line, p)
  <2>1. /\ p \in 5 .. e - 1 /\ uart.state = "ADDRESS" /\ Typed(line)
        /\ uart.dataCount = d % UINT16 /\ uart.chk = ByteOf(line, 3) /\ Taken(line, 5, p)
    BY <1>11 DEF AtAddress
  <2>2. p >= 5
    BY <2>1
  <2>3. Taken(got, 5, p)
    BY <1>5, <2>1
  <2>4. /\ DataAt(got) = e /\ DataBytes(got) = d /\ ByteOf(got, 3) = ByteOf(line, 3)
        /\ Typed(got)
    BY <1>1, <1>4, <1>7, <2>1, <2>2
  <2>5. AtAddress(got, p)
    <3> HIDE DEF d, e
    <3> QED BY <2>1, <2>3, <2>4 DEF AtAddress
  <2> QED BY <2>5 DEF Parsed
<1>12. CASE AtData(line, p)
  <2>1. /\ p \in e .. c - 1 /\ uart.state = "DATA" /\ Typed(line)
        /\ line[2] \notin JumpTypes /\ Complete(line)
        /\ uart.dataCount = d /\ uart.chk = HeadSum(line)
        /\ uart.address = RecordAddress(line) /\ uart.rxd = p - e
        /\ Collected(line, p)
    BY <1>12 DEF AtData
  <2>2. p >= e
    BY <1>2, <2>1
  <2>3. /\ DataBytes(got) = d /\ CrcAt(got) = c /\ Complete(got) /\ HeadSum(got) = HeadSum(line)
        /\ RecordAddress(got) = RecordAddress(line) /\ Typed(got)
    BY <1>4, <1>7, <1>8, <2>1, <2>2
  <2>4. PICK j \in 0 .. d :
            /\ p \in {e + 2 * j, e + 2 * j + 1} /\ Taken(line, e + 2 * j, p)
            /\ Len(uart.data) = j /\ \A i \in 1 .. j : uart.data[i] = RecordData(line)[i]
    BY <2>1 DEF Collected
  <2>5. Taken(got, e + 2 * j, p)
    <3>1. e + 2 * j \in Nat /\ e + 2 * j >= 1
      BY <1>2, <2>4
    <3> QED BY <1>5, <2>4, <3>1
  <2>6. ASSUME NEW i \in 1 .. j PROVE uart.data[i] = RecordData(got)[i]
    <3>1. i \in 1 .. d
      <4> HIDE DEF d
      <4> QED BY <1>2, <2>4
    <3>2. RecordData(line)[i] = ByteOf(line, e + 2 * (i - 1))
      BY <2>1, <3>1, RecordParts
    <3>3. RecordData(got)[i] = ByteOf(got, e + 2 * (i - 1))
      BY <1>1, <2>1, <2>3, <3>1, RecordParts
    <3>4. e + 2 * (i - 1) \in Nat /\ e + 2 * (i - 1) >= 1 /\ (e + 2 * (i - 1)) + 1 < p
      <4>1. e \in Nat /\ e >= 5 /\ j \in Nat /\ p >= e + 2 * j
        BY <1>2, <2>4
      <4> HIDE DEF e
      <4> QED BY <4>1
    <3>5. ByteOf(got, e + 2 * (i - 1)) = ByteOf(line, e + 2 * (i - 1))
      BY <1>3, <3>4
    <3> QED BY <2>4, <3>2, <3>3, <3>5
  <2>7. Collected(got, p)
    <3> HIDE DEF d, e
    <3> QED BY <1>1, <2>3, <2>4, <2>5, <2>6 DEF Collected
  <2>8. AtData(got, p)
    <3> HIDE DEF c, d, e
    <3> QED BY <1>1, <2>1, <2>3, <2>7 DEF AtData
  <2> QED BY <2>8 DEF Parsed
<1>13. CASE AtCrc(line, p)
  <2>1. /\ p \in {c, c + 1} /\ uart.state = "CRC" /\ Typed(line) /\ Complete(line)
        /\ uart.chk = FullSum(line) /\ uart.address = RecordAddress(line)
        /\ line[2] \notin JumpTypes => uart.data = RecordData(line)
        /\ Taken(line, c, p)
    BY <1>13 DEF AtCrc
  <2>2. c \in Nat /\ c >= e /\ e \in Nat
    BY <2>1, CompleteFacts
  <2>3. p >= e /\ p >= c
    <3> HIDE DEF c, e
    <3> QED BY <2>1, <2>2
  <2>4. /\ ByteOf(got, 3) = ByteOf(line, 3) /\ DataBytes(got) = d /\ CrcAt(got) = c
        /\ Complete(got) /\ HeadSum(got) = HeadSum(line)
        /\ RecordAddress(got) = RecordAddress(line) /\ Typed(got)
    BY <1>4, <1>7, <1>8, <2>1, <2>3
  <2>5. ASSUME line[2] \notin JumpTypes PROVE RecordData(got) = RecordData(line)
    <3>1. d \in 0 .. 252 /\ (d > 0 => c = e + 2 * d)
      BY <2>1, <2>5, CompleteFacts
    <3>2. e \in Nat /\ e >= 1 /\ d \in Int /\ (d <= 0 \/ e + 2 * d <= p)
      <4>1. d \in Int /\ (d <= 0 \/ d > 0)
        <5> HIDE DEF d
        <5> QED BY <1>2
      <4>2. e >= 1
        BY <1>2
      <4> HIDE DEF c, d, e
      <4> QED BY <2>2, <2>3, <3>1, <4>1, <4>2
    <3>3. Bytes(got, e, d) = Bytes(line, e, d)
      <4> HIDE DEF d, e
      <4> QED BY <1>6, <3>2
    <3>4. RecordData(line) = Bytes(line, e, d)
      BY DEF RecordData, DataAt, DataBytes
    <3>5. RecordData(got) = Bytes(got, e, d)
      BY <1>1, <2>4 DEF RecordData, DataAt, DataBytes
    <3> QED BY <3>3, <3>4, <3>5
  <2>6. FullSum(got) = FullSum(line)
    BY <1>1, <2>4, <2>5 DEF FullSum
  <2>7. Taken(got, c, p)
    <3>1. c >= 1
      <4>1. e >= 1
        BY <1>2
      <4> HIDE DEF c, e
      <4> QED BY <2>2, <4>1
    <3> HIDE DEF c
    <3> QED BY <1>5, <2>1, <2>2, <3>1
  <2>8. AtCrc(got, p)
    <3> HIDE DEF c
    <3> QED BY <1>1, <2>1, <2>4, <2>5, <2>6, <2>7 DEF AtCrc
  <2> QED BY <2>8 DEF Parsed
<1> QED BY <1>9, <1>10, <1>11, <1>12, <1>13 DEF Parsed

\* The next character of the line comes in, and may be its only corrupted one.
LEMMA LineSent ==
  ASSUME BootType, errors \in Nat, OneErrorAtMost, SRecordFile, Protected,
         CharacterTime, Running, ~I2c, uart_tx.left = 0, script.line - 1 \in DOMAIN Image,
         NEW got \in Arriving(TheLine), NEW p \in 1 .. Len(got) - 1, Coming(got, p)
  PROVE  \E now \in Arriving(TheLine)' :
            /\ Len(now) = Len(got) /\ Coming(now, p)'
            /\ Parsed(got, p) => Parsed(now, p)'
<1>1. PICK line : line = TheLine
  OBVIOUS
<1> DEFINE n == Len(line)
           m == DataBytes(line)
<1>2. /\ LineType /\ script.out \in Seq(Chars) /\ uart_rx = << >> /\ script.out # << >>
      /\ UNCHANGED uart /\ TheLine' = line /\ script'.out = Tail(script.out)
  <2>1. LineType
    BY DEF BootType
  <2>2. script.out \in Seq(Chars)
    BY <2>1 DEF LineType, ScriptType
  <2>3. /\ uart_rx = << >> /\ script.out # << >> /\ UNCHANGED uart
        /\ script'.line = script.line
    BY <2>1, CharacterFacts
  <2>4. script'.out = Tail(script.out)
    BY <2>1, <2>3, CharacterFacts
  <2> QED BY <1>1, <2>1, <2>2, <2>3, <2>4 DEF TheLine
<1>3. /\ line \in Seq(Chars) /\ n \in Nat /\ n > 4 /\ line[1] = CharS /\ Layout(line, m)
      /\ got \in Seq(Chars) /\ Len(got) = n /\ got \in Arriving(line)
  <2>1. line = Image[script.line - 1]
    BY <1>1 DEF TheLine
  <2>2. /\ line \in Seq(Chars) /\ SRecord(line) /\ n \in Nat /\ n > 4 /\ line[1] = CharS
    BY <2>1, ImageFacts
  <2>3. Layout(line, m)
    BY <2>2, RecordFacts
  <2>4. got \in Arriving(line)
    BY <1>1
  <2>5. got \in Seq(Chars) /\ Len(got) = n
    BY <2>1, <2>4, Damaged
  <2> QED BY <2>2, <2>3, <2>4, <2>5
<1> HIDE DEF m
<1>4. PICK c : /\ Heads(c)
               /\ uart_rx' = IF Len(uart_rx) < RX_DEPTH THEN Append(uart_rx, c) ELSE uart_rx
  BY <1>2, CharacterFacts
<1>5. uart_rx' = Append(uart_rx, c)
  <2>1. Len(uart_rx) < RX_DEPTH
    BY <1>2 DEF RX_DEPTH
  <2> QED BY <1>4, <2>1
<1>6. p \in Nat /\ p >= 1 /\ p <= n - 1
  BY <1>3
<1>7. Head(script.out) = got[p] /\ Len(script.out) = n + 1 - p
  BY <1>2, <1>3, <1>6, ComingHead
<1>8. CASE c = Head(script.out) /\ errors' = errors
  <2>1. got \in Arriving(line)'
    BY <1>3, <1>8, ArrivingKept
  <2>2. Coming(got, p)'
    <3>1. uart_rx' = Append(uart_rx, got[p])
      BY <1>5, <1>7, <1>8
    <3> QED BY <1>2, <1>3, <1>6, <3>1, ComingSent
  <2>3. Parsed(got, p) => Parsed(got, p)'
    BY <1>2, ParsedKept
  <2> QED BY <1>2, <2>1, <2>2, <2>3
<1>9. CASE /\ c \in Flips(Head(script.out)) /\ Head(script.out) < 16
           /\ Field(NextAt) \in HitFields
           /\ errors < MaxErrors /\ errors' = errors + 1
  <2>1. errors = 0 /\ errors' = 1
    <3>1. FlippedBits # {}
      BY <1>9 DEF Flips
    <3>2. MaxErrors <= 1 /\ MaxErrors \in Nat
      BY <3>1, BootAssumption DEF OneErrorAtMost
    <3> QED BY <1>9, <3>2
  <2>2. got = line
    BY <1>3, <2>1 DEF Arriving
  <2>0. Field(p) \in HitFields
    <3>1. NextAt = n - (n + 1 - p) + 1
      BY <1>1, <1>7 DEF NextAt
    <3>2. n - (n + 1 - p) + 1 = p
      <4> HIDE DEF n
      <4> QED BY <1>3, <1>6
    <3> QED BY <1>9, <3>1, <3>2
  <2>3. p \in 3 .. n - 1
    <3>1. p # 2
      BY <2>0 DEF Field, Protected
    <3>2. p # 1
      BY <1>3, <1>7, <1>9, <2>2 DEF CharS
    <3> HIDE DEF n
    <3> QED BY <1>3, <1>6, <3>1, <3>2
  <2>4. PICK now : now = Hit(line, p, c)
    OBVIOUS
  <2>5. c \in Flips(line[p])
    BY <1>7, <1>9, <2>2
  <2>6. now \in Arriving(line)'
    <3>1. now \in OneOff(line)
      BY <2>0, <2>3, <2>4, <2>5 DEF OneOff
    <3>2. errors' > 0
      BY <2>1
    <3> QED BY <3>1, <3>2 DEF Arriving
  <2>7. Alike(now, line, m)
    BY <1>3, <2>3, <2>4, <2>5, OneOffLayout, Zenon
  <2>8. /\ Len(now) = n /\ now[p] = c
        /\ \A i \in 1 .. p - 1 : now[i] = line[i]
        /\ \A i \in p + 1 .. n : now[i] = line[i]
    <3>1. Len(now) = n
      BY <2>7 DEF Alike
    <3>2. \A i \in 1 .. n : now[i] = IF i = p THEN c ELSE line[i]
      BY <1>3, <2>4 DEF Hit
    <3> HIDE DEF n
    <3>3. p \in 1 .. n /\ \A i \in 1 .. p - 1 : i \in 1 .. n /\ i # p
      BY <1>3, <1>6
    <3>4. \A i \in p + 1 .. n : i \in 1 .. n /\ i # p
      BY <1>3, <1>6
    <3> QED BY <3>1, <3>2, <3>3, <3>4
  <2>9. Coming(now, p)'
    <3>1. uart_rx' = Append(uart_rx, now[p])
      BY <1>5, <2>8
    <3> QED BY <1>2, <1>3, <1>6, <2>2, <2>8, <3>1, ComingSent
  <2>10. Parsed(got, p) => Parsed(now, p)'
    <3>1. SUFFICES ASSUME Parsed(line, p) PROVE Parsed(now, p)'
      BY <2>2
    <3>2. p > 2
      BY <2>3
    <3>3. Parsed(now, p)
      BY <1>3, <1>6, <2>7, <2>8, <3>1, <3>2, ParsedPrefix
    <3> QED BY <1>2, <3>3, ParsedKept
  <2> QED BY <1>2, <1>3, <2>6, <2>8, <2>9, <2>10
<1> QED BY <1>4, <1>8, <1>9 DEF Heads

\* A text that is being sent goes on, until the script has it.
LEMMA TextGoesOn ==
  ASSUME LineType, CharacterTime, uart_tx.left > 0, script.inbox = << >>
  PROVE  /\ uart_tx'.text = uart_tx.text
         /\ \/ uart_tx'.left > 0 /\ script'.inbox = << >>
            \/ uart_tx'.left = 0 /\ script'.inbox = <<uart_tx.text>>
<1>1. uart_tx.left \in Nat
  BY DEF LineType, LoaderType
<1>2. CASE uart_tx.left = 1
  <2>1. script'.inbox = Append(script.inbox, uart_tx.text) /\ uart_tx'.left = 1 - 1
    BY <1>2, CharacterFacts
  <2> QED BY <2>1, CharacterFacts
<1>3. CASE uart_tx.left # 1
  <2>1. script'.inbox = script.inbox /\ uart_tx'.left = uart_tx.left - 1
    BY <1>3, CharacterFacts
  <2> QED BY <1>1, <1>3, <2>1, CharacterFacts
<1> QED BY <1>2, <1>3

\* The ROM's answers on their way to the script.
LEMMA TextSent ==
  ASSUME LineType, CharacterTime
  PROVE  /\ Waiting => Waiting'
         /\ Replying \/ Replied => Replying' \/ Replied'
         /\ Refusing => Refusing'
<1>1. uart_tx.left = 0 => uart_tx'.left = 0 /\ UNCHANGED script.inbox
  BY CharacterFacts
<1>2. ASSUME uart_tx.left > 0, script.inbox = << >>
      PROVE  /\ uart_tx'.text = uart_tx.text
             /\ \/ uart_tx'.left > 0 /\ script'.inbox = << >>
                \/ uart_tx'.left = 0 /\ script'.inbox = <<uart_tx.text>>
  BY <1>2, TextGoesOn
<1>3. Waiting => Waiting'
  BY <1>1 DEF Waiting
<1>4. Replying \/ Replied => Replying' \/ Replied'
  <2>1. CASE Replied
    BY <1>1, <2>1 DEF Replied
  <2>2. CASE Replying
    <3>1. uart_tx.left > 0 /\ script.inbox = << >> /\ uart_tx.text = "OK"
      BY <2>2 DEF Replying
    <3> QED BY <1>2, <3>1 DEF Replied, Replying
  <2> QED BY <2>1, <2>2
<1>5. Refusing => Refusing'
  <2>1. CASE uart_tx.left = 0 /\ script.inbox \in {<< >>, <<"NOT OK">>}
    <3>1. uart_tx'.left = 0 /\ script'.inbox = script.inbox
      BY <1>1, <2>1
    <3> QED BY <2>1, <3>1, Zenon DEF Refusing
  <2>2. CASE uart_tx.left > 0 /\ uart_tx.text = "NOT OK" /\ script.inbox = << >>
    <3>1. /\ uart_tx'.text = uart_tx.text
          /\ \/ uart_tx'.left > 0 /\ script'.inbox = << >>
             \/ uart_tx'.left = 0 /\ script'.inbox = <<uart_tx.text>>
      BY <1>2, <2>2
    <3> QED BY <2>2, <3>1, Zenon DEF Refusing
  <2> QED BY <2>1, <2>2, Zenon DEF Refusing
<1> QED BY <1>3, <1>4, <1>5

\* The next character of the script's line, or of the ROM's text.
LEMMA CharacterTimeInv ==
  ASSUME BootType, errors \in Nat, LoaderInv, UartInv,
         OneErrorAtMost, SRecordFile, Protected, CharacterTime
  PROVE  UartInv'
<1>1. /\ LineType /\ script.out \in Seq(Chars) /\ script.line \in Nat \ {0}
      /\ uart_tx.left \in Nat
  BY DEF BootType, LineType, LoaderType, ScriptType
<1>2. /\ script'.line = script.line
      /\ UNCHANGED <<gStopUartBootLoaderFlg, gStopI2CBootLoaderFlg, uart, loaded, entry>>
  BY <1>1, CharacterFacts
<1>3. PICK line : line = TheLine
  OBVIOUS
<1>4. TheLine' = line
  BY <1>2, <1>3 DEF TheLine
<1>6. uart_tx.left = 0 => uart_tx'.left = 0 /\ UNCHANGED script.inbox
  BY <1>1, CharacterFacts
<1>7. ASSUME uart_tx.left > 0, script.inbox = << >>
      PROVE  /\ uart_tx'.text = uart_tx.text
             /\ \/ uart_tx'.left > 0 /\ script'.inbox = << >>
                \/ uart_tx'.left = 0 /\ script'.inbox = <<uart_tx.text>>
  BY <1>1, <1>7, TextGoesOn
<1>8. CASE ~Uart
  <2>1. Calling
    BY <1>8 DEF UartInv
  <2>2. CASE script.line = 1 /\ script.out = << >> /\ uart_rx = << >>
    <3>1. uart_tx.left > 0 /\ script'.out = << >> /\ uart_rx' = << >>
      BY <1>1, <2>2, CharacterFacts
    <3>2. uart_tx.text = "BOOTME" /\ script.inbox = << >>
      BY <1>1, <2>1, <2>2, <3>1 DEF Calling
    <3>3. Calling'
      BY <1>2, <1>7, <2>2, <3>1, <3>2 DEF Calling
    <3> QED BY <1>2, <1>8, <3>3 DEF UartInv, Uart
  <2>3. CASE /\ script.line = 2 /\ 1 \in DOMAIN Image
             /\ uart_tx.left = 0 /\ script.inbox = << >>
             /\ Running /\ ~I2c => \E got \in Arriving(TheLine) : Coming(got, 1)
    <3>1. script'.line = 2 /\ uart_tx'.left = 0 /\ script'.inbox = << >>
      BY <1>2, <1>6, <2>3
    <3>3. Running' /\ ~I2c' => \E got \in Arriving(TheLine)' : Coming(got, 1)'
      <4>1. SUFFICES ASSUME Running, ~I2c
                     PROVE  \E got \in Arriving(TheLine)' : Coming(got, 1)'
        BY <1>2 DEF Running, I2c
      <4>2. PICK got \in Arriving(TheLine) : Coming(got, 1)
        BY <2>3, <4>1
      <4>3. script.line - 1 = 1 /\ script.line - 1 \in DOMAIN Image /\ uart_tx.left = 0
        BY <2>3
      <4>4. 1 \in 1 .. Len(got) - 1
        <5>1. TheLine = Image[1]
          BY <4>3 DEF TheLine
        <5>2. Len(got) = Len(Image[1])
          BY <2>3, <5>1, Damaged
        <5> QED BY <2>3, <5>2, ImageFacts
      <4> QED BY <4>1, <4>2, <4>3, <4>4, LineSent
    <3>4. Calling'
      BY <2>3, <3>1, <3>3 DEF Calling
    <3> QED BY <1>2, <1>8, <3>4 DEF UartInv, Uart
  <2> QED BY <2>1, <2>2, <2>3 DEF Calling
<1>9. CASE Uart
  <2>1. Heard /\ ~I2c /\ script.line - 1 \in DOMAIN Image
    BY <1>9 DEF UartInv, LoaderInv, NeverBothStopped, Uart, I2c, Heard
  <2>3. NotYet' = NotYet /\ Running' = Running /\ Uart'
    BY <1>2, <1>9 DEF NotYet, Running, Uart
  <2>6. CASE /\ Refusing /\ Stored(script.line - 2)
             /\ NotYet /\ (Running => Starved \/ Rejected)
    <3>1. Running' => Starved' \/ Rejected'
      BY <1>1, <2>3, <2>6, StarvedKept, RejectedKept
    <3>2. Stored(script.line - 2)'
      BY <1>2, <2>6 DEF Stored
    <3>3. Refusing'
      BY <1>1, <2>6, TextSent
    <3> QED BY <1>2, <2>1, <2>3, <2>6, <3>1, <3>2, <3>3 DEF Heard, UartInv
  <2>4. CASE Waiting /\ Stored(script.line - 2)
    <3>1. Waiting' /\ Stored(script.line - 2)'
      BY <1>2, <1>6, <2>4 DEF Waiting, Stored
    <3>2. uart_tx.left = 0
      BY <2>4 DEF Waiting
    <3>3. CASE JumpedTo(TheLine)
      <4>1. JumpedTo(TheLine)'
        BY <1>2, <1>3, <1>4, <3>3 DEF JumpedTo
      <4> QED BY <1>2, <2>1, <2>3, <3>1, <4>1 DEF Heard, UartInv
    <3>4. CASE NotYet /\ (Running => InLine)
      <4>1. Running' => InLine'
        <5>1. SUFFICES ASSUME Running PROVE InLine'
          BY <2>3
        <5>2. ~(Len(uart_rx) = 1)
          BY <1>1, <2>1, <3>2, <5>1, CharacterFacts
        <5>3. PICK got \in Arriving(TheLine) :
                      \E p \in 1 .. Len(got) - 1 : Parsed(got, p) /\ Coming(got, p)
          BY <3>4, <5>1, <5>2 DEF InLine
        <5>4. PICK p \in 1 .. Len(got) - 1 : Parsed(got, p) /\ Coming(got, p)
          BY <5>3
        <5>5. PICK now \in Arriving(TheLine)' : Len(now) = Len(got) /\ Coming(now, p)' /\ Parsed(now, p)'
          BY <2>1, <3>2, <5>1, <5>4, LineSent
        <5> QED BY <5>4, <5>5 DEF InLine
      <4> QED BY <1>2, <2>1, <2>3, <3>1, <3>4, <4>1 DEF Heard, UartInv
    <3>5. \/ JumpedTo(TheLine) \/ (NotYet /\ (Running => InLine)) \/ Replying \/ Replied
          \/ Refusing /\ NotYet /\ (Running => Starved \/ Rejected)
      BY <2>1 DEF Heard
    <3>6. ~Replying /\ ~Replied
      BY <2>4 DEF Waiting, Replying, Replied
    <3> QED BY <2>4, <2>6, <3>3, <3>4, <3>5, <3>6
  <2>5. CASE /\ Replying \/ Replied
             /\ script.line \in DOMAIN Image /\ Stored(script.line - 1)
             /\ NotYet /\ (Running => LineDone)
    <3>1. Running' => LineDone'
      BY <1>1, <2>3, <2>5, LineDoneKept
    <3>2. Stored(script.line - 1)'
      BY <1>2, <2>5 DEF Stored
    <3>3. Replying' \/ Replied'
      BY <1>1, <2>5, TextSent
    <3> QED BY <1>2, <2>1, <2>3, <2>5, <3>1, <3>2, <3>3 DEF Heard, UartInv
  <2> QED BY <2>1, <2>4, <2>5, <2>6 DEF Heard
<1> QED BY <1>8, <1>9

\* Before the first call nothing is on the line.
LEMMA InitUart == Init => UartInv
  BY DEF Init, BootInit, UartInit, UartInv, Uart, Calling

\* Every step of the ROM and of the outside world keeps the download in order.
LEMMA NextUart ==
  ASSUME OneErrorAtMost, Protected, SRecordFile
  PROVE  BootType /\ errors \in Nat /\ LoaderInv /\ HeardInv /\ UartInv /\ [Next]_vars => UartInv'
<1> SUFFICES ASSUME BootType, errors \in Nat, LoaderInv, HeardInv, UartInv, [Next]_vars
             PROVE  UartInv'
  OBVIOUS
<1>0. BootType' /\ (errors > 0 => errors' > 0)
  <2>1. errors' \in {errors, errors + 1}
    BY ErrorsGrow
  <2> QED BY <2>1, NextType
<1>1. CASE ReadResetReason \/ Start \/ LoopI2c \/ Debugger \/ I2cHost \/ UNCHANGED vars
  <2>1. UNCHANGED <<shared, uartvars, script>>
    BY <1>1, HostStill DEF ReadResetReason, Start, LoopI2c, Debugger, vars, world, outside
  <2>2. UNCHANGED <<gStopUartBootLoaderFlg, gStopI2CBootLoaderFlg, script, uart, uart_rx,
                    uart_tx, loaded, entry>>
    BY <2>1 DEF shared, flags, uartvars
  <2> QED BY <1>0, <2>2, UartKept DEF I2c, Running
<1>2. CASE LoopJtag
  <2>1. /\ entry = NoEntry /\ entry' = JtagEntry
        /\ UNCHANGED <<gStopUartBootLoaderFlg, gStopI2CBootLoaderFlg, script, uart, uart_rx,
                       uart_tx, loaded>>
    BY <1>2 DEF LoopJtag, Ready, Running, jump_to_address, flags, uartvars, world, outside
  <2> QED BY <1>0, <2>1, UartKept DEF I2c, Running
<1>3. CASE LoopUart
  BY <1>0, <1>3, LoopUartInv
<1>4. CASE I2cStep
  <2>1. /\ processI2CProtocolFrames /\ Running
        /\ UNCHANGED <<script, uart, uart_rx, uart_tx>>
    BY <1>4 DEF I2cStep, Ready, uartvars, world, outside
  <2>2. ~Uart /\ UNCHANGED gStopI2CBootLoaderFlg
    BY <2>1, I2cKeepsFlags DEF LoaderInv, Uart
  <2>3. I2c => I2c'
    BY <2>1 DEF processI2CProtocolFrames, Status, CheckWithoutCRC, CheckWithCRC, ReadyCheck,
                NewFrame, ReadData, Drain, I2c, shared, flags
  <2> QED BY <1>0, <2>1, <2>2, <2>3, UartKept
<1>5. CASE Tick
  BY <1>5, TickInv
<1>6. CASE CharacterTime
  BY <1>6, CharacterTimeInv
<1>7. CASE ScriptReads
  BY <1>7, ScriptReadsInv
<1> QED BY <1>1, <1>2, <1>3, <1>4, <1>5, <1>6, <1>7 DEF Next, ROM

-----------------------------------------------------------------------------
(* The memory, whichever host comes first *)

BootInv == BootType /\ errors \in Nat /\ LoaderInv /\ HeardInv /\ I2cInv /\ UartInv

\* The whole invariant holds in every reachable state.
LEMMA BootInvariant ==
  ASSUME OneErrorAtMost, Protected, SRecordFile
  PROVE  Spec => []BootInv
<1>0. Init => errors \in Nat
  BY DEF Init
<1>1. Init => BootInv
  BY <1>0, InitType, InitLoaderInv, InitHeard, InitPhase, InitUart DEF BootInv
<1>2. BootInv /\ [Next]_vars => BootInv'
  <2>1. errors \in Nat /\ errors' \in {errors, errors + 1} => errors' \in Nat
    OBVIOUS
  <2> QED BY <2>1, ErrorsGrow, NextType, NextLoaderInv, NextHeard, NextPhase, NextUart DEF BootInv
<1> QED BY <1>1, <1>2, PTL DEF Spec

\* The memory during and after a download over the UART.
LEMMA UartMemory ==
  ASSUME BootInv, SRecordFile, Uart
  PROVE  /\ UartData(script.line - 2) \subseteq loaded
         /\ loaded \subseteq UartData(Len(Image))
         /\ \/ entry \in {NoEntry, JtagEntry}
            \/ entry \in UartEntries /\ loaded = UartData(Len(Image))
<1>1. Heard
  BY DEF BootInv, UartInv
<1> DEFINE k == script.line - 1
<1>2. /\ script.line \in Nat \ {0} /\ k \in DOMAIN Image /\ Len(Image) \in Nat
      /\ DOMAIN Image = 1 .. Len(Image)
  BY <1>1, BootAssumption DEF Heard, BootInv, BootType, LineType, ScriptType
<1>3. script.line - 2 = k - 1 /\ TheLine = Image[k]
  BY <1>2 DEF TheLine
<1>4. loaded = UartData(k - 1) \/ (loaded = UartData(k) /\ NotYet)
  BY <1>1, <1>3 DEF Heard, Stored
<1>5. NotYet \/ (loaded = UartData(k - 1) /\ JumpedTo(Image[k]))
  BY <1>1, <1>3 DEF Heard, Stored
<1> HIDE DEF k
<1>6. UartData(k - 1) \subseteq UartData(k) /\ UartData(k) \subseteq UartData(Len(Image))
  BY <1>2, UartDataGrows
<1>7. ASSUME loaded = UartData(k - 1), JumpedTo(Image[k])
      PROVE  entry \in UartEntries /\ loaded = UartData(Len(Image))
  <2>1. Image[k][2] \in JumpTypes /\ entry = RecordAddress(Image[k])
    BY <1>7 DEF JumpedTo
  <2>2. k = Len(Image)
    BY <1>2, <2>1, ImageFacts
  <2>3. Image[k][2] \notin StoredTypes /\ Image[k][2] \in 7 .. 9
    BY <2>1 DEF JumpTypes, StoredTypes
  <2>4. UartData(k) = UartData(k - 1)
    BY <1>2, <2>3, UartDataNext
  <2> QED BY <1>2, <1>7, <2>1, <2>2, <2>3, <2>4 DEF UartEntries
<1> QED BY <1>3, <1>4, <1>5, <1>6, <1>7 DEF NotYet

\* The memory, whichever host has been heard.
LEMMA Memory ==
  ASSUME BootInv, SRecordFile
  PROVE  /\ LoadedFromOneHost /\ AcknowledgedIsStored
         /\ JumpFrameIsLast => JumpMeansLoaded
<1>1. I2cDownload
  BY PhaseMemory DEF BootInv
<1>2. ~I2c => I2cData(host.frame - 1) = {}
  BY I2cDataZero DEF BootInv, HeardInv
<1>3. ~Uart => UartData(script.line - 2) = {}
  <2> SUFFICES ASSUME ~Uart PROVE UartData(script.line - 2) = {}
    OBVIOUS
  <2>1. script.line - 2 \in {-1, 0}
    BY DEF BootInv, UartInv, Calling
  <2> QED BY <2>1, UartDataZero
<1>4. CASE Uart
  <2>1. ~I2c
    BY <1>4 DEF BootInv, LoaderInv, NeverBothStopped, Uart, I2c
  <2> QED BY <1>2, <1>4, <2>1, UartMemory
          DEF LoadedFromOneHost, AcknowledgedIsStored, JumpMeansLoaded
<1>5. CASE I2c
  <2>1. ~Uart
    BY <1>5 DEF BootInv, LoaderInv, NeverBothStopped, Uart, I2c
  <2>2. CASE Unchecked
    BY <1>3, <2>1, <2>2 DEF LoadedFromOneHost, AcknowledgedIsStored, JumpMeansLoaded
  <2>3. CASE ~Unchecked
    <3>1. /\ I2cData(host.frame - 1) \subseteq loaded
          /\ loaded \subseteq I2cData(Len(Frames))
          /\ entry \in {NoEntry, JtagEntry} \cup I2cEntries
          /\ JumpFrameIsLast => entry \in {NoEntry, JtagEntry} \/ loaded = I2cData(Len(Frames))
      BY <1>1, <1>5, <2>3 DEF I2cDownload, I2c
    <3> QED BY <1>3, <2>1, <3>1 DEF LoadedFromOneHost, AcknowledgedIsStored, JumpMeansLoaded
  <2> QED BY <2>2, <2>3
<1>6. CASE ~Uart /\ ~I2c
  <2>1. loaded = {} /\ NotYet
    BY <1>6 DEF BootInv, HeardInv
  <2> QED BY <1>2, <1>3, <1>6, <2>1
          DEF LoadedFromOneHost, AcknowledgedIsStored, JumpMeansLoaded, NotYet
<1> QED BY <1>4, <1>5, <1>6

(***************************************************************************)
(* For every S-record file and all frames, if noise corrupts one digit of  *)
(* an address, of the data or of a checksum, or one word on the I2C bus,   *)
(* or any number of words on the I2C bus alone: the memory never holds     *)
(* anything but what one of the two hosts sent, and never a mixture        *)
(* (uartProtocol.c lines 159-162 and 185-240).                             *)
(***************************************************************************)
THEOREM OneHostOnly ==
  ASSUME OneErrorAtMost, SRecordFile, HitFields \subseteq {"body"}
  PROVE  Spec => []LoadedFromOneHost
<1>1. Protected
  BY DEF Protected
<1>2. BootInv => LoadedFromOneHost
  BY Memory
<1> QED BY <1>1, <1>2, BootInvariant, PTL

(***************************************************************************)
(* With the same errors: a line that was answered with OK, and a frame     *)
(* that was acknowledged, is in memory.                                    *)
(***************************************************************************)
THEOREM AcknowledgementsAreTrue ==
  ASSUME OneErrorAtMost, SRecordFile, HitFields \subseteq {"body"}
  PROVE  Spec => []AcknowledgedIsStored
<1>1. Protected
  BY DEF Protected
<1>2. BootInv => AcknowledgedIsStored
  BY Memory
<1> QED BY <1>1, <1>2, BootInvariant, PTL

(***************************************************************************)
(* With the same errors, and an I2C host whose jump comes last: when the   *)
(* ROM jumps, the whole image of the host that it obeys is in memory.      *)
(***************************************************************************)
THEOREM JumpsAreSafe ==
  ASSUME OneErrorAtMost, SRecordFile, HitFields \subseteq {"body"}, JumpFrameIsLast
  PROVE  Spec => []JumpMeansLoaded
<1>1. Protected
  BY DEF Protected
<1>2. BootInv => JumpMeansLoaded
  BY Memory
<1> QED BY <1>1, <1>2, BootInvariant, PTL

-----------------------------------------------------------------------------
(* Any number of errors, in any digit *)

(***************************************************************************)
(* The first n lines were answered: those that were not hit are in memory, *)
(* and there are no more foreign records there than lines that were hit.   *)
(***************************************************************************)
Foreign(n) == loaded \ UartData(n)
Confined(n) ==
    /\ Records((1 .. n) \ hit) \subseteq loaded
    /\ IsFiniteSet(Foreign(n)) /\ Cardinality(Foreign(n)) <= Cardinality(hit \cap (1 .. n))

\* A line that was not hit is on its way: the loader is in it, or still in the rest of
\* a hit line before it, or has taken its 'S' for the end of this line and is deaf.
OnItsWay(line) ==
    \/ \E p \in 1 .. Len(line) - 1 : Parsed(line, p) /\ Coming(line, p)
    \/ Leftover /\ script.out = line
    \/ uart.state = "TERMINATION" /\ Len(uart_rx) = 1 /\ NoStart(script.out)
    \/ Rejected

DamageHeard ==
    /\ script.line - 1 \in DOMAIN Image
    /\ \/ /\ Waiting /\ Confined(script.line - 2)
          /\ \/ script.line - 1 \in hit /\ (Running => Noisy)
             \/ NotYet /\ (Running => script.line - 1 \notin hit /\ OnItsWay(TheLine))
             \/ JumpedTo(TheLine)
       \/ /\ Waiting \/ Replying \/ Replied
          /\ Confined(script.line - 1)
          /\ NotYet /\ (Running => Rejected)
       \/ /\ Refusing /\ Confined(script.line - 2)
          /\ NotYet /\ (Running => Rejected)

\* The first 'S' is no digit, and nothing comes before it.
DamageCalling ==
    \/ /\ script.line = 1 /\ script.out = << >> /\ uart_rx = << >>
       /\ \/ uart_tx.left = 0 /\ script.inbox \in {<< >>, <<"BOOTME">>}
          \/ uart_tx.left > 0 /\ uart_tx.text = "BOOTME" /\ script.inbox = << >>
    \/ /\ script.line = 2 /\ 1 \in DOMAIN Image
       /\ uart_tx.left = 0 /\ script.inbox = << >>
       /\ Running /\ ~I2c => hit = {} /\ Coming(TheLine, 1)

DamageInv == /\ hit \subseteq 1 .. script.line - 1
             /\ IF Uart THEN DamageHeard ELSE DamageCalling

\* Records of a part of the lines.
LEMMA RecordsGrow ==
  ASSUME NEW A, NEW B, A \subseteq B
  PROVE  Records(A) \subseteq Records(B)
<1> DEFINE J(S) == {j \in S : Image[j][2] \in 1 .. 3}
           P(j) == <<RecordAddress(Image[j]), RecordData(Image[j])>>
<1>1. J(A) \subseteq J(B)
  OBVIOUS
<1>2. Records(A) = {P(j) : j \in J(A)} /\ Records(B) = {P(j) : j \in J(B)}
  BY DEF Records
<1> HIDE DEF J, P
<1> QED BY <1>1, <1>2

\* One line more, or none, if it is no data record.
LEMMA RecordsNext ==
  ASSUME NEW A, NEW k
  PROVE  /\ Image[k][2] \in StoredTypes =>
              Records(A \cup {k}) =
                Records(A) \cup {<<RecordAddress(Image[k]), RecordData(Image[k])>>}
         /\ Image[k][2] \notin StoredTypes => Records(A \cup {k}) = Records(A)
<1> DEFINE J(S) == {j \in S : Image[j][2] \in 1 .. 3}
           P(j) == <<RecordAddress(Image[j]), RecordData(Image[j])>>
           stored == Image[k][2] \in 1 .. 3
<1>1. stored <=> Image[k][2] \in StoredTypes
  BY DEF StoredTypes
<1>2. /\ stored => J(A \cup {k}) = J(A) \cup {k}
      /\ ~stored => J(A \cup {k}) = J(A)
  OBVIOUS
<1>3. \A S : Records(S) = {P(j) : j \in J(S)}
  BY DEF Records
<1> HIDE DEF J, stored
<1>4. stored => Records(A \cup {k}) = Records(A) \cup {P(k)}
  <2> HIDE DEF P
  <2> QED BY <1>2, <1>3
<1> QED BY <1>1, <1>2, <1>3, <1>4

\* Noise makes no line right that was not.
LEMMA ConfinedHit ==
  ASSUME NEW n \in Int, Confined(n), UNCHANGED loaded, hit \subseteq hit'
  PROVE  Confined(n)'
<1>1. Records((1 .. n) \ hit') \subseteq Records((1 .. n) \ hit)
  BY RecordsGrow
<1>2. Cardinality(hit \cap (1 .. n)) <= Cardinality(hit' \cap (1 .. n))
      /\ Cardinality(hit \cap (1 .. n)) \in Nat /\ Cardinality(hit' \cap (1 .. n)) \in Nat
  <2>1. 1 \in Int /\ IsFiniteSet(1 .. n)
    BY FS_Interval
  <2>2. IsFiniteSet(hit' \cap (1 .. n)) /\ IsFiniteSet(hit \cap (1 .. n))
    BY <2>1, FS_Intersection
  <2>3. hit \cap (1 .. n) \in SUBSET (hit' \cap (1 .. n))
    OBVIOUS
  <2> QED BY <2>2, <2>3, FS_Subset, FS_CardinalityType
<1>3. Foreign(n)' = Foreign(n) /\ IsFiniteSet(Foreign(n))
      /\ Cardinality(Foreign(n)) <= Cardinality(hit \cap (1 .. n))
  BY DEF Confined, Foreign, UartData, Records
<1>4. Cardinality(Foreign(n)) \in Nat
  BY <1>3, FS_CardinalityType
<1>5. Cardinality(Foreign(n)') <= Cardinality(hit' \cap (1 .. n))
  <2> DEFINE x == Cardinality(Foreign(n))
             y == Cardinality(hit \cap (1 .. n))
             z == Cardinality(hit' \cap (1 .. n))
  <2>1. x \in Nat /\ y \in Nat /\ z \in Nat /\ x <= y /\ y <= z
    BY <1>2, <1>3, <1>4
  <2> HIDE DEF x, y, z
  <2>2. x <= z
    BY <2>1
  <2> QED BY <1>3, <2>2 DEF x, z
<1>6. Records((1 .. n) \ hit') \subseteq loaded'
  BY <1>1 DEF Confined
<1> QED BY <1>3, <1>5, <1>6 DEF Confined

\* Before the first record.
LEMMA ConfinedZero ==
  ASSUME loaded = {}
  PROVE  Confined(0)
<1>1. Records((1 .. 0) \ hit) = {}
  <2>1. (1 .. 0) \ hit = {}
    OBVIOUS
  <2> QED BY <2>1 DEF Records
<1>2. Foreign(0) = {} /\ hit \cap (1 .. 0) = {}
  BY DEF Foreign
<1> QED BY <1>1, <1>2, FS_EmptySet DEF Confined

\* What the answer to line k may have made of the memory.
LEMMA ConfinedNext ==
  ASSUME NEW k \in DOMAIN Image, Confined(k - 1), UNCHANGED hit,
         \/ k \in hit /\ (loaded' = loaded \/ \E x : loaded' = loaded \cup {x})
         \/ /\ Image[k][2] \in StoredTypes
            /\ loaded' = loaded \cup {<<RecordAddress(Image[k]), RecordData(Image[k])>>}
         \/ Image[k][2] \notin StoredTypes /\ UNCHANGED loaded
  PROVE  Confined(k)'
<1> DEFINE f == Foreign(k - 1)
           f2 == Foreign(k)'
           h == hit \cap (1 .. k - 1)
           h2 == hit \cap (1 .. k)
           rec == <<RecordAddress(Image[k]), RecordData(Image[k])>>
           old == (1 .. k - 1) \ hit
           new == (1 .. k) \ hit
<1>1. k \in Nat \ {0}
  BY BootAssumption
<1>2. Records(old) \subseteq loaded /\ IsFiniteSet(f) /\ Cardinality(f) <= Cardinality(h)
  BY DEF Confined
<1>3. /\ h2 = IF k \in hit THEN h \cup {k} ELSE h
      /\ k \notin h /\ k \notin old
      /\ new = IF k \in hit THEN old ELSE old \cup {k}
  BY <1>1
<1>4. /\ Image[k][2] \in StoredTypes => UartData(k) = UartData(k - 1) \cup {rec}
      /\ Image[k][2] \notin StoredTypes => UartData(k) = UartData(k - 1)
  BY UartDataNext, Zenon
<1>5. /\ Image[k][2] \in StoredTypes => Records(old \cup {k}) = Records(old) \cup {rec}
      /\ Image[k][2] \notin StoredTypes => Records(old \cup {k}) = Records(old)
  BY RecordsNext, Zenon
<1>6. f2 = loaded' \ UartData(k)
  BY DEF Foreign, UartData, Records
<1>7. f = loaded \ UartData(k - 1)
  BY DEF Foreign
<1>8. IsFiniteSet(h) /\ Cardinality(h) \in Nat /\ Cardinality(f) \in Nat
  <2>1. IsFiniteSet(1 .. k - 1)
    BY <1>1, FS_Interval
  <2>2. IsFiniteSet(h)
    BY <2>1, FS_Intersection
  <2> QED BY <1>2, <2>2, FS_CardinalityType
<1> HIDE DEF f, f2, h, h2, rec, old, new
<1>9. CASE k \in hit
  <2>0. h2 = h \cup {k} /\ new = old
    BY <1>3, <1>9
  <2>1. Cardinality(h2) = Cardinality(h) + 1
    BY <1>3, <1>8, <2>0, FS_AddElement
  <2>2. PICK x : loaded \subseteq loaded' /\ loaded' \subseteq loaded \cup {x}
    <3>1. CASE \E x : loaded' = loaded \cup {x}
      BY <3>1
    <3>2. CASE loaded' = loaded
      BY <3>2
    <3> QED BY <3>1, <3>2
  <2>3. f2 \subseteq f \cup {x}
    BY <1>4, <1>6, <1>7, <2>2
  <2>4. IsFiniteSet(f \cup {x}) /\ Cardinality(f \cup {x}) <= Cardinality(f) + 1
        /\ Cardinality(f \cup {x}) \in Nat
    <3>1. /\ IsFiniteSet(f \cup {x})
          /\ Cardinality(f \cup {x}) \in {Cardinality(f), Cardinality(f) + 1}
      BY <1>2, FS_AddElement, Zenon
    <3> QED BY <1>8, <3>1
  <2>5. IsFiniteSet(f2) /\ Cardinality(f2) <= Cardinality(f \cup {x})
    BY <2>3, <2>4, FS_Subset
  <2>6. Cardinality(f2) \in Nat
    BY <2>5, FS_CardinalityType
  <2>7. Cardinality(f2) <= Cardinality(h2)
    BY <1>2, <1>8, <2>1, <2>4, <2>5, <2>6
  <2> QED BY <1>2, <2>0, <2>2, <2>5, <2>7 DEF Confined, f2, h2, new
<1>10. CASE k \notin hit
  <2>0. h2 = h /\ new = old \cup {k}
    BY <1>3, <1>10
  <2>1. /\ Image[k][2] \in StoredTypes => loaded' = loaded \cup {rec}
        /\ Image[k][2] \notin StoredTypes => loaded' = loaded
    BY <1>10 DEF rec
  <2>2. f2 \subseteq f
    BY <1>4, <1>6, <1>7, <2>1
  <2>3. IsFiniteSet(f2) /\ Cardinality(f2) <= Cardinality(f)
    BY <1>2, <2>2, FS_Subset
  <2>4. Records(new) \subseteq loaded'
    BY <1>2, <1>5, <2>0, <2>1
  <2>5. Cardinality(f2) <= Cardinality(h2)
    <3>1. Cardinality(f2) \in Nat
      BY <2>3, FS_CardinalityType
    <3> QED BY <1>2, <1>8, <2>0, <2>3, <3>1
  <2> QED BY <2>3, <2>4, <2>5 DEF Confined, f2, h2, new
<1> QED BY <1>9, <1>10

\* Without an 'S' the loader stores one record at most, and then answers.
LEMMA NoisyStep ==
  ASSUME LineType, Noisy, uart_rx # << >>, processUartProtocolFrames, UNCHANGED script
  PROVE  /\ Noisy' /\ UNCHANGED flags
         /\ \/ UNCHANGED <<loaded, uart_tx>>
            \/ /\ uart_tx' = [text |-> "OK", left |-> 4] /\ uart'.state = "TERMINATION"
               /\ UNCHANGED entry
               /\ loaded' = loaded \/ \E x : loaded' = loaded \cup {x}
            \/ /\ uart_tx' = [text |-> "NOT OK", left |-> 25] /\ uart'.state = "TERMINATION"
               /\ UNCHANGED <<loaded, entry>>
<1> DEFINE Stores == \/ loaded' = loaded
                     \/ \E x : loaded' = loaded \cup {x}
           Good == /\ uart_tx' = [text |-> "OK", left |-> 4] /\ uart'.state = "TERMINATION"
                   /\ UNCHANGED entry /\ Stores
           Bad == /\ uart_tx' = [text |-> "NOT OK", left |-> 25] /\ uart'.state = "TERMINATION"
                  /\ UNCHANGED <<loaded, entry>>
<1>1. LoaderType /\ uart_rx \in Seq(Chars) /\ UartWidths
  BY DEF LineType, LoaderType
<1>2. uart_rx' = Tail(uart_rx)
  BY <1>1, Dispatch
<1>3. Noisy'
  <2>1. ASSUME NEW i \in DOMAIN uart_rx' PROVE uart_rx'[i] # CharS
    <3>1. i + 1 \in DOMAIN uart_rx /\ uart_rx'[i] = uart_rx[i + 1]
      BY <1>1, <1>2
    <3> QED BY <3>1 DEF Noisy, NoStart
  <2> QED BY <2>1 DEF Noisy, NoStart
<1>4. lChar # CharS
  <2>1. 1 \in DOMAIN uart_rx /\ lChar = uart_rx[1]
    BY <1>1 DEF lChar
  <2> QED BY <2>1 DEF Noisy, NoStart
<1> SUFFICES UNCHANGED flags /\ (UNCHANGED <<loaded, uart_tx>> \/ Good \/ Bad)
  BY <1>3, Zenon
<1> HIDE DEF Stores, Good, Bad
<1>5. CASE uart.state = "IDLE"
  <2>1. Idle
    BY <1>1, <1>5, Dispatch
  <2> QED BY <1>4, <2>1 DEF Idle, Quiet, shared
<1>6. CASE uart.state \in {"RECORD_TYPE", "COUNT", "ADDRESS", "DATA", "TERMINATION"}
  <2>1. RecordType \/ Count \/ Address \/ Data \/ Termination
    BY <1>1, <1>6, Dispatch
  <2>2. UNCHANGED <<shared, uart_tx>>
    BY <2>1, Zenon DEF RecordType, Count, Address, Data, Termination, Quiet
  <2> QED BY <2>2 DEF shared
<1>7. CASE uart.state = "CRC"
  <2>1. Crc
    BY <1>1, <1>7, Dispatch
  <2>2. CASE Len(Filled) < 2
    <3>1. UNCHANGED <<shared, uart_tx>>
      BY <2>1, <2>2 DEF Crc, Quiet
    <3> QED BY <3>1 DEF shared
  <2>3. CASE ~(Len(Filled) < 2)
    <3> DEFINE ok  == ChecksumOK(atoh(Filled)[1])
               act == ok /\ ~IsZero(uart.address)
    <3>1. /\ uart' = [uart EXCEPT !.chk = Complement(uart.chk), !.buf = << >>,
                                  !.data = << >>, !.state = "TERMINATION"]
          /\ UNCHANGED flags
          /\ \/ jump_to_address(uart.address) /\ Quiet
             \/ memcpy(uart.address, uart.data) /\ Reply(TRUE)
             \/ UNCHANGED <<loaded, entry>> /\ Reply(ok)
      BY <2>1, <2>3 DEF Crc
    <3> HIDE DEF ok
    <3>2. uart'.state = "TERMINATION"
      BY <1>1, <3>1 DEF UartWidths, Fields
    <3>3. CASE jump_to_address(uart.address) /\ Quiet
      BY <3>1, <3>3 DEF jump_to_address, Quiet
    <3>4. CASE memcpy(uart.address, uart.data) /\ Reply(TRUE)
      <4>1. uart_tx' = [text |-> "OK", left |-> 4]
        BY <3>4 DEF Reply
      <4>2. UNCHANGED entry /\ Stores
        BY <3>4, Zenon DEF memcpy, Stores
      <4>3. Good
        BY <3>2, <4>1, <4>2, Zenon DEF Good
      <4> QED BY <3>1, <4>3
    <3>5. CASE UNCHANGED <<loaded, entry>> /\ Reply(ok)
      <4>1. CASE ok
        <5>1. uart_tx' = [text |-> "OK", left |-> 4]
          BY <3>5, <4>1 DEF Reply
        <5>2. Good
          BY <3>2, <3>5, <5>1, Zenon DEF Good, Stores
        <5> QED BY <3>1, <5>2
      <4>2. CASE ~ok
        <5>1. uart_tx' = [text |-> "NOT OK", left |-> 25]
          BY <3>5, <4>2, Zenon DEF Reply
        <5>2. Bad
          BY <3>2, <3>5, <5>1, Zenon DEF Bad
        <5> QED BY <3>1, <5>2
      <4> QED BY <4>1, <4>2
    <3> QED BY <3>1, <3>3, <3>4, <3>5
  <2> QED BY <2>2, <2>3
<1> QED BY <1>1, <1>5, <1>6, <1>7 DEF UartWidths, States

\* A step that the UART loader and the script take no part in.
LEMMA DamageKept ==
  ASSUME SRecordFile, DamageInv,
         UNCHANGED <<gStopI2CBootLoaderFlg, script, uart, uart_rx, uart_tx, hit>>,
         I2c => I2c', Running' => Running,
         Uart => loaded' = loaded,
         Uart => entry' = entry \/ (entry = NoEntry /\ entry' = JtagEntry)
  PROVE  DamageInv'
<1>1. PICK line : line = TheLine
  OBVIOUS
<1>2. TheLine' = line /\ (hit \subseteq 1 .. script.line - 1)'
  BY <1>1 DEF TheLine, DamageInv
<1>3. ASSUME NEW p PROVE Coming(line, p)' <=> Coming(line, p)
  BY DEF Coming
<1>4. CASE ~Uart
  <2>1. DamageCalling
    BY <1>4 DEF DamageInv
  <2>2. CASE /\ script.line = 2 /\ 1 \in DOMAIN Image
             /\ uart_tx.left = 0 /\ script.inbox = << >>
             /\ Running /\ ~I2c => hit = {} /\ Coming(TheLine, 1)
    <3>1. Running' /\ ~I2c' => hit' = {} /\ Coming(TheLine, 1)'
      BY <1>1, <1>2, <1>3, <2>2
    <3> QED BY <1>2, <1>4, <2>2, <3>1 DEF DamageCalling, DamageInv, Uart
  <2>3. CASE /\ script.line = 1 /\ script.out = << >> /\ uart_rx = << >>
             /\ \/ uart_tx.left = 0 /\ script.inbox \in {<< >>, <<"BOOTME">>}
                \/ uart_tx.left > 0 /\ uart_tx.text = "BOOTME" /\ script.inbox = << >>
    BY <1>2, <1>4, <2>3 DEF DamageCalling, DamageInv, Uart
  <2> QED BY <2>1, <2>2, <2>3 DEF DamageCalling
<1>5. CASE Uart
  <2>1. DamageHeard
    BY <1>5 DEF DamageInv
  <2>2. /\ Waiting' = Waiting /\ Replying' = Replying /\ Replied' = Replied
        /\ Refusing' = Refusing
    BY DEF Waiting, Replying, Replied, Refusing
  <2>3. Noisy' = Noisy /\ Rejected' = Rejected /\ Leftover' = Leftover
        /\ NoStart(script.out)' = NoStart(script.out)
    BY DEF Noisy, Rejected, Leftover, NoStart
  <2>4. OnItsWay(line) => OnItsWay(line)'
    BY <1>3, <2>3, ParsedKept DEF OnItsWay
  <2>5. \A n : Confined(n) => Confined(n)'
    BY <1>5 DEF Confined, Foreign, UartData, Records
  <2>6. NotYet => NotYet'
    BY <1>5 DEF NotYet
  <2>7. JumpedTo(TheLine) => JumpedTo(TheLine)'
    <3>1. RecordAddress(TheLine) # NoEntry
      BY <2>1, ImageFacts DEF TheLine, DamageHeard
    <3>2. JumpedTo(TheLine) => entry' = entry
      BY <1>5, <3>1 DEF JumpedTo
    <3> QED BY <1>1, <1>2, <3>2 DEF JumpedTo
  <2>8. DamageHeard'
    BY <1>1, <1>2, <2>1, <2>2, <2>3, <2>4, <2>5, <2>6, <2>7 DEF DamageHeard
  <2> QED BY <1>2, <1>5, <2>8 DEF DamageInv, Uart
<1> QED BY <1>4, <1>5

\* The ROM calls only while no host has been heard.
LEMMA DamageTick ==
  ASSUME BootType, HeardInv, DamageInv, SRecordFile, Tick
  PROVE  DamageInv'
<1>1. UNCHANGED <<gStopUartBootLoaderFlg, gStopI2CBootLoaderFlg, script, uart, uart_rx,
                  loaded, entry, hit>>
  BY DEF Tick, shared, flags, world, outside
<1>2. CASE UNCHANGED uart_tx
  BY <1>1, <1>2, DamageKept DEF I2c, Running
<1>3. CASE BootMeDue /\ uart_tx' = [text |-> "BOOTME", left |-> 12]
  <2>1. ~Uart /\ ~I2c /\ Running /\ script.out = << >> /\ script.inbox = << >>
    BY <1>3 DEF BootMeDue, HeardInv, Tick, Ready
  <2>2. script.line = 1 /\ uart_rx = << >>
    <3>1. SUFFICES ASSUME script.line = 2, 1 \in DOMAIN Image, Coming(TheLine, 1)
                   PROVE  FALSE
      BY <2>1 DEF DamageInv, DamageCalling
    <3> DEFINE n == Len(TheLine)
               r == Len(uart_rx)
    <3>2. n \in Nat /\ n > 4
      BY <3>1, ImageFacts DEF TheLine
    <3>3. r \in Nat /\ r <= 1 /\ 1 + r + 0 = n + 1
      <4>1. Len(script.out) = 0
        BY <2>1
      <4> QED BY <3>1, <4>1 DEF Coming, BootType, LineType, LoaderType
    <3> HIDE DEF n, r
    <3> QED BY <3>2, <3>3
  <2>3. uart_tx'.left = 12 /\ uart_tx'.text = "BOOTME"
    BY <1>3
  <2>4. DamageCalling'
    BY <1>1, <2>1, <2>2, <2>3 DEF DamageCalling
  <2> QED BY <1>1, <2>1, <2>4 DEF DamageInv, Uart
<1> QED BY <1>2, <1>3 DEF Tick

\* What is confined depends on the memory and on the hit lines alone.
LEMMA ConfinedSame ==
  ASSUME UNCHANGED <<loaded, hit>>, NEW n
  PROVE  Confined(n)' <=> Confined(n)
  BY DEF Confined, Foreign, UartData, Records

\* The script answers a call with the first line, and an OK with the next one.
LEMMA DamageScriptReads ==
  ASSUME BootType, DamageInv, SRecordFile, ScriptReads
  PROVE  DamageInv'
<1>1. /\ script.inbox # << >> /\ script.out = << >>
      /\ UNCHANGED <<gStopUartBootLoaderFlg, gStopI2CBootLoaderFlg, uart, uart_rx, uart_tx,
                     loaded, entry, hit>>
  BY DEF ScriptReads, shared, flags, uartvars
<1>2. script.line \in Nat \ {0} /\ hit \subseteq 1 .. script.line - 1
  BY DEF BootType, LineType, ScriptType, DamageInv
<1>3. \A n : Confined(n)' <=> Confined(n)
  BY <1>1, ConfinedSame
<1>4. CASE ~Uart
  <2>1. script.line = 1 /\ uart_rx = << >> /\ uart_tx.left = 0 /\ script.inbox = <<"BOOTME">>
    BY <1>1, <1>4 DEF DamageInv, DamageCalling
  <2>2. hit' = {}
    BY <1>1, <1>2, <2>1
  <2>3. CASE 1 \in DOMAIN Image
    <3>1. /\ script'.line = 2 /\ script'.inbox = << >> /\ script'.out = Image[1]
          /\ TheLine' = Image[1]
      BY <2>1, <2>3, ScriptSends
    <3>2. Coming(TheLine, 1)'
      <4>1. PICK line : line = Image[1]
        OBVIOUS
      <4>2. Coming(line, 1)'
        BY <1>1, <2>1, <2>3, <3>1, <4>1, FreshLine
      <4> QED BY <3>1, <4>1, <4>2 DEF Coming
    <3>3. DamageCalling'
      BY <1>1, <2>1, <2>2, <2>3, <3>1, <3>2 DEF DamageCalling
    <3> QED BY <1>1, <1>4, <2>2, <3>3 DEF DamageInv, Uart
  <2>4. CASE 1 \notin DOMAIN Image
    <3>1. script'.inbox = << >> /\ script'.line = 1 /\ script'.out = << >>
      BY <1>1, <2>1, <2>4, ScriptIgnores
    <3>2. DamageCalling'
      BY <1>1, <2>1, <3>1 DEF DamageCalling
    <3> QED BY <1>1, <1>4, <2>2, <3>2 DEF DamageInv, Uart
  <2> QED BY <2>3, <2>4
<1>5. CASE Uart
  <2>0. DamageHeard /\ script.line - 1 \in DOMAIN Image /\ Running' = Running /\ NotYet' = NotYet
    BY <1>1, <1>5 DEF DamageInv, DamageHeard, Running, NotYet
  <2>1. CASE ~Replied
    <3>1. Refusing /\ Confined(script.line - 2) /\ NotYet /\ (Running => Rejected)
      BY <1>1, <2>0, <2>1 DEF DamageHeard, Waiting, Replying
    <3>2. uart_tx.left = 0 /\ script.inbox = <<"NOT OK">>
      BY <1>1, <3>1 DEF Refusing
    <3>3. PICK text : text = "NOT OK"
      BY Zenon
    <3>4. text # "BOOTME" /\ text # "OK" /\ script.inbox = <<text>>
      BY <3>2, <3>3, Zenon
    <3>5. script'.line = script.line /\ script'.out = script.out /\ script'.inbox = << >>
      BY <3>4, ScriptIgnores
    <3>6. Refusing' /\ Confined(script.line - 2)' /\ Rejected' = Rejected
      BY <1>1, <1>3, <3>1, <3>2, <3>5 DEF Refusing, Rejected, NoStart
    <3>7. DamageHeard'
      BY <2>0, <3>1, <3>5, <3>6 DEF DamageHeard
    <3>8. hit' \subseteq 1 .. script'.line - 1
      BY <1>1, <1>2, <3>5
    <3> QED BY <1>1, <1>5, <3>7, <3>8 DEF DamageInv, Uart
  <2>2. CASE Replied
    <3>1. /\ Confined(script.line - 1) /\ NotYet /\ (Running => Rejected)
          /\ script.inbox = <<"OK">> /\ uart_tx.left = 0
      BY <1>1, <2>0, <2>2 DEF DamageHeard, Waiting, Replied, Refusing
    <3>2. CASE script.line \in DOMAIN Image
      <4>1. /\ script'.line = script.line + 1 /\ script'.inbox = << >>
            /\ script'.out = TheLine'
            /\ script'.line - 1 = script.line /\ script'.line - 2 = script.line - 1
        BY <3>1, <3>2, ScriptSends
      <4>2. Waiting' /\ Confined(script.line - 2)' /\ script'.line - 1 \in DOMAIN Image
        BY <1>1, <1>3, <3>1, <3>2, <4>1 DEF Waiting
      <4>3. script'.line - 1 \notin hit' /\ hit' \subseteq 1 .. script'.line - 1
        BY <1>1, <1>2, <4>1
      <4>4. Running' => Leftover'
        BY <1>1, <2>0, <3>1 DEF Rejected, Leftover, NoStart
      <4>5. Running' => OnItsWay(TheLine)'
        BY <4>1, <4>4 DEF OnItsWay
      <4>6. DamageHeard'
        BY <2>0, <3>1, <4>2, <4>3, <4>5 DEF DamageHeard
      <4> QED BY <1>1, <1>5, <4>3, <4>6 DEF DamageInv, Uart
    <3>3. CASE script.line \notin DOMAIN Image
      <4>1. script'.line = script.line /\ script'.out = script.out /\ script'.inbox = << >>
        BY <3>1, <3>3, ScriptIgnores
      <4>2. Waiting' /\ Confined(script.line - 1)' /\ Rejected' = Rejected
        BY <1>1, <1>3, <3>1, <4>1 DEF Waiting, Rejected, NoStart
      <4>3. DamageHeard'
        BY <2>0, <3>1, <4>1, <4>2 DEF DamageHeard
      <4>4. hit' \subseteq 1 .. script'.line - 1
        BY <1>1, <1>2, <4>1
      <4> QED BY <1>1, <1>5, <4>3, <4>4 DEF DamageInv, Uart
    <3> QED BY <3>2, <3>3
  <2> QED BY <2>1, <2>2
<1> QED BY <1>4, <1>5

\* A line that was not hit is read, or passed over, until it is answered.
LEMMA OnItsWayStep ==
  ASSUME LineType, LineType', SRecordFile, NEW k \in DOMAIN Image, OnItsWay(Image[k]), Uart,
         uart_rx # << >>, processUartProtocolFrames, UNCHANGED script
  PROVE  \/ OnItsWay(Image[k])' /\ UNCHANGED <<loaded, entry, uart_tx>> /\ Uart'
         \/ /\ Executed(Image[k])
            /\ Image[k][2] \notin JumpTypes => Rejected'
         \/ Refused /\ Rejected'
<1>1. PICK line : line = Image[k]
  OBVIOUS
<1>2. /\ line \in Seq(Chars) /\ SRecord(line) /\ Len(line) \in Nat /\ Len(line) > 4
      /\ Layout(line, DataBytes(line)) /\ LoaderType
  BY <1>1, ImageFacts, RecordFacts DEF LineType
<1>3. uart_rx' = Tail(uart_rx)
  BY <1>2, Dispatch
<1>4. CASE \E p \in 1 .. Len(line) - 1 : Parsed(line, p) /\ Coming(line, p)
  <2>1. PICK p \in 1 .. Len(line) - 1 : Parsed(line, p) /\ Coming(line, p)
    BY <1>4
  <2>2. p \in Nat /\ p >= 1
    BY <1>2
  <2>3. lChar = line[p] /\ Coming(line, p + 1)'
    BY <1>2, <1>3, <2>1, <2>2, ComingNext
  <2>4. Stepped(line, p)
    BY <1>2, <2>1, <2>3, LineStep
  <2>5. CASE /\ p + 1 \in 1 .. Len(line) - 1 /\ Parsed(line, p + 1)'
             /\ UNCHANGED <<loaded, entry, uart_tx>> /\ Uart'
    BY <1>1, <2>3, <2>5 DEF OnItsWay
  <2>6. ~Overrun(line)
    BY <1>2, RecordFacts DEF Overrun
  <2>7. ASSUME p # 1, uart'.state = "TERMINATION" PROVE Rejected'
    <3>1. p > 1
      BY <2>2, <2>7
    <3> QED BY <1>2, <2>2, <2>3, <2>7, <3>1, RestRejects
  <2>8. CASE p # 1 /\ Executed(line)
    BY <1>1, <2>7, <2>8 DEF Executed
  <2>9. CASE p # 1 /\ Refused
    BY <2>7, <2>9 DEF Refused
  <2> QED BY <2>4, <2>5, <2>6, <2>8, <2>9 DEF Stepped
<1>5. CASE Leftover /\ script.out = line
  <2>1. Leftover' /\ UNCHANGED <<shared, uart_tx>>
    BY <1>2, <1>5, LeftoverStep
  <2> QED BY <1>1, <1>5, <2>1 DEF OnItsWay, shared, flags, Uart
<1>6. CASE uart.state = "TERMINATION" /\ Len(uart_rx) = 1 /\ NoStart(script.out)
  <2>1. Termination
    BY <1>2, <1>6, Dispatch
  <2>2. /\ uart' = [Cleared EXCEPT !.dataCount = uart.dataCount]
        /\ UNCHANGED <<shared, uart_tx>>
    BY <2>1 DEF Termination, Quiet
  <2>3. uart'.state = "IDLE"
    BY <2>2 DEF Cleared
  <2>4. uart_rx' = << >>
    BY <1>3, <1>6, TailOfOne DEF LineType, LoaderType
  <2>5. Rejected'
    BY <1>6, <2>3, <2>4 DEF Rejected, NoStart
  <2> QED BY <1>1, <2>2, <2>5 DEF OnItsWay, shared, flags, Uart
<1>7. CASE Rejected
  <2>1. Rejected' /\ UNCHANGED <<shared, uart_tx>>
    BY <1>7, RejectedStep
  <2> QED BY <1>1, <2>1 DEF OnItsWay, shared, flags, Uart
<1> QED BY <1>1, <1>4, <1>5, <1>6, <1>7 DEF OnItsWay

\* The UART loader reads the script's line, whatever noise has made of it.
LEMMA DamageLoopUart ==
  ASSUME BootType, BootType', LoaderInv, HeardInv, DamageInv, SRecordFile, LoopUart
  PROVE  DamageInv'
<1>1. /\ LoaderType /\ LineType /\ script.line \in Nat \ {0}
      /\ uart_rx \in Seq(Chars) /\ script.out \in Seq(Chars)
  BY DEF BootType, LineType, LoaderType, ScriptType
<1>2. Running /\ uart_tx.left = 0 /\ UNCHANGED <<script, hit>> /\ LineType'
  BY DEF LoopUart, Ready, world, outside, BootType
<1>3. CASE I2c
  <2>1. UNCHANGED <<gStopUartBootLoaderFlg, gStopI2CBootLoaderFlg, uart, uart_rx, uart_tx,
                    loaded, entry>>
    BY <1>3 DEF LoopUart, I2c, uartvars, shared, flags
  <2> QED BY <1>2, <2>1, DamageKept DEF I2c, Running
<1>4. CASE ~I2c /\ uart_rx = << >>
  <2>1. NoCharacter
    BY <1>4 DEF LoopUart, I2c, processUartProtocolFrames, Idle, RecordType, Count, Address,
                Data, Crc, Termination, Reads
  <2>2. UNCHANGED <<gStopUartBootLoaderFlg, gStopI2CBootLoaderFlg, uart, uart_rx, uart_tx,
                    loaded, entry>>
    BY <2>1 DEF NoCharacter, uartvars, shared, flags
  <2> QED BY <1>2, <2>2, DamageKept DEF I2c, Running
<1>5. CASE ~I2c /\ uart_rx # << >>
  <2>1. processUartProtocolFrames /\ uart_rx # << >>
    BY <1>5 DEF LoopUart, I2c
  <2>2. uart_rx' = Tail(uart_rx)
    BY <1>1, <2>1, Dispatch
  <2>3. PICK k : k = script.line - 1
    OBVIOUS
  <2>4. /\ script'.line - 1 = k /\ script.line - 2 = k - 1 /\ script'.line - 2 = k - 1
        /\ TheLine = Image[k] /\ TheLine' = Image[k] /\ (hit \subseteq 1 .. script.line - 1)'
    BY <1>1, <1>2, <2>3 DEF TheLine, DamageInv
  <2>5. \A n : hit' = hit /\ (UNCHANGED loaded /\ Confined(n) => Confined(n)')
    BY <1>2, ConfinedSame
  <2>6. CASE ~Uart
    <3>1. /\ script.line = 2 /\ k = 1 /\ 1 \in DOMAIN Image /\ script.inbox = << >>
          /\ hit = {} /\ Coming(Image[k], 1)
      BY <1>2, <1>5, <2>3, <2>4, <2>6 DEF DamageInv, DamageCalling
    <3>2. PICK line : line = Image[k]
      OBVIOUS
    <3>3. /\ line \in Seq(Chars) /\ SRecord(line) /\ Len(line) \in Nat /\ Len(line) > 4
          /\ Layout(line, DataBytes(line)) /\ Coming(line, 1)
      BY <3>1, <3>2, ImageFacts, RecordFacts
    <3>4. uart.state = "IDLE" /\ loaded = {}
      BY <1>5, <2>6 DEF HeardInv
    <3>5. 1 \in 1 .. Len(line) - 1 /\ 1 \in Nat /\ Parsed(line, 1)
      BY <3>3, <3>4 DEF Parsed, AtStart
    <3>6. lChar = line[1] /\ Coming(line, 1 + 1)'
      BY <1>1, <1>2, <2>1, <2>2, <3>3, <3>5, ComingNext
    <3>7. /\ 1 + 1 \in 1 .. Len(line) - 1 /\ Parsed(line, 1 + 1)'
          /\ UNCHANGED <<loaded, entry, uart_tx>> /\ Uart'
      <4>1. Stepped(line, 1)
        BY <1>1, <2>1, <3>3, <3>5, <3>6, LineStep
      <4> QED BY <4>1 DEF Stepped
    <3>8. OnItsWay(line)'
      BY <3>6, <3>7 DEF OnItsWay
    <3>9. Waiting' /\ NotYet'
      BY <1>2, <3>1, <3>7 DEF Waiting, NotYet, Running
    <3>10. Confined(k - 1)'
      BY <2>5, <3>1, <3>4, <3>7, ConfinedZero
    <3>11. DamageHeard'
      <4>1. OnItsWay(TheLine)' /\ k \notin hit'
        BY <2>4, <2>5, <3>1, <3>2, <3>8
      <4> QED BY <2>4, <3>1, <3>9, <3>10, <4>1 DEF DamageHeard
    <3> QED BY <2>4, <3>7, <3>11 DEF DamageInv
  <2>7. CASE Uart
    <3>1. DamageHeard /\ k \in DOMAIN Image
      BY <2>3, <2>7 DEF DamageInv, DamageHeard
    <3>2. ~JumpedTo(TheLine) /\ ~Replying
      BY <1>2, <2>4, <3>1, ImageFacts DEF JumpedTo, Replying, Running
    <3>3. NotYet /\ NoEntry \in {NoEntry, JtagEntry}
      BY <1>2 DEF NotYet, Running
    <3>4. SUFFICES Uart' /\ DamageHeard'
      BY <2>4 DEF DamageInv
    <3>5. CASE Waiting /\ Confined(k - 1) /\ k \in hit /\ Noisy
      <4>1. Noisy' /\ Uart' /\ script'.inbox = << >>
        BY <1>1, <1>2, <2>1, <2>7, <3>5, NoisyStep DEF Uart, flags, Waiting
      <4>2. CASE UNCHANGED <<loaded, uart_tx>>
        <5>1. Waiting' /\ Confined(k - 1)'
          BY <1>2, <2>5, <3>5, <4>2 DEF Waiting
        <5> QED BY <2>4, <2>5, <3>1, <3>5, <4>1, <5>1 DEF DamageHeard
      <4>3. CASE /\ uart_tx' = [text |-> "OK", left |-> 4] /\ uart'.state = "TERMINATION"
                 /\ UNCHANGED entry
                 /\ loaded' = loaded \/ \E x : loaded' = loaded \cup {x}
        <5>1. Replying'
          BY <4>1, <4>3 DEF Replying
        <5>2. Confined(k)'
          BY <2>5, <3>1, <3>5, <4>3, ConfinedNext
        <5>3. NotYet' /\ Rejected'
          BY <3>3, <4>1, <4>3 DEF NotYet, Rejected, Noisy
        <5> QED BY <2>4, <3>1, <4>1, <5>1, <5>2, <5>3 DEF DamageHeard
      <4>4. CASE /\ uart_tx' = [text |-> "NOT OK", left |-> 25] /\ uart'.state = "TERMINATION"
                 /\ UNCHANGED <<loaded, entry>>
        <5>1. Refusing'
          <6>1. uart_tx'.text = "NOT OK"
            BY <4>4, Zenon
          <6>2. uart_tx'.left = 25
            BY <4>4, Zenon
          <6>3. uart_tx'.left > 0
            BY <6>2
          <6> QED BY <4>1, <6>1, <6>3, Zenon DEF Refusing
        <5>2. Confined(k - 1)'
          BY <2>5, <3>5, <4>4, Zenon
        <5>3. NotYet'
          BY <3>3, <4>4, Zenon DEF NotYet
        <5>4. Rejected'
          BY <4>1, <4>4, Zenon DEF Rejected, Noisy
        <5> QED BY <2>4, <3>1, <4>1, <5>1, <5>2, <5>3, <5>4 DEF DamageHeard
      <4> QED BY <1>1, <1>2, <2>1, <3>5, <4>2, <4>3, <4>4, NoisyStep
    <3>6. CASE Waiting /\ Confined(k - 1) /\ k \notin hit /\ OnItsWay(Image[k])
      <4>1. CASE OnItsWay(Image[k])' /\ UNCHANGED <<loaded, entry, uart_tx>> /\ Uart'
        <5>1. Waiting' /\ Confined(k - 1)' /\ NotYet' /\ OnItsWay(TheLine)'
          BY <1>2, <2>4, <2>5, <3>3, <3>6, <4>1 DEF Waiting, NotYet
        <5> QED BY <2>4, <2>5, <3>1, <3>6, <4>1, <5>1 DEF DamageHeard
      <4>2. CASE Executed(Image[k]) /\ (Image[k][2] \notin JumpTypes => Rejected')
        <5>1. Uart'
          BY <2>7, <4>2 DEF Executed, Uart, flags
        <5>2. CASE Image[k][2] \in JumpTypes
          <6>1. entry' = RecordAddress(Image[k]) /\ UNCHANGED <<loaded, uart_tx>>
            BY <4>2, <5>2 DEF Executed
          <6>2. JumpedTo(TheLine)'
            BY <2>4, <5>2, <6>1 DEF JumpedTo
          <6>3. Waiting' /\ Confined(k - 1)'
            BY <1>2, <2>5, <3>6, <6>1 DEF Waiting
          <6> QED BY <2>4, <3>1, <5>1, <6>2, <6>3 DEF DamageHeard
        <5>3. CASE Image[k][2] \notin JumpTypes
          <6>1. /\ uart_tx' = [text |-> "OK", left |-> 4] /\ UNCHANGED entry
                /\ Image[k][2] \in StoredTypes =>
                     loaded' = loaded \cup {<<RecordAddress(Image[k]), RecordData(Image[k])>>}
                /\ Image[k][2] \notin StoredTypes => UNCHANGED loaded
            BY <4>2, <5>3 DEF Executed
          <6>2. Replying' /\ NotYet'
            BY <1>2, <3>3, <3>6, <6>1 DEF Replying, Waiting, NotYet
          <6>3. Confined(k)'
            BY <2>5, <3>1, <3>6, <6>1, ConfinedNext
          <6> QED BY <2>4, <3>1, <4>2, <5>1, <5>3, <6>2, <6>3 DEF DamageHeard
        <5> QED BY <5>2, <5>3
      <4>3. CASE Refused /\ Rejected'
        <5>1. /\ Uart' /\ Confined(k - 1)' /\ NotYet'
          BY <2>5, <2>7, <3>3, <3>6, <4>3 DEF Refused, Uart, flags, NotYet
        <5>2. Refusing'
          <6>1. uart_tx'.text = "NOT OK"
            BY <4>3, Zenon DEF Refused
          <6>2. uart_tx'.left = 25
            BY <4>3, Zenon DEF Refused
          <6>3. uart_tx'.left > 0 /\ script'.inbox = << >>
            BY <1>2, <3>6, <6>2 DEF Waiting
          <6> QED BY <6>1, <6>3, Zenon DEF Refusing
        <5> QED BY <2>4, <3>1, <4>3, <5>1, <5>2 DEF DamageHeard
      <4> QED BY <1>1, <1>2, <2>1, <2>7, <3>1, <3>6, <4>1, <4>2, <4>3, OnItsWayStep
    <3>7. CASE (Waiting \/ Replied) /\ Confined(k) /\ Rejected
      <4>1. Rejected' /\ UNCHANGED <<shared, uart_tx>>
        BY <1>1, <1>2, <2>1, <3>7, RejectedStep
      <4>2. (Waiting' \/ Replied') /\ Confined(k)' /\ NotYet' /\ Uart'
        BY <1>2, <2>5, <2>7, <3>3, <3>7, <4>1
           DEF Waiting, Replied, NotYet, Uart, shared, flags
      <4> QED BY <2>4, <3>1, <4>1, <4>2 DEF DamageHeard
    <3>8. CASE Refusing /\ Confined(k - 1) /\ Rejected
      <4>1. Rejected' /\ UNCHANGED <<shared, uart_tx>>
        BY <1>1, <1>2, <2>1, <3>8, RejectedStep
      <4>2. Refusing' /\ Confined(k - 1)' /\ NotYet' /\ Uart'
        BY <1>2, <2>5, <2>7, <3>3, <3>8, <4>1 DEF Refusing, NotYet, Uart, shared, flags
      <4> QED BY <2>4, <3>1, <4>1, <4>2 DEF DamageHeard
    <3> QED BY <1>2, <2>3, <2>4, <3>1, <3>2, <3>5, <3>6, <3>7, <3>8 DEF DamageHeard
  <2> QED BY <2>6, <2>7
<1> QED BY <1>3, <1>4, <1>5

\* After its first character there is no 'S' in a line.
LEMMA OneStart ==
  ASSUME SRecordFile, NEW k \in DOMAIN Image, NEW i \in 2 .. Len(Image[k])
  PROVE  Image[k][i] # CharS
<1>1. PICK line : line = Image[k]
  OBVIOUS
<1>2. /\ line \in Seq(Chars) /\ Layout(line, DataBytes(line)) /\ Len(line) \in Nat
      /\ Len(line) > 4
  BY <1>1, ImageFacts, RecordFacts
<1>3. CASE i = 2
  BY <1>1, <1>2, <1>3 DEF Layout, StoredTypes, JumpTypes, CharS
<1>4. CASE i = Len(line)
  BY <1>1, <1>2, <1>4 DEF Layout, CharLF, CharS
<1>5. CASE i # 2 /\ i # Len(line)
  <2>1. i \in 3 .. Len(line) - 1
    BY <1>1, <1>2, <1>5
  <2>2. line[i] \in 0 .. 15
    BY <1>2, <2>1 DEF Layout
  <2> QED BY <1>1, <2>2 DEF CharS
<1> QED BY <1>3, <1>4, <1>5

\* The next character of a line that was not hit comes in, and may hit it.
LEMMA OnItsWaySent ==
  ASSUME BootType, SRecordFile, CharacterTime, Running, ~I2c, uart_tx.left = 0,
         NEW k, k = script.line - 1, k \in DOMAIN Image, OnItsWay(Image[k]), k \notin hit
  PROVE  IF k \in hit' THEN Noisy' ELSE OnItsWay(Image[k])'
<1>1. PICK line : line = Image[k]
  OBVIOUS
<1>2. /\ line \in Seq(Chars) /\ Len(line) \in Nat /\ Len(line) > 4 /\ line[1] = CharS
      /\ \A i \in 2 .. Len(line) : line[i] # CharS
  BY <1>1, ImageFacts, OneStart
<1>3. /\ LineType /\ script.out \in Seq(Chars) /\ uart_rx = << >> /\ script.out # << >>
      /\ UNCHANGED uart /\ script'.out = Tail(script.out)
  <2>1. LineType /\ script.out \in Seq(Chars)
    BY DEF BootType, LineType, ScriptType
  <2>2. uart_rx = << >> /\ script.out # << >> /\ UNCHANGED uart
    BY <2>1, CharacterFacts
  <2>3. script'.out = Tail(script.out)
    BY <2>1, <2>2, CharacterFacts
  <2> QED BY <2>1, <2>2, <2>3
<1>4. PICK c : /\ Heads(c)
               /\ uart_rx' = IF Len(uart_rx) < RX_DEPTH THEN Append(uart_rx, c) ELSE uart_rx
  BY <1>3, CharacterFacts
<1>5. uart_rx' = <<c>>
  <2>1. Len(uart_rx) < RX_DEPTH
    BY <1>3 DEF RX_DEPTH
  <2> QED BY <1>3, <1>4, <2>1
<1>6. \/ c = Head(script.out) /\ hit' = hit
      \/ c \in 0 .. 15 /\ Head(script.out) < 16 /\ k \in hit'
  BY <1>4 DEF Heads, Flips
<1>7. CASE \E p \in 1 .. Len(line) - 1 : Parsed(line, p) /\ Coming(line, p)
  <2>1. PICK p \in 1 .. Len(line) - 1 : Parsed(line, p) /\ Coming(line, p)
    BY <1>7
  <2>2. p \in Nat /\ p >= 1
    BY <1>2
  <2>3. Head(script.out) = line[p] /\ Len(script.out) = Len(line) + 1 - p
    BY <1>2, <1>3, <2>1, <2>2, ComingHead
  <2>4. CASE c = Head(script.out) /\ hit' = hit
    <3>1. uart_rx' = Append(uart_rx, line[p])
      BY <1>3, <1>5, <2>3, <2>4
    <3>2. Coming(line, p)'
      BY <1>2, <1>3, <2>1, <2>2, <3>1, ComingSent
    <3>3. Parsed(line, p)'
      BY <1>3, <2>1, ParsedKept
    <3> QED BY <1>1, <2>4, <3>2, <3>3 DEF OnItsWay
  <2>5. CASE c \in 0 .. 15 /\ Head(script.out) < 16 /\ k \in hit'
    <3>1. p > 1
      BY <1>2, <2>2, <2>3, <2>5 DEF CharS
    <3>2. NoStart(uart_rx)'
      BY <1>5, <2>5 DEF NoStart, CharS
    <3>3. ASSUME NEW i \in DOMAIN script'.out PROVE script'.out[i] # CharS
      <4> DEFINE n == Len(line)
                 o == Len(script.out)
      <4>1. n \in Nat /\ o \in Nat /\ o = n + 1 - p
        BY <1>2, <1>3, <2>3
      <4>2. i \in 1 .. o - 1 /\ script'.out[i] = script.out[i + 1] /\ i + 1 \in DOMAIN script.out
        BY <1>3
      <4>3. script.out[i + 1] = line[n - o + (i + 1)]
        BY <2>1, <4>2 DEF Coming
      <4>4. n - o + (i + 1) \in 2 .. n
        <5> HIDE DEF n, o
        <5> QED BY <2>2, <3>1, <4>1, <4>2
      <4> QED BY <1>2, <4>2, <4>3, <4>4
    <3> QED BY <2>5, <3>2, <3>3 DEF Noisy, NoStart
  <2> QED BY <1>6, <2>4, <2>5
<1>8. CASE Leftover /\ script.out = line
  <2>1. Head(script.out) = CharS /\ c = CharS /\ hit' = hit
    <3>1. Head(script.out) = CharS
      BY <1>2, <1>8
    <3> QED BY <1>6, <3>1 DEF CharS
  <2>2. uart_rx' = <<line[1]>> /\ Len(uart_rx') = 1
    BY <1>2, <1>5, <2>1
  <2>3. CASE uart.state = "TERMINATION"
    <3>1. ASSUME NEW i \in DOMAIN script'.out PROVE script'.out[i] # CharS
      <4>1. i + 1 \in 2 .. Len(line) /\ script'.out[i] = line[i + 1]
        BY <1>2, <1>3, <1>8
      <4> QED BY <1>2, <4>1
    <3>2. uart'.state = "TERMINATION" /\ NoStart(script.out)'
      BY <1>3, <2>3, <3>1 DEF NoStart
    <3> QED BY <1>1, <2>1, <2>2, <3>2 DEF OnItsWay
  <2>4. CASE uart.state = "IDLE"
    <3>1. Coming(line, 1)
      <4>1. \A i \in 1 .. Len(line) : line[i] = line[Len(line) - Len(line) + i]
        BY <1>2
      <4>2. 1 + 0 + Len(line) = Len(line) + 1 /\ Len(uart_rx) = 0 /\ DOMAIN line = 1 .. Len(line)
        BY <1>2, <1>3
      <4> QED BY <1>3, <1>8, <4>1, <4>2 DEF Coming
    <3>2. uart_rx' = Append(uart_rx, line[1])
      BY <1>3, <2>2
    <3>3. Coming(line, 1)'
      BY <1>2, <1>3, <3>1, <3>2, ComingSent
    <3>4. Parsed(line, 1)' /\ 1 \in 1 .. Len(line) - 1
      BY <1>2, <1>3, <2>4 DEF Parsed, AtStart
    <3> QED BY <1>1, <2>1, <3>3, <3>4 DEF OnItsWay
  <2> QED BY <1>8, <2>3, <2>4 DEF Leftover
<1>9. CASE Rejected
  <2>1. Rejected' /\ Noisy'
    BY <1>3, <1>9, RejectedKept DEF Rejected, Noisy
  <2> QED BY <1>1, <2>1 DEF OnItsWay
<1>10. ~(Len(uart_rx) = 1)
  BY <1>3
<1> QED BY <1>1, <1>7, <1>8, <1>9, <1>10 DEF OnItsWay

\* The next character of the script's line, or of the ROM's text.
LEMMA DamageCharacterTime ==
  ASSUME BootType, LoaderInv, DamageInv, SRecordFile, CharacterTime
  PROVE  DamageInv'
<1>1. LineType /\ script.out \in Seq(Chars) /\ script.line \in Nat \ {0}
  BY DEF BootType, LineType, ScriptType
<1>2. /\ script'.line = script.line
      /\ UNCHANGED <<gStopUartBootLoaderFlg, gStopI2CBootLoaderFlg, uart, loaded, entry>>
  BY <1>1, CharacterFacts
<1>3. hit' = hit \/ (script.out # << >> /\ hit' = hit \cup {script.line - 1})
  <2>1. CASE script.out = << >>
    BY <1>1, <2>1, CharacterFacts
  <2>2. CASE script.out # << >>
    <3>1. PICK c : Heads(c)
      BY <1>1, <2>2, CharacterFacts
    <3> QED BY <2>2, <3>1 DEF Heads
  <2> QED BY <2>1, <2>2
<1>4. hit \subseteq hit' /\ (script.line # 1 \/ hit' = hit => hit' \subseteq 1 .. script'.line - 1)
  <2>1. script.line # 1 => script.line - 1 \in 1 .. script.line - 1
    BY <1>1
  <2> QED BY <1>2, <1>3, <2>1 DEF DamageInv
<1>5. CASE ~Uart
  <2>1. DamageCalling
    BY <1>5 DEF DamageInv
  <2>2. CASE script.line = 1 /\ script.out = << >> /\ uart_rx = << >>
    <3>1. uart_tx.left > 0 /\ script'.out = << >> /\ uart_rx' = << >> /\ hit' = hit
      BY <1>1, <2>2, CharacterFacts
    <3>2. uart_tx.text = "BOOTME" /\ script.inbox = << >>
      BY <1>1, <2>1, <2>2, <3>1 DEF DamageCalling
    <3>3. /\ uart_tx'.text = uart_tx.text
          /\ \/ uart_tx'.left > 0 /\ script'.inbox = << >>
             \/ uart_tx'.left = 0 /\ script'.inbox = <<uart_tx.text>>
      BY <1>1, <3>1, <3>2, TextGoesOn
    <3>4. DamageCalling'
      BY <1>2, <2>2, <3>1, <3>2, <3>3 DEF DamageCalling
    <3> QED BY <1>2, <1>4, <1>5, <3>1, <3>4 DEF DamageInv, Uart
  <2>3. CASE /\ script.line = 2 /\ 1 \in DOMAIN Image
             /\ uart_tx.left = 0 /\ script.inbox = << >>
             /\ Running /\ ~I2c => hit = {} /\ Coming(TheLine, 1)
    <3>1. script'.line = 2 /\ uart_tx'.left = 0 /\ script'.inbox = << >>
      BY <1>1, <1>2, <2>3, CharacterFacts
    <3>2. Running' /\ ~I2c' => hit' = {} /\ Coming(TheLine, 1)'
      <4>1. SUFFICES ASSUME Running, ~I2c PROVE hit' = {} /\ Coming(TheLine, 1)'
        BY <1>2 DEF Running, I2c
      <4>2. PICK line : line = TheLine
        OBVIOUS
      <4>3. /\ line = Image[1] /\ line = TheLine' /\ line \in Seq(Chars) /\ Len(line) \in Nat
            /\ line[1] = CharS /\ Coming(line, 1)
        BY <2>3, <3>1, <4>1, <4>2, ImageFacts DEF TheLine
      <4>4. uart_rx = << >> /\ script.out # << >>
        BY <1>1, <2>3, <4>1, CharacterFacts
      <4>5. script'.out = Tail(script.out) /\ Head(script.out) = CharS
        BY <1>1, <4>3, <4>4, CharacterFacts, ComingHead
      <4>6. PICK c : /\ Heads(c)
                     /\ uart_rx' = IF Len(uart_rx) < RX_DEPTH THEN Append(uart_rx, c) ELSE uart_rx
        BY <1>1, <4>4, CharacterFacts
      <4>7. c = line[1] /\ hit' = hit
        BY <4>3, <4>5, <4>6 DEF Heads, CharS
      <4>8. uart_rx' = Append(uart_rx, line[1])
        BY <4>4, <4>6, <4>7 DEF RX_DEPTH
      <4>9. Coming(line, 1)'
        BY <1>1, <4>3, <4>4, <4>5, <4>8, ComingSent
      <4>10. Coming(TheLine, 1)'
        BY <4>3, <4>9 DEF Coming
      <4> QED BY <2>3, <4>1, <4>7, <4>10
    <3>3. DamageCalling'
      BY <2>3, <3>1, <3>2 DEF DamageCalling
    <3> QED BY <1>2, <1>4, <1>5, <2>3, <3>3 DEF DamageInv, Uart
  <2> QED BY <2>1, <2>2, <2>3 DEF DamageCalling
<1>6. CASE Uart
  <2>1. DamageHeard /\ ~I2c /\ script.line - 1 \in DOMAIN Image
    BY <1>6 DEF DamageInv, LoaderInv, NeverBothStopped, Uart, I2c, DamageHeard
  <2>2. PICK k : k = script.line - 1
    OBVIOUS
  <2>3. /\ k \in DOMAIN Image /\ k \in Int /\ script.line - 2 = k - 1 /\ script'.line - 2 = k - 1
        /\ script'.line - 1 = k /\ TheLine = Image[k] /\ TheLine' = Image[k]
    BY <1>1, <1>2, <2>1, <2>2 DEF TheLine
  <2>4. NotYet' = NotYet /\ Running' = Running /\ Uart' /\ hit' \subseteq 1 .. script'.line - 1
    <3>1. script.line # 1
      BY <1>1, <2>1, BootAssumption
    <3> QED BY <1>2, <1>4, <1>6, <3>1 DEF NotYet, Running, Uart
  <2>5. (Confined(k) => Confined(k)') /\ (Confined(k - 1) => Confined(k - 1)')
    <3>1. k - 1 \in Int
      BY <2>3
    <3> QED BY <1>2, <1>4, <2>3, <3>1, ConfinedHit
  <2>6. SUFFICES DamageHeard'
    BY <2>4 DEF DamageInv
  <2>7. CASE Waiting /\ Confined(k - 1)
    <3>1. Waiting' /\ Confined(k - 1)' /\ uart_tx.left = 0
      BY <1>1, <2>5, <2>7, TextSent DEF Waiting
    <3>2. CASE k \in hit /\ (Running => Noisy)
      <4>1. k \in hit' /\ (Running' => Noisy')
        BY <1>1, <1>4, <2>4, <3>2, NoisyKept
      <4> QED BY <2>3, <3>1, <4>1 DEF DamageHeard
    <3>3. CASE NotYet /\ (Running => k \notin hit /\ OnItsWay(Image[k]))
      <4>1. CASE Running
        <5>1. IF k \in hit' THEN Noisy' ELSE OnItsWay(Image[k])'
          BY <2>1, <2>2, <2>3, <3>1, <3>3, <4>1, OnItsWaySent
        <5>2. CASE k \in hit'
          BY <2>3, <3>1, <5>1, <5>2 DEF DamageHeard
        <5>3. CASE k \notin hit'
          <6>1. OnItsWay(TheLine)'
            BY <2>3, <5>1, <5>3
          <6> QED BY <2>3, <2>4, <3>1, <3>3, <5>3, <6>1 DEF DamageHeard
        <5> QED BY <5>2, <5>3
      <4>2. CASE ~Running
        BY <2>3, <2>4, <3>1, <3>3, <4>2 DEF DamageHeard
      <4> QED BY <4>1, <4>2
    <3>4. CASE JumpedTo(TheLine)
      <4>1. JumpedTo(TheLine)'
        BY <1>2, <2>3, <3>4 DEF JumpedTo
      <4> QED BY <2>3, <3>1, <4>1 DEF DamageHeard
    <3>5. CASE Confined(k) /\ NotYet /\ (Running => Rejected)
      <4>1. Confined(k)' /\ NotYet' /\ (Running' => Rejected')
        BY <1>1, <2>4, <2>5, <3>5, RejectedKept
      <4> QED BY <2>3, <3>1, <4>1 DEF DamageHeard
    <3>6. CASE Refusing /\ NotYet /\ (Running => Rejected)
      <4>1. Refusing' /\ NotYet' /\ (Running' => Rejected')
        BY <1>1, <2>4, <3>6, RejectedKept, TextSent
      <4> QED BY <2>3, <3>1, <4>1 DEF DamageHeard
    <3> QED BY <2>1, <2>2, <2>3, <3>2, <3>3, <3>4, <3>5, <3>6 DEF DamageHeard
  <2>8. CASE (Waiting \/ Replying \/ Replied) /\ Confined(k) /\ NotYet /\ (Running => Rejected)
    <3>1. /\ Waiting' \/ Replying' \/ Replied'
          /\ Confined(k)' /\ NotYet' /\ (Running' => Rejected')
      BY <1>1, <2>4, <2>5, <2>8, RejectedKept, TextSent
    <3> QED BY <2>3, <3>1 DEF DamageHeard
  <2>9. CASE Refusing /\ Confined(k - 1) /\ NotYet /\ (Running => Rejected)
    <3>1. Refusing' /\ Confined(k - 1)' /\ NotYet' /\ (Running' => Rejected')
      BY <1>1, <2>4, <2>5, <2>9, RejectedKept, TextSent
    <3> QED BY <2>3, <3>1 DEF DamageHeard
  <2> QED BY <2>1, <2>2, <2>3, <2>7, <2>8, <2>9 DEF DamageHeard
<1> QED BY <1>5, <1>6

\* At reset nothing is on the wire, and nothing was hit.
LEMMA InitDamage == Init => DamageInv
  BY DEF Init, BootInit, UartInit, DamageInv, DamageCalling, Uart

\* Every step of the ROM and of the outside world confines the damage.
LEMMA NextDamage ==
  ASSUME SRecordFile
  PROVE  BootType /\ LoaderInv /\ HeardInv /\ DamageInv /\ [Next]_vars => DamageInv'
<1> SUFFICES ASSUME BootType, LoaderInv, HeardInv, DamageInv, [Next]_vars
             PROVE  DamageInv'
  OBVIOUS
<1>0. BootType'
  BY NextType
<1>1. CASE ReadResetReason \/ Start \/ LoopI2c \/ Debugger \/ I2cHost \/ UNCHANGED vars
  <2>1. UNCHANGED <<shared, uartvars, script, hit>>
    BY <1>1, HostStill DEF ReadResetReason, Start, LoopI2c, Debugger, vars, world, outside
  <2>2. UNCHANGED <<gStopUartBootLoaderFlg, gStopI2CBootLoaderFlg, script, uart, uart_rx,
                    uart_tx, loaded, entry, hit>>
    BY <2>1 DEF shared, flags, uartvars
  <2> QED BY <2>2, DamageKept DEF I2c, Running
<1>2. CASE LoopJtag
  <2>1. /\ entry = NoEntry /\ entry' = JtagEntry
        /\ UNCHANGED <<gStopUartBootLoaderFlg, gStopI2CBootLoaderFlg, script, uart, uart_rx,
                       uart_tx, loaded, hit>>
    BY <1>2 DEF LoopJtag, Ready, Running, jump_to_address, flags, uartvars, world, outside
  <2> QED BY <2>1, DamageKept DEF I2c, Running
<1>3. CASE LoopUart
  BY <1>0, <1>3, DamageLoopUart
<1>4. CASE I2cStep
  <2>1. /\ processI2CProtocolFrames /\ Running
        /\ UNCHANGED <<script, uart, uart_rx, uart_tx, hit>>
    BY <1>4 DEF I2cStep, Ready, uartvars, world, outside
  <2>2. ~Uart /\ UNCHANGED gStopI2CBootLoaderFlg
    BY <2>1, I2cKeepsFlags DEF LoaderInv, Uart
  <2>3. I2c => I2c'
    BY <2>1 DEF processI2CProtocolFrames, Status, CheckWithoutCRC, CheckWithCRC, ReadyCheck,
                NewFrame, ReadData, Drain, I2c, shared, flags
  <2> QED BY <2>1, <2>2, <2>3, DamageKept
<1>5. CASE Tick
  BY <1>5, DamageTick
<1>6. CASE CharacterTime
  BY <1>6, DamageCharacterTime
<1>7. CASE ScriptReads
  BY <1>7, DamageScriptReads
<1> QED BY <1>1, <1>2, <1>3, <1>4, <1>5, <1>6, <1>7 DEF Next, ROM

\* The memory after n lines of the download, against the whole image.
LEMMA ConfinedInImage ==
  ASSUME NEW n \in Nat, n <= Len(Image), NEW m \in Int, m <= n, Confined(n), IsFiniteSet(hit)
  PROVE  /\ Records((1 .. m) \ hit) \subseteq loaded
         /\ Cardinality(loaded \ UartData(Len(Image))) <= Cardinality(hit)
<1>1. Records((1 .. m) \ hit) \subseteq Records((1 .. n) \ hit)
  BY RecordsGrow
<1>2. UartData(n) \subseteq UartData(Len(Image))
  <2>1. Len(Image) \in Nat
    BY BootAssumption
  <2> QED BY <2>1, UartDataGrows
<1> DEFINE f == loaded \ UartData(Len(Image))
           g == Foreign(n)
           h == hit \cap (1 .. n)
<1>3. IsFiniteSet(g) /\ Cardinality(g) <= Cardinality(h)
  BY DEF Confined
<1>4. f \subseteq g /\ h \subseteq hit
  BY <1>2 DEF Foreign
<1> HIDE DEF f, g, h
<1>5. IsFiniteSet(f) /\ Cardinality(f) <= Cardinality(g)
  BY <1>3, <1>4, FS_Subset
<1>6. IsFiniteSet(h) /\ Cardinality(h) <= Cardinality(hit)
  BY <1>4, FS_Subset
<1>7. /\ Cardinality(f) \in Nat /\ Cardinality(g) \in Nat /\ Cardinality(h) \in Nat
      /\ Cardinality(hit) \in Nat
  BY <1>3, <1>5, <1>6, FS_CardinalityType
<1>8. Cardinality(f) <= Cardinality(hit)
  BY <1>3, <1>5, <1>6, <1>7
<1> QED BY <1>1, <1>8 DEF Confined, f

\* The memory, whichever host has been heard.
LEMMA DamageMemory ==
  ASSUME BootType, LoaderInv, HeardInv, I2cInv, DamageInv, SRecordFile
  PROVE  DamageIsConfined
<1>1. /\ script.line \in Nat \ {0} /\ Len(Image) \in Nat /\ DOMAIN Image = 1 .. Len(Image)
      /\ hit \subseteq 1 .. script.line - 1
  BY BootAssumption DEF BootType, LineType, ScriptType, DamageInv
<1>2. IsFiniteSet(hit) /\ Cardinality(hit) \in Nat
  <2>1. IsFiniteSet(1 .. script.line - 1)
    BY <1>1, FS_Interval
  <2> QED BY <1>1, <2>1, FS_Subset, FS_CardinalityType
<1>3. CASE Uart
  <2> DEFINE k == script.line - 1
  <2>1. DamageHeard /\ k \in 1 .. Len(Image) /\ script.line - 2 = k - 1 /\ TheLine = Image[k]
    BY <1>1, <1>3 DEF DamageInv, DamageHeard, TheLine
  <2>2. Confined(k) \/ Confined(k - 1)
    BY <2>1 DEF DamageHeard
  <2>3. \/ NotYet \/ k \in hit
        \/ Image[k][2] \in JumpTypes /\ entry = RecordAddress(Image[k])
    BY <2>1 DEF DamageHeard, JumpedTo
  <2> HIDE DEF k
  <2>4. /\ Records((1 .. k - 1) \ hit) \subseteq loaded
        /\ Cardinality(loaded \ UartData(Len(Image))) <= Cardinality(hit)
    <3>0. /\ k \in Nat /\ k <= Len(Image) /\ k - 1 \in Nat /\ k - 1 <= Len(Image)
          /\ k - 1 \in Int /\ k - 1 <= k /\ k - 1 <= k - 1
      BY <1>1, <2>1
    <3>1. CASE Confined(k)
      BY <1>2, <3>0, <3>1, ConfinedInImage
    <3>2. CASE Confined(k - 1)
      BY <1>2, <3>0, <3>2, ConfinedInImage
    <3> QED BY <2>2, <3>1, <3>2
  <2>5. ASSUME Image[k][2] \in JumpTypes, entry = RecordAddress(Image[k])
        PROVE  entry \in UartEntries /\ k = Len(Image)
    <3>1. Image[k][2] \in 7 .. 9
      BY <2>5 DEF JumpTypes
    <3> QED BY <1>1, <2>1, <2>5, <3>1, ImageFacts DEF UartEntries
  <2> QED BY <2>1, <2>3, <2>4, <2>5 DEF DamageIsConfined, NotYet, k
<1>4. CASE I2c
  <2>1. I2cDownload
    BY PhaseMemory
  <2> QED BY <1>4, <2>1 DEF I2cDownload, DamageIsConfined, I2c
<1>5. CASE ~Uart /\ ~I2c
  <2>1. loaded = {} /\ NotYet
    BY <1>5 DEF HeardInv
  <2>2. Records((1 .. script.line - 2) \ hit) = {}
    <3>1. script.line - 2 \in {-1, 0}
      BY <1>5 DEF DamageInv, DamageCalling
    <3>2. (1 .. script.line - 2) \ hit = {}
      BY <3>1
    <3> QED BY <3>2 DEF Records
  <2>3. Cardinality(loaded \ UartData(Len(Image))) <= Cardinality(hit)
    <3>1. loaded \ UartData(Len(Image)) = {}
      BY <2>1
    <3> QED BY <1>2, <3>1, FS_EmptySet
  <2> QED BY <2>1, <2>2, <2>3 DEF DamageIsConfined, NotYet
<1> QED BY <1>3, <1>4, <1>5

(***************************************************************************)
(* For every S-record file and all frames, and however many errors there   *)
(* are in whatever digits of the records, the type and the count included, *)
(* and on the I2C bus: every record that was answered with OK and not hit  *)
(* is in memory as it was sent, memory holds no more foreign records than  *)
(* lines were hit, and the ROM jumps at the last line of the file or in a  *)
(* line that was hit (uartProtocol.c lines 52-121 and 185-240).            *)
(***************************************************************************)
THEOREM DamageStaysInItsRecord ==
  ASSUME SRecordFile
  PROVE  Spec => []DamageIsConfined
<1> DEFINE Inv == BootType /\ LoaderInv /\ HeardInv /\ I2cInv /\ DamageInv
<1>1. Init => Inv
  BY InitType, InitLoaderInv, InitHeard, InitPhase, InitDamage
<1>2. Inv /\ [Next]_vars => Inv'
  BY NextType, NextLoaderInv, NextHeard, NextPhase, NextDamage
<1>3. Inv => DamageIsConfined
  BY DamageMemory
<1> QED BY <1>1, <1>2, <1>3, PTL DEF Spec
=============================================================================

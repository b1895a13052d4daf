------------------------------ MODULE CrcProofs ------------------------------
(***************************************************************************)
(* crcFast is the division of crcSlow, and a burst of up to 16 bits never  *)
(* leaves the CRC as it was, for messages of every length.  The division   *)
(* is linear, so the table entries may be added instead of dividing, and   *)
(* what noise does to the CRC does not depend on the message.              *)
(***************************************************************************)
EXTENDS CrcUnit, CommonLemmas

Word == SUBSET (0 .. 15)

-----------------------------------------------------------------------------
(* The bits of a remainder *)

\* The exclusive or of words is a word, bit by bit.
LEMMA XorBits ==
  ASSUME NEW a \in Word, NEW b \in Word
  PROVE  /\ SymDiff(a, b) \in Word
         /\ \A k \in 0 .. 15 : k \in SymDiff(a, b) <=> ~(k \in a <=> k \in b)
  BY DEF SymDiff, Word

\* Words are equal if their bits are.
LEMMA SameBits ==
  ASSUME NEW a \in Word, NEW b \in Word, \A k \in 0 .. 15 : k \in a <=> k \in b
  PROVE  a = b
  BY DEF Word

\* Which bits one step of the division sets.
LEMMA ShiftBits ==
  ASSUME NEW r \in Word
  PROVE  /\ Shift(r) \in Word
         /\ \A k \in 0 .. 15 :
              k \in Shift(r) <=> ~((k >= 1 /\ k - 1 \in r) <=> (15 \in r /\ k \in POLYNOMIAL))
<1>1. ASSUME NEW k \in 0 .. 15 PROVE k \in Left(r, 1) <=> k >= 1 /\ k - 1 \in r
  BY DEF Left, WIDTH
<1>2. Left(r, 1) \in Word /\ POLYNOMIAL \in Word
  BY DEF Left, WIDTH, Word, POLYNOMIAL
<1>3. TOPBIT = 15
  BY DEF TOPBIT, WIDTH
<1>4. CASE 15 \in r
  <2>1. Shift(r) = SymDiff(Left(r, 1), POLYNOMIAL)
    BY <1>3, <1>4 DEF Shift
  <2>2. /\ SymDiff(Left(r, 1), POLYNOMIAL) \in Word
        /\ \A k \in 0 .. 15 : k \in SymDiff(Left(r, 1), POLYNOMIAL)
                               <=> ~(k \in Left(r, 1) <=> k \in POLYNOMIAL)
    BY <1>2, XorBits
  <2> QED BY <1>1, <1>4, <2>1, <2>2, Zenon
<1>5. CASE 15 \notin r
  <2>1. Shift(r) = Left(r, 1)
    BY <1>3, <1>5 DEF Shift
  <2> QED BY <1>1, <1>2, <1>5, <2>1, Zenon
<1> QED BY <1>4, <1>5

\* A step of the division is linear.
LEMMA ShiftLinear ==
  ASSUME NEW a \in Word, NEW b \in Word
  PROVE  Shift(SymDiff(a, b)) = SymDiff(Shift(a), Shift(b))
<1> DEFINE c == SymDiff(a, b)
<1>1. c \in Word /\ \A k \in 0 .. 15 : k \in c <=> ~(k \in a <=> k \in b)
  BY XorBits
<1> HIDE DEF c
<1>2. Shift(a) \in Word /\ Shift(b) \in Word /\ Shift(c) \in Word
  BY <1>1, ShiftBits
<1>3. /\ SymDiff(Shift(a), Shift(b)) \in Word
      /\ \A k \in 0 .. 15 :
           k \in SymDiff(Shift(a), Shift(b)) <=> ~(k \in Shift(a) <=> k \in Shift(b))
  BY <1>2, XorBits
<1>4. ASSUME NEW k \in 0 .. 15
      PROVE  k \in Shift(c) <=> k \in SymDiff(Shift(a), Shift(b))
  <2>1. k >= 1 => k - 1 \in 0 .. 15
    OBVIOUS
  <2>2. 15 \in 0 .. 15
    OBVIOUS
  <2>3. k >= 1 => (k - 1 \in c <=> ~(k - 1 \in a <=> k - 1 \in b))
    BY <1>1, <2>1
  <2>4. 15 \in c <=> ~(15 \in a <=> 15 \in b)
    BY <1>1, <2>2
  <2>5. /\ k \in Shift(a) <=> ~((k >= 1 /\ k - 1 \in a) <=> (15 \in a /\ k \in POLYNOMIAL))
        /\ k \in Shift(b) <=> ~((k >= 1 /\ k - 1 \in b) <=> (15 \in b /\ k \in POLYNOMIAL))
        /\ k \in Shift(c) <=> ~((k >= 1 /\ k - 1 \in c) <=> (15 \in c /\ k \in POLYNOMIAL))
    BY <1>1, ShiftBits
  <2> QED BY <1>3, <2>3, <2>4, <2>5, Zenon
<1>5. Shift(c) = SymDiff(Shift(a), Shift(b))
  BY <1>2, <1>3, <1>4, SameBits
<1> QED BY <1>5 DEF c

-----------------------------------------------------------------------------
(* Eight steps: the division by a byte *)

\* The loop is its eight passes.
LEMMA DivideUnrolled ==
  ASSUME NEW r
  PROVE  Divide(r) = Shift(Shift(Shift(Shift(Shift(Shift(Shift(Shift(r))))))))
<1> DEFINE f0 == r
           f1 == Shift(f0)
           f2 == Shift(f1)
           f3 == Shift(f2)
           f4 == Shift(f3)
           f5 == Shift(f4)
           f6 == Shift(f5)
           f7 == Shift(f6)
           f8 == Shift(f7)
           Passes(f) == f = [bit \in 0 .. 8 |-> IF bit = 0 THEN r ELSE Shift(f[bit - 1])]
           g == [bit \in 0 .. 8 |-> CASE bit = 0 -> f0 [] bit = 1 -> f1 [] bit = 2 -> f2
                   [] bit = 3 -> f3 [] bit = 4 -> f4 [] bit = 5 -> f5 [] bit = 6 -> f6
                   [] bit = 7 -> f7 [] OTHER -> f8]
           c == CHOOSE f : Passes(f)
<1>1. Passes(g)
  <2>1. /\ g[0] = f0 /\ g[1] = f1 /\ g[2] = f2 /\ g[3] = f3 /\ g[4] = f4 /\ g[5] = f5
        /\ g[6] = f6 /\ g[7] = f7 /\ g[8] = f8
    <3> HIDE DEF f0, f1, f2, f3, f4, f5, f6, f7, f8
    <3> QED OBVIOUS
  <2>2. ASSUME NEW bit \in 0 .. 8 PROVE g[bit] = IF bit = 0 THEN r ELSE Shift(g[bit - 1])
    <3>1. bit \in {0, 1, 2, 3, 4, 5, 6, 7, 8}
      OBVIOUS
    <3>2. 1 - 1 = 0 /\ 2 - 1 = 1 /\ 3 - 1 = 2 /\ 4 - 1 = 3 /\ 5 - 1 = 4 /\ 6 - 1 = 5
          /\ 7 - 1 = 6 /\ 8 - 1 = 7
      OBVIOUS
    <3> HIDE DEF g
    <3> QED BY <2>1, <3>1, <3>2
  <2> DEFINE h == [bit \in 0 .. 8 |-> IF bit = 0 THEN r ELSE Shift(g[bit - 1])]
  <2>3. DOMAIN g = 0 .. 8 /\ g = [bit \in DOMAIN g |-> g[bit]]
    OBVIOUS
  <2> HIDE DEF g
  <2>4. g = h
    BY <2>2, <2>3
  <2> QED BY <2>4
<1>2. Passes(c)
  BY <1>1, Zenon
<1>3. Divide(r) = c[8]
  BY DEF Divide
<1> HIDE DEF c
<1>4. /\ c[0] = r /\ c[1] = Shift(c[0]) /\ c[2] = Shift(c[1]) /\ c[3] = Shift(c[2])
      /\ c[4] = Shift(c[3]) /\ c[5] = Shift(c[4]) /\ c[6] = Shift(c[5])
      /\ c[7] = Shift(c[6]) /\ c[8] = Shift(c[7])
  BY <1>2
<1> QED BY <1>3, <1>4, Zenon

\* Division by a byte is linear and yields a word.
LEMMA DivideLinear ==
  ASSUME NEW a \in Word, NEW b \in Word
  PROVE  /\ Divide(a) \in Word
         /\ Divide(SymDiff(a, b)) = SymDiff(Divide(a), Divide(b))
<1> DEFINE T(x) == Shift(Shift(x))
           Q(x) == T(T(x))
<1>1. ASSUME NEW x \in Word, NEW y \in Word
      PROVE  T(x) \in Word /\ T(SymDiff(x, y)) = SymDiff(T(x), T(y))
  <2>1. Shift(x) \in Word /\ Shift(y) \in Word
    BY ShiftBits
  <2>2. /\ Shift(SymDiff(x, y)) = SymDiff(Shift(x), Shift(y))
        /\ Shift(SymDiff(Shift(x), Shift(y))) = SymDiff(T(x), T(y))
    BY <2>1, ShiftLinear
  <2>3. T(x) \in Word
    BY <2>1, ShiftBits
  <2> QED BY <2>2, <2>3, Zenon
<1> HIDE DEF T
<1>2. ASSUME NEW x \in Word, NEW y \in Word
      PROVE  Q(x) \in Word /\ Q(SymDiff(x, y)) = SymDiff(Q(x), Q(y))
  <2>1. T(x) \in Word /\ T(y) \in Word
    BY <1>1
  <2> QED BY <1>1, <2>1, Zenon
<1> HIDE DEF Q
<1>3. ASSUME NEW x PROVE Divide(x) = Q(Q(x))
  BY DivideUnrolled, Zenon DEF Q, T
<1>4. Q(a) \in Word /\ Q(b) \in Word /\ Q(Q(a)) \in Word
  BY <1>2
<1>5. Q(Q(SymDiff(a, b))) = SymDiff(Q(Q(a)), Q(Q(b)))
  BY <1>2, <1>4, Zenon
<1> QED BY <1>3, <1>4, <1>5, Zenon

\* Shifts to the left are words, and add up.
LEMMA LeftFacts ==
  ASSUME NEW r \in Word, NEW n \in 0 .. 15
  PROVE  /\ Left(r, n) \in Word
         /\ \A k \in 0 .. 15 : k \in Left(r, n) <=> k >= n /\ k - n \in r
         /\ 15 \notin Left(r, n) => Shift(Left(r, n)) = Left(r, n + 1)
<1>1. /\ Left(r, n) \in Word
      /\ \A k \in 0 .. 15 : k \in Left(r, n) <=> k >= n /\ k - n \in r
  BY DEF Left, WIDTH, Word
<1>2. ASSUME 15 \notin Left(r, n) PROVE Shift(Left(r, n)) = Left(r, n + 1)
  <2>1. /\ Left(r, n + 1) \in Word
        /\ \A k \in 0 .. 15 : k \in Left(r, n + 1) <=> k >= n + 1 /\ k - (n + 1) \in r
    BY DEF Left, WIDTH, Word
  <2>2. /\ Shift(Left(r, n)) \in Word
        /\ \A k \in 0 .. 15 : k \in Shift(Left(r, n)) <=> k >= 1 /\ k - 1 \in Left(r, n)
    BY <1>1, <1>2, ShiftBits
  <2>3. ASSUME NEW k \in 0 .. 15
        PROVE  k \in Shift(Left(r, n)) <=> k \in Left(r, n + 1)
    <3>1. k >= 1 => (k - 1 \in Left(r, n) <=> k - 1 >= n /\ (k - 1) - n \in r)
      BY <1>1
    <3>2. (k - 1) - n = k - (n + 1)
      OBVIOUS
    <3> QED BY <2>1, <2>2, <3>1, <3>2
  <2> QED BY <2>1, <2>2, <2>3, SameBits
<1> QED BY <1>1, <1>2

\* The low byte only moves up: its bits do not reach the top before.
LEMMA DivideLow ==
  ASSUME NEW r \in Word, r \subseteq 0 .. 7
  PROVE  Divide(r) = Left(r, 8)
<1>1. Left(r, 0) = r
  <2>1. /\ Left(r, 0) \in Word
        /\ \A k \in 0 .. 15 : k \in Left(r, 0) <=> k >= 0 /\ k - 0 \in r
    BY LeftFacts
  <2>2. ASSUME NEW k \in 0 .. 15 PROVE k \in Left(r, 0) <=> k \in r
    BY <2>1
  <2> QED BY <2>1, <2>2, SameBits
<1>2. ASSUME NEW n \in 0 .. 7 PROVE Shift(Left(r, n)) = Left(r, n + 1)
  <2>1. 15 - n \notin r /\ n \in 0 .. 15
    OBVIOUS
  <2>2. 15 \notin Left(r, n)
    BY <2>1, LeftFacts
  <2> QED BY <2>1, <2>2, LeftFacts
<1>3. /\ Shift(Left(r, 0)) = Left(r, 1) /\ Shift(Left(r, 1)) = Left(r, 2)
      /\ Shift(Left(r, 2)) = Left(r, 3) /\ Shift(Left(r, 3)) = Left(r, 4)
      /\ Shift(Left(r, 4)) = Left(r, 5) /\ Shift(Left(r, 5)) = Left(r, 6)
      /\ Shift(Left(r, 6)) = Left(r, 7) /\ Shift(Left(r, 7)) = Left(r, 8)
  BY <1>2
<1> QED BY <1>1, <1>3, DivideUnrolled, Zenon

\* One byte of crcFast is one byte of crcSlow.
LEMMA FastIsSlow ==
  ASSUME NEW r \in Word, NEW b \in Byte
  PROVE  fastByte(r, b) = slowByte(r, b) /\ slowByte(r, b) \in Word
<1> DEFINE data == SymDiff(b, Right(r, 8))
           high == Left(data, 8)
           low  == r \cap (0 .. 7)
<1>1. b \in Word /\ low \in Word
  BY DEF Word, Byte
<1>2. data \in Byte /\ data \in Word
      /\ \A k \in 0 .. 7 : k \in data <=> ~(k \in b <=> k + 8 \in r)
  <2>1. Right(r, 8) \in Byte /\ \A k \in 0 .. 7 : k \in Right(r, 8) <=> k + 8 \in r
    BY DEF Right, WIDTH, Word, Byte
  <2> HIDE DEF data
  <2>2. data \in Byte /\ \A k \in 0 .. 7 : k \in data <=> ~(k \in b <=> k \in Right(r, 8))
    BY <2>1 DEF data, SymDiff, Byte
  <2> QED BY <2>1, <2>2 DEF Word, Byte
<1> HIDE DEF data
<1>3. high \in Word /\ \A k \in 0 .. 15 : k \in high <=> k >= 8 /\ k - 8 \in data
  BY <1>2, LeftFacts
<1>4. /\ Left(b, 8) \in Word
      /\ \A k \in 0 .. 15 : k \in Left(b, 8) <=> k >= 8 /\ k - 8 \in b
  BY <1>1, LeftFacts
<1>5. Left(low, 8) = Left(r, 8)
  <2>1. /\ Left(low, 8) \in Word /\ Left(r, 8) \in Word
        /\ \A k \in 0 .. 15 : k \in Left(low, 8) <=> k >= 8 /\ k - 8 \in low
        /\ \A k \in 0 .. 15 : k \in Left(r, 8) <=> k >= 8 /\ k - 8 \in r
    BY <1>1, LeftFacts
  <2>2. ASSUME NEW k \in 0 .. 15 PROVE k \in Left(low, 8) <=> k \in Left(r, 8)
    BY <2>1
  <2> QED BY <2>1, <2>2, SameBits
<1> HIDE DEF high, low
<1>6. SymDiff(r, Left(b, 8)) = SymDiff(high, low)
  <2>1. /\ SymDiff(r, Left(b, 8)) \in Word /\ SymDiff(high, low) \in Word
        /\ \A k \in 0 .. 15 : k \in SymDiff(r, Left(b, 8)) <=> ~(k \in r <=> k \in Left(b, 8))
        /\ \A k \in 0 .. 15 : k \in SymDiff(high, low) <=> ~(k \in high <=> k \in low)
    BY <1>1, <1>3, <1>4, XorBits
  <2>2. ASSUME NEW k \in 0 .. 15 PROVE k \in SymDiff(r, Left(b, 8)) <=> k \in SymDiff(high, low)
    <3>1. CASE k >= 8
      <4>1. k - 8 \in 0 .. 7 /\ (k - 8) + 8 = k /\ k \notin low
        BY <3>1 DEF low
      <4> QED BY <1>2, <1>3, <1>4, <2>1, <3>1, <4>1
    <3>2. CASE ~(k >= 8)
      <4>1. k \in low <=> k \in r
        BY <3>2 DEF low
      <4> QED BY <1>3, <1>4, <2>1, <3>2, <4>1
    <3> QED BY <3>1, <3>2
  <2> QED BY <2>1, <2>2, SameBits
<1>7. slowByte(r, b) = SymDiff(Divide(high), Divide(low)) /\ slowByte(r, b) \in Word
  <2>1. slowByte(r, b) = Divide(SymDiff(high, low))
    BY <1>6 DEF slowByte, WIDTH
  <2>2. /\ Divide(SymDiff(high, low)) = SymDiff(Divide(high), Divide(low))
        /\ Divide(high) \in Word /\ Divide(low) \in Word
    BY <1>1, <1>3, DivideLinear
  <2> QED BY <2>1, <2>2, XorBits
<1>8. Divide(low) = Left(r, 8)
  <2>1. low \subseteq 0 .. 7
    BY DEF low
  <2> QED BY <1>1, <1>5, <2>1, DivideLow
<1>9. crcTable[data] = Divide(high)
  BY <1>2 DEF crcTable, WIDTH, high
<1>10. fastByte(r, b) = SymDiff(crcTable[data], Left(r, 8))
  BY DEF fastByte, data, WIDTH
<1> QED BY <1>7, <1>8, <1>9, <1>10

-----------------------------------------------------------------------------
(* Whole messages *)

\* c holds the remainders of the two algorithms after each byte of s.
SlowRun(s, c) == /\ c[0] = INITIAL_REMAINDER
                 /\ \A k \in 1 .. Len(s) : c[k] = slowByte(c[k - 1], s[k])
FastRun(s, c) == /\ c[0] = INITIAL_REMAINDER
                 /\ \A k \in 1 .. Len(s) : c[k] = fastByte(c[k - 1], s[k])

\* The remainders after each byte of the message, in crcSlow.
LEMMA SlowSteps ==
  ASSUME NEW s \in Seq(Byte)
  PROVE  \E c : SlowRun(s, c) /\ crcSlow(s) = c[Len(s)]
<1> DEFINE n == Len(s)
           G == [x \in Word \X Nat |-> IF x[2] \in 1 .. n THEN slowByte(x[1], s[x[2]]) ELSE {}]
           Passes(f) == f = [k \in 0 .. n |-> IF k = 0 THEN INITIAL_REMAINDER
                                              ELSE slowByte(f[k - 1], s[k])]
           c == CHOOSE f : Passes(f)
<1>1. n \in Nat /\ (\A k \in 1 .. n : s[k] \in Byte) /\ INITIAL_REMAINDER \in Word
  BY DEF INITIAL_REMAINDER, Word
<1>2. G \in [Word \X Nat -> Word]
  <2>1. ASSUME NEW x \in Word \X Nat
        PROVE  (IF x[2] \in 1 .. n THEN slowByte(x[1], s[x[2]]) ELSE {}) \in Word
    <3>1. CASE x[2] \in 1 .. n
      <4>1. x[1] \in Word /\ s[x[2]] \in Byte
        BY <1>1, <3>1
      <4>2. slowByte(x[1], s[x[2]]) \in Word
        BY <4>1, FastIsSlow
      <4> QED BY <3>1, <4>2
    <3>2. CASE x[2] \notin 1 .. n
      BY <3>2 DEF Word
    <3> QED BY <3>1, <3>2
  <2> QED BY <2>1
<1>3. PICK f : Solves(Word, INITIAL_REMAINDER, G, f)
  <2> HIDE DEF G
  <2> QED BY <1>1, <1>2, Recursion
<1> DEFINE g == [k \in 0 .. n |-> f[k]]
<1>4. Passes(g)
  <2>1. ASSUME NEW k \in 0 .. n, k # 0 PROVE g[k] = slowByte(g[k - 1], s[k])
    <3>1. k - 1 \in Nat /\ (k - 1) + 1 = k /\ k - 1 \in 0 .. n /\ k \in 1 .. n
      BY <2>1, <1>1
    <3>2. f[k] = G[<<f[k - 1], k>>] /\ f[k - 1] \in Word
      BY <1>3, <3>1 DEF Solves
    <3>3. G[<<f[k - 1], k>>] = slowByte(f[k - 1], s[k])
      BY <3>1, <3>2
    <3> QED BY <3>1, <3>2, <3>3
  <2>2. g[0] = INITIAL_REMAINDER
    BY <1>1, <1>3 DEF Solves
  <2> QED BY <2>1, <2>2
<1>5. Passes(c)
  BY <1>4, Zenon
<1>6. crcSlow(s) = c[n]
  BY DEF crcSlow
<1> HIDE DEF c
<1>7. c[0] = INITIAL_REMAINDER /\ \A k \in 1 .. n : c[k] = slowByte(c[k - 1], s[k])
  BY <1>1, <1>5
<1> QED BY <1>6, <1>7 DEF SlowRun

\* The remainders after each byte of the message, in crcFast.
LEMMA FastSteps ==
  ASSUME NEW s \in Seq(Byte)
  PROVE  \E c : FastRun(s, c) /\ crcFast(s) = c[Len(s)]
<1> DEFINE n == Len(s)
           G == [x \in Word \X Nat |-> IF x[2] \in 1 .. n THEN fastByte(x[1], s[x[2]]) ELSE {}]
           Passes(f) == f = [k \in 0 .. n |-> IF k = 0 THEN INITIAL_REMAINDER
                                              ELSE fastByte(f[k - 1], s[k])]
           c == CHOOSE f : Passes(f)
<1>1. n \in Nat /\ (\A k \in 1 .. n : s[k] \in Byte) /\ INITIAL_REMAINDER \in Word
  BY DEF INITIAL_REMAINDER, Word
<1>2. G \in [Word \X Nat -> Word]
  <2>1. ASSUME NEW x \in Word \X Nat
        PROVE  (IF x[2] \in 1 .. n THEN fastByte(x[1], s[x[2]]) ELSE {}) \in Word
    <3>1. CASE x[2] \in 1 .. n
      <4>1. x[1] \in Word /\ s[x[2]] \in Byte
        BY <1>1, <3>1
      <4>2. fastByte(x[1], s[x[2]]) \in Word
        BY <4>1, FastIsSlow
      <4> QED BY <3>1, <4>2
    <3>2. CASE x[2] \notin 1 .. n
      BY <3>2 DEF Word
    <3> QED BY <3>1, <3>2
  <2> QED BY <2>1
<1>3. PICK f : Solves(Word, INITIAL_REMAINDER, G, f)
  <2> HIDE DEF G
  <2> QED BY <1>1, <1>2, Recursion
<1> DEFINE g == [k \in 0 .. n |-> f[k]]
<1>4. Passes(g)
  <2>1. ASSUME NEW k \in 0 .. n, k # 0 PROVE g[k] = fastByte(g[k - 1], s[k])
    <3>1. k - 1 \in Nat /\ (k - 1) + 1 = k /\ k - 1 \in 0 .. n /\ k \in 1 .. n
      BY <2>1, <1>1
    <3>2. f[k] = G[<<f[k - 1], k>>] /\ f[k - 1] \in Word
      BY <1>3, <3>1 DEF Solves
    <3>3. G[<<f[k - 1], k>>] = fastByte(f[k - 1], s[k])
      BY <3>1, <3>2
    <3> QED BY <3>1, <3>2, <3>3
  <2>2. g[0] = INITIAL_REMAINDER
    BY <1>1, <1>3 DEF Solves
  <2> QED BY <2>1, <2>2
<1>5. Passes(c)
  BY <1>4, Zenon
<1>6. crcFast(s) = c[n]
  BY DEF crcFast
<1> HIDE DEF c
<1>7. c[0] = INITIAL_REMAINDER /\ \A k \in 1 .. n : c[k] = fastByte(c[k - 1], s[k])
  BY <1>1, <1>5
<1> QED BY <1>6, <1>7 DEF FastRun

\* A remainder is a word after every byte.
LEMMA RunTyped ==
  ASSUME NEW s \in Seq(Byte), NEW c, SlowRun(s, c)
  PROVE  \A k \in 0 .. Len(s) : c[k] \in Word
<1> DEFINE P == {k \in Nat : k <= Len(s) => c[k] \in Word}
<1>1. 0 \in P
  BY DEF SlowRun, INITIAL_REMAINDER, Word
<1>2. ASSUME NEW k \in P PROVE k + 1 \in P
  <2>1. ASSUME k + 1 <= Len(s) PROVE c[k + 1] \in Word
    <3>1. k + 1 \in 1 .. Len(s) /\ (k + 1) - 1 = k /\ c[k] \in Word
      BY <2>1
    <3>2. c[k + 1] = slowByte(c[k], s[k + 1]) /\ s[k + 1] \in Byte
      BY <3>1 DEF SlowRun
    <3> QED BY <3>1, <3>2, FastIsSlow
  <2> QED BY <2>1
<1>3. P \subseteq Nat
  OBVIOUS
<1>4. P = Nat
  <2> HIDE DEF P
  <2> QED BY <1>1, <1>2, <1>3, SetInduction
<1> QED BY <1>4

\* The table-driven algorithm computes the division, for every message (crc.c:211-233).
THEOREM FastIsDivision == \A s \in Seq(Byte) : crcFast(s) = crcSlow(s)
<1> SUFFICES ASSUME NEW s \in Seq(Byte) PROVE crcFast(s) = crcSlow(s)
  OBVIOUS
<1>1. PICK c : SlowRun(s, c) /\ crcSlow(s) = c[Len(s)]
  BY SlowSteps
<1>2. PICK d : FastRun(s, d) /\ crcFast(s) = d[Len(s)]
  BY FastSteps
<1>3. \A k \in 0 .. Len(s) : c[k] \in Word
  BY <1>1, RunTyped
<1> DEFINE P == {k \in Nat : k <= Len(s) => d[k] = c[k]}
<1>4. 0 \in P
  BY <1>1, <1>2 DEF SlowRun, FastRun
<1>5. ASSUME NEW k \in P PROVE k + 1 \in P
  <2>1. ASSUME k + 1 <= Len(s) PROVE d[k + 1] = c[k + 1]
    <3>1. k + 1 \in 1 .. Len(s) /\ (k + 1) - 1 = k /\ d[k] = c[k] /\ c[k] \in Word
      BY <1>3, <2>1
    <3>2. /\ c[k + 1] = slowByte(c[k], s[k + 1]) /\ d[k + 1] = fastByte(d[k], s[k + 1])
          /\ s[k + 1] \in Byte
      BY <1>1, <1>2, <3>1 DEF SlowRun, FastRun
    <3> QED BY <3>1, <3>2, FastIsSlow
  <2> QED BY <2>1
<1>6. P \subseteq Nat
  OBVIOUS
<1>7. P = Nat
  <2> HIDE DEF P
  <2> QED BY <1>4, <1>5, <1>6, SetInduction
<1> QED BY <1>1, <1>2, <1>7

-----------------------------------------------------------------------------
(* Noise.  The division a bit at a time, with the bit added at the top *)

BitStep(r, bit) == Shift(SymDiff(r, IF bit THEN {15} ELSE {}))

\* A bit added at the top leaves the others.
LEMMA BitStepBits ==
  ASSUME NEW r \in Word, NEW bit \in BOOLEAN
  PROVE  /\ SymDiff(r, IF bit THEN {15} ELSE {}) \in Word
         /\ BitStep(r, bit) \in Word
         /\ \A k \in 0 .. 14 : k \in SymDiff(r, IF bit THEN {15} ELSE {}) <=> k \in r
<1> DEFINE top == IF bit THEN {15} ELSE {}
<1>1. top \in Word /\ \A k \in 0 .. 14 : k \notin top
  BY DEF Word
<1> HIDE DEF top
<1>2. /\ SymDiff(r, top) \in Word
      /\ \A k \in 0 .. 15 : k \in SymDiff(r, top) <=> ~(k \in r <=> k \in top)
  BY <1>1, XorBits
<1>3. Shift(SymDiff(r, top)) \in Word
  BY <1>2, ShiftBits
<1>4. \A k \in 0 .. 14 : k \in SymDiff(r, top) <=> k \in r
  BY <1>1, <1>2
<1> QED BY <1>2, <1>3, <1>4 DEF BitStep, top

\* Exclusive or is associative.
LEMMA XorAssoc ==
  ASSUME NEW a, NEW b, NEW c
  PROVE  SymDiff(a, SymDiff(b, c)) = SymDiff(SymDiff(a, b), c)
<1>1. ASSUME NEW x PROVE x \in SymDiff(a, SymDiff(b, c)) <=> x \in SymDiff(SymDiff(a, b), c)
  BY Zenon DEF SymDiff
<1> QED BY <1>1, Zenon

\* What is left of a byte to bring in after k bits, where it stands in the remainder.
Rest(e, k) == Left(e \cap (0 .. 7 - k), 8 + k)

\* A byte is brought in bit by bit: v holds the remainders in between.
LEMMA ByteIsBits ==
  ASSUME NEW r \in Word, NEW e \in Byte, NEW v, v[0] = r,
         \A k \in 0 .. 7 : v[k + 1] = BitStep(v[k], 7 - k \in e)
  PROVE  slowByte(r, e) = v[8]
<1>1. \A k \in 0 .. 8 : v[k] \in Word
  <2> DEFINE P == {k \in Nat : k <= 8 => v[k] \in Word}
  <2>1. 0 \in P
    OBVIOUS
  <2>2. ASSUME NEW k \in P PROVE k + 1 \in P
    <3>1. ASSUME k + 1 <= 8 PROVE v[k + 1] \in Word
      <4>1. k \in 0 .. 7 /\ v[k] \in Word
        BY <3>1
      <4> DEFINE bit == 7 - k \in e
      <4>2. v[k + 1] = BitStep(v[k], bit) /\ bit \in BOOLEAN
        BY <4>1
      <4> HIDE DEF bit
      <4>3. BitStep(v[k], bit) \in Word
        BY <4>1, <4>2, BitStepBits, Zenon
      <4> QED BY <4>2, <4>3
    <3> QED BY <3>1
  <2>3. P \subseteq Nat
    OBVIOUS
  <2>4. P = Nat
    <3> HIDE DEF P
    <3> QED BY <2>1, <2>2, <2>3, SetInduction
  <2> QED BY <2>4
<1> DEFINE U(k) == SymDiff(v[k], Rest(e, k))
<1>2. U(0) = SymDiff(r, Left(e, 8))
  <2>1. 7 - 0 = 7 /\ 8 + 0 = 8
    OBVIOUS
  <2>2. e \cap (0 .. 7) = e
    BY DEF Byte
  <2> QED BY <2>1, <2>2 DEF Rest
<1>3. U(8) = v[8]
  <2>1. Rest(e, 8) = {}
    BY DEF Rest, Left, WIDTH
  <2> QED BY <2>1 DEF SymDiff
<1>4. ASSUME NEW k \in 0 .. 7 PROVE Shift(U(k)) = U(k + 1)
  <2> DEFINE bit == 7 - k \in e
             top == IF bit THEN {15} ELSE {}
             less == e \cap (0 .. 6 - k)
             B == Left(less, 8 + k)
             x == SymDiff(v[k], top)
  <2>1. v[k] \in Word /\ v[k + 1] = Shift(x)
    BY <1>1 DEF BitStep
  <2>2. less \in Word /\ e \cap (0 .. 7 - k) \in Word /\ top \in Word /\ 8 + k \in 0 .. 15
    BY DEF Byte, Word
  <2>3. /\ B \in Word /\ 15 \notin B /\ Shift(B) = Left(less, (8 + k) + 1)
        /\ \A i \in 0 .. 15 : i \in B <=> i >= 8 + k /\ i - (8 + k) \in less
    <3>1. 15 - (8 + k) \notin less
      OBVIOUS
    <3> QED BY <2>2, <3>1, LeftFacts
  <2>4. Shift(B) = Rest(e, k + 1)
    <3>1. (8 + k) + 1 = 8 + (k + 1) /\ 6 - k = 7 - (k + 1)
      OBVIOUS
    <3> QED BY <2>3, <3>1 DEF Rest
  <2>5. Rest(e, k) = SymDiff(top, B)
    <3>1. /\ Rest(e, k) \in Word
          /\ \A i \in 0 .. 15 : i \in Rest(e, k) <=> i >= 8 + k /\ i - (8 + k) \in e \cap (0 .. 7 - k)
      BY <2>2, LeftFacts DEF Rest
    <3>2. /\ SymDiff(top, B) \in Word
          /\ \A i \in 0 .. 15 : i \in SymDiff(top, B) <=> ~(i \in top <=> i \in B)
      BY <2>2, <2>3, XorBits
    <3>3. ASSUME NEW i \in 0 .. 15 PROVE i \in Rest(e, k) <=> i \in SymDiff(top, B)
      <4>1. CASE i = 15
        <5>1. i - (8 + k) = 7 - k /\ 7 - k \in 0 .. 7 - k /\ i >= 8 + k
          BY <4>1
        <5>2. i \in Rest(e, k) <=> bit
          BY <3>1, <5>1
        <5>3. i \in top <=> bit
          BY <4>1
        <5> QED BY <2>3, <3>2, <4>1, <5>2, <5>3
      <4>2. CASE i # 15
        <5>1. i \notin top
          BY <4>2
        <5>2. i \in SymDiff(top, B) <=> i >= 8 + k /\ i - (8 + k) \in less
          BY <2>3, <3>2, <5>1
        <5>3. i - (8 + k) \in less <=> i - (8 + k) \in e \cap (0 .. 7 - k)
          BY <4>2
        <5> QED BY <3>1, <5>2, <5>3
      <4> QED BY <4>1, <4>2
    <3> HIDE DEF top, B
    <3> QED BY <3>1, <3>2, <3>3, SameBits
  <2> HIDE DEF top, B, less
  <2>6. x \in Word
    BY <2>1, <2>2, XorBits
  <2>7. U(k) = SymDiff(x, B)
    BY <2>5, XorAssoc
  <2> HIDE DEF x
  <2>8. Shift(SymDiff(x, B)) = SymDiff(Shift(x), Shift(B))
    BY <2>3, <2>6, ShiftLinear
  <2> QED BY <2>1, <2>4, <2>7, <2>8
<1> HIDE DEF U
<1>5. /\ Shift(U(0)) = U(1) /\ Shift(U(1)) = U(2) /\ Shift(U(2)) = U(3) /\ Shift(U(3)) = U(4)
      /\ Shift(U(4)) = U(5) /\ Shift(U(5)) = U(6) /\ Shift(U(6)) = U(7) /\ Shift(U(7)) = U(8)
  BY <1>4
<1>6. slowByte(r, e) = Divide(U(0))
  BY <1>2 DEF slowByte, WIDTH
<1> QED BY <1>3, <1>5, <1>6, DivideUnrolled, Zenon

\* A step whose result has none of its lowest bits had no polynomial subtracted.
LEMMA StepBack ==
  ASSUME NEW r \in Word, NEW bit \in BOOLEAN, NEW c \in 0 .. 15,
         \A k \in 0 .. c : k \notin BitStep(r, bit)
  PROVE  /\ \A k \in 0 .. c - 1 : k \notin r
         /\ 15 \notin SymDiff(r, IF bit THEN {15} ELSE {})
<1> DEFINE x == SymDiff(r, IF bit THEN {15} ELSE {})
<1>1. x \in Word /\ BitStep(r, bit) = Shift(x) /\ \A k \in 0 .. 14 : k \in x <=> k \in r
  BY BitStepBits DEF BitStep
<1> HIDE DEF x
<1>2. \A k \in 0 .. 15 :
         k \in Shift(x) <=> ~((k >= 1 /\ k - 1 \in x) <=> (15 \in x /\ k \in POLYNOMIAL))
  BY <1>1, ShiftBits
<1>3. 15 \notin x
  <2>1. 0 \notin Shift(x) /\ 0 \in POLYNOMIAL /\ 0 \in 0 .. 15 /\ ~(0 >= 1)
    BY <1>1 DEF POLYNOMIAL
  <2> QED BY <1>2, <2>1
<1>4. ASSUME NEW k \in 0 .. c - 1 PROVE k \notin r
  <2>1. k + 1 \in 0 .. 15 /\ k + 1 >= 1 /\ (k + 1) - 1 = k /\ k \in 0 .. 14 /\ k + 1 \notin Shift(x)
    BY <1>1
  <2>2. k \notin x
    BY <1>2, <1>3, <2>1
  <2> QED BY <1>1, <2>1, <2>2
<1> QED BY <1>3, <1>4 DEF x

\* w holds the remainders of noise alone after each place; I are the inverted places.
BitRun(I, w) == /\ w[0] = {}
                /\ \A t \in Nat : w[t + 1] = BitStep(w[t], t + 1 \in I)

\* There is such a run, and it consists of words.
LEMMA BitRunExists ==
  ASSUME NEW I
  PROVE  \E w : BitRun(I, w) /\ \A t \in Nat : w[t] \in Word
<1> DEFINE G == [x \in Word \X Nat |-> BitStep(x[1], x[2] \in I)]
<1>1. G \in [Word \X Nat -> Word]
  <2>1. ASSUME NEW x \in Word \X Nat PROVE BitStep(x[1], x[2] \in I) \in Word
    <3> DEFINE bit == x[2] \in I
    <3>1. x[1] \in Word /\ bit \in BOOLEAN
      OBVIOUS
    <3> HIDE DEF bit
    <3>2. BitStep(x[1], bit) \in Word
      BY <3>1, BitStepBits, Zenon
    <3> QED BY <3>2 DEF bit
  <2> QED BY <2>1
<1>2. {} \in Word
  BY DEF Word
<1>3. PICK w : Solves(Word, {}, G, w)
  <2> HIDE DEF G
  <2> QED BY <1>1, <1>2, Recursion
<1>4. ASSUME NEW t \in Nat PROVE w[t] \in Word /\ w[t + 1] = BitStep(w[t], t + 1 \in I)
  <2>1. w[t] \in Word /\ t + 1 \in Nat /\ w[t + 1] = G[<<w[t], t + 1>>]
    <3> HIDE DEF G
    <3> QED BY <1>3 DEF Solves
  <2>2. G[<<w[t], t + 1>>] = BitStep(w[t], t + 1 \in I)
    BY <2>1
  <2> QED BY <2>1, <2>2
<1>5. w[0] = {}
  BY <1>3 DEF Solves
<1> QED BY <1>4, <1>5 DEF BitRun

\* The remainder of a burst is not zero when the burst is over, nor ever after.
LEMMA BurstRemains ==
  ASSUME NEW I \in SUBSET (Nat \ {0}), NEW f \in I, I \subseteq f .. f + 15,
         NEW w, BitRun(I, w), \A t \in Nat : w[t] \in Word
  PROVE  \A t \in Nat : t >= f => w[t] # {}
<1>0. f \in Nat /\ f >= 1 /\ f - 1 \in Nat /\ (f - 1) + 1 = f
  OBVIOUS
<1>1. \A t \in Nat : t < f => w[t] = {}
  <2> DEFINE P == {t \in Nat : t < f => w[t] = {}}
  <2>1. 0 \in P
    BY DEF BitRun
  <2>2. ASSUME NEW t \in P PROVE t + 1 \in P
    <3>1. ASSUME t + 1 < f PROVE w[t + 1] = {}
      <4>1. w[t] = {} /\ t + 1 \notin I
        BY <1>0, <3>1
      <4>2. w[t + 1] = Shift(SymDiff({}, {}))
        BY <4>1 DEF BitRun, BitStep
      <4>3. SymDiff({}, {}) = {} /\ Left({}, 1) = {}
        BY DEF SymDiff, Left
      <4> QED BY <4>2, <4>3 DEF Shift
    <3> QED BY <3>1
  <2>3. P \subseteq Nat
    OBVIOUS
  <2>4. P = Nat
    <3> HIDE DEF P
    <3> QED BY <2>1, <2>2, <2>3, SetInduction
  <2> QED BY <2>4
<1>2. 0 \in w[f]
  <2>1. w[f - 1] = {}
    BY <1>0, <1>1
  <2>2. w[f] = Shift(SymDiff({}, {15}))
    BY <1>0, <2>1 DEF BitRun, BitStep
  <2>3. SymDiff({}, {15}) = {15} /\ {15} \in Word
    BY DEF SymDiff, Word
  <2>4. 0 \in POLYNOMIAL /\ 0 \in 0 .. 15 /\ 15 \in {15} /\ ~(0 >= 1)
    BY DEF POLYNOMIAL
  <2>5. 0 \in Shift({15})
    BY <2>3, <2>4, ShiftBits
  <2> QED BY <2>2, <2>3, <2>5
<1>3. ASSUME NEW t \in Nat, t >= f, t <= f + 15, w[t] = {} PROVE FALSE
  <2> DEFINE P == {j \in Nat : j <= t - f => \A k \in 0 .. 15 - j : k \notin w[t - j]}
  <2>1. 0 \in P
    BY <1>3
  <2>2. ASSUME NEW j \in P PROVE j + 1 \in P
    <3>1. ASSUME j + 1 <= t - f PROVE \A k \in 0 .. 15 - (j + 1) : k \notin w[t - (j + 1)]
      <4> DEFINE u == t - (j + 1)
                 bit == u + 1 \in I
                 c == 15 - j
      <4>1. /\ u \in Nat /\ u + 1 = t - j /\ c \in 0 .. 15 /\ c - 1 = 15 - (j + 1)
            /\ j <= t - f
        BY <1>0, <1>3, <3>1
      <4>2. w[u] \in Word /\ bit \in BOOLEAN
        BY <4>1
      <4>3. w[u + 1] = BitStep(w[u], bit)
        BY <4>1 DEF BitRun
      <4>4. \A k \in 0 .. c : k \notin w[u + 1]
        BY <4>1
      <4> HIDE DEF u, bit, c
      <4>5. \A k \in 0 .. c : k \notin BitStep(w[u], bit)
        BY <4>3, <4>4
      <4>6. \A k \in 0 .. c - 1 : k \notin w[u]
        BY <4>1, <4>2, <4>5, StepBack, Zenon
      <4> QED BY <4>1, <4>6 DEF u
    <3> QED BY <3>1
  <2>3. P \subseteq Nat
    OBVIOUS
  <2>4. P = Nat
    <3> HIDE DEF P
    <3> QED BY <2>1, <2>2, <2>3, SetInduction
  <2> DEFINE j == t - f
  <2>5. j \in Nat /\ j <= t - f /\ 0 \in 0 .. 15 - j /\ t - j = f
    BY <1>0, <1>3
  <2>6. j \in P
    BY <2>4, <2>5, Zenon
  <2> HIDE DEF j
  <2> QED BY <1>2, <2>5, <2>6
<1>4. ASSUME NEW t \in Nat, t >= f + 15, w[t] # {} PROVE w[t + 1] # {}
  <2> DEFINE bit == t + 1 \in I
  <2>0. t + 1 \notin f .. f + 15
    BY <1>0, <1>4
  <2>1. ~bit /\ bit \in BOOLEAN
    BY <2>0
  <2>2. w[t] \in Word /\ w[t + 1] = BitStep(w[t], bit)
    BY DEF BitRun
  <2> HIDE DEF bit
  <2>3. SUFFICES ASSUME w[t + 1] = {} PROVE FALSE
    OBVIOUS
  <2>4. 15 \in 0 .. 15 /\ \A k \in 0 .. 15 : k \notin BitStep(w[t], bit)
    BY <2>2, <2>3
  <2>5. /\ \A k \in 0 .. 15 - 1 : k \notin w[t]
        /\ 15 \notin SymDiff(w[t], IF bit THEN {15} ELSE {})
    BY <2>1, <2>2, <2>4, StepBack, Zenon
  <2>6. 15 \notin w[t]
    BY <2>1, <2>5 DEF SymDiff
  <2> QED BY <1>4, <2>2, <2>5, <2>6 DEF Word
<1> DEFINE P == {n \in Nat : w[f + 15 + n] # {}}
<1>5. 0 \in P
  BY <1>0, <1>3
<1>6. ASSUME NEW n \in P PROVE n + 1 \in P
  <2>1. f + 15 + n \in Nat /\ f + 15 + n >= f + 15 /\ (f + 15 + n) + 1 = f + 15 + (n + 1)
    BY <1>0
  <2> QED BY <1>4, <2>1
<1>7. P = Nat
  <2>1. P \subseteq Nat
    OBVIOUS
  <2> HIDE DEF P
  <2> QED BY <1>5, <1>6, <2>1, SetInduction
<1>8. ASSUME NEW t \in Nat, t >= f PROVE w[t] # {}
  <2>1. CASE t <= f + 15
    BY <1>3, <1>8, <2>1
  <2>2. CASE t > f + 15
    <3> DEFINE n == t - (f + 15)
    <3>1. n \in Nat /\ f + 15 + n = t
      BY <1>0, <2>2
    <3>2. n \in P
      BY <1>7, <3>1, Zenon
    <3> HIDE DEF n
    <3> QED BY <3>1, <3>2
  <2> QED BY <1>0, <2>1, <2>2
<1> QED BY <1>8

-----------------------------------------------------------------------------
(* The check value.  A step of the division on given words, bit by bit *)

\* The bits of a word that one step of the division turns into q.
StepTo(r, q) ==
    /\ (0 \in q <=> 15 \in r) /\ (1 \in q <=> 0 \in r) /\ (2 \in q <=> 1 \in r)
    /\ (3 \in q <=> 2 \in r) /\ (4 \in q <=> 3 \in r)
    /\ (5 \in q <=> ~(4 \in r <=> 15 \in r)) /\ (6 \in q <=> 5 \in r)
    /\ (7 \in q <=> 6 \in r) /\ (8 \in q <=> 7 \in r) /\ (9 \in q <=> 8 \in r)
    /\ (10 \in q <=> 9 \in r) /\ (11 \in q <=> 10 \in r)
    /\ (12 \in q <=> ~(11 \in r <=> 15 \in r)) /\ (13 \in q <=> 12 \in r)
    /\ (14 \in q <=> 13 \in r) /\ (15 \in q <=> 14 \in r)

\* The bits of a word that bringing in the byte b turns into q.
BringTo(r, b, q) ==
    /\ (0 \in q <=> 0 \in r) /\ (1 \in q <=> 1 \in r) /\ (2 \in q <=> 2 \in r)
    /\ (3 \in q <=> 3 \in r) /\ (4 \in q <=> 4 \in r) /\ (5 \in q <=> 5 \in r)
    /\ (6 \in q <=> 6 \in r) /\ (7 \in q <=> 7 \in r)
    /\ (8 \in q <=> ~(8 \in r <=> 0 \in b)) /\ (9 \in q <=> ~(9 \in r <=> 1 \in b))
    /\ (10 \in q <=> ~(10 \in r <=> 2 \in b)) /\ (11 \in q <=> ~(11 \in r <=> 3 \in b))
    /\ (12 \in q <=> ~(12 \in r <=> 4 \in b)) /\ (13 \in q <=> ~(13 \in r <=> 5 \in b))
    /\ (14 \in q <=> ~(14 \in r <=> 6 \in b)) /\ (15 \in q <=> ~(15 \in r <=> 7 \in b))

\* Words with these bits are the result of the step.
LEMMA ShiftIs ==
  ASSUME NEW r \in Word, NEW q \in Word, StepTo(r, q)
  PROVE  Shift(r) = q
<1>1. ASSUME NEW k \in 0 .. 15 PROVE k \in Shift(r) <=> k \in q
  <2>1. k \in Shift(r) <=> ~((k >= 1 /\ k - 1 \in r) <=> (15 \in r /\ k \in POLYNOMIAL))
    BY ShiftBits
  <2>2. k \in {0, 1, 2, 3, 4, 5, 6, 7, 8, 9, 10, 11, 12, 13, 14, 15}
    OBVIOUS
  <2> QED BY <2>1, <2>2 DEF StepTo, POLYNOMIAL
<1>2. Shift(r) \in Word
  BY ShiftBits
<1> QED BY <1>1, <1>2, SameBits

\* Words with these bits are the result of bringing in a byte.
LEMMA BringIs ==
  ASSUME NEW r \in Word, NEW b \in Byte, NEW q \in Word, BringTo(r, b, q)
  PROVE  SymDiff(r, Left(b, 8)) = q
<1>1. b \in Word
  BY DEF Byte, Word
<1>2. /\ Left(b, 8) \in Word
      /\ \A k \in 0 .. 15 : k \in Left(b, 8) <=> k >= 8 /\ k - 8 \in b
  BY <1>1, LeftFacts
<1>3. /\ SymDiff(r, Left(b, 8)) \in Word
      /\ \A k \in 0 .. 15 : k \in SymDiff(r, Left(b, 8)) <=> ~(k \in r <=> k \in Left(b, 8))
  BY <1>2, XorBits
<1>4. ASSUME NEW k \in 0 .. 15 PROVE k \in SymDiff(r, Left(b, 8)) <=> k \in q
  <2>1. k \in {0, 1, 2, 3, 4, 5, 6, 7, 8, 9, 10, 11, 12, 13, 14, 15}
    OBVIOUS
  <2> QED BY <1>2, <1>3, <2>1 DEF BringTo
<1> QED BY <1>3, <1>4, SameBits

\* crc.h's check value, computed: the nine bytes with the words of each division.
LEMMA CheckDigits == crcSlow(NineDigits) = CHECK_VALUE
<1> DEFINE s == NineDigits
<1>1. s \in Seq(Byte) /\ Len(s) = 9
  BY DEF NineDigits, Byte
<1>2. PICK c : SlowRun(s, c) /\ crcSlow(s) = c[9]
  BY <1>1, SlowSteps
<1>3. ASSUME NEW k \in 1 .. 9 PROVE c[k] = slowByte(c[k - 1], s[k])
  BY <1>1, <1>2 DEF SlowRun
<1>4. c[0] = {0, 1, 2, 3, 4, 5, 6, 7, 8, 9, 10, 11, 12, 13, 14, 15}
  BY <1>2 DEF SlowRun, INITIAL_REMAINDER
<1>5. c[1] = {1, 7, 8, 9, 10, 14, 15}
  <2> DEFINE b == {0, 4, 5}
             r == {0, 1, 2, 3, 4, 5, 6, 7, 8, 9, 10, 11, 12, 13, 14, 15}
             q0 == {0, 1, 2, 3, 4, 5, 6, 7, 9, 10, 11, 14, 15}
             q1 == {0, 1, 2, 3, 4, 6, 7, 8, 10, 11, 15}
             q2 == {0, 1, 2, 3, 4, 7, 8, 9, 11}
             q3 == {1, 2, 3, 4, 5, 8, 9, 10, 12}
             q4 == {2, 3, 4, 5, 6, 9, 10, 11, 13}
             q5 == {3, 4, 5, 6, 7, 10, 11, 12, 14}
             q6 == {4, 5, 6, 7, 8, 11, 12, 13, 15}
             q7 == {0, 6, 7, 8, 9, 13, 14}
             q8 == {1, 7, 8, 9, 10, 14, 15}
  <2>1. c[1] = slowByte(r, b)
    BY <1>3, <1>4 DEF NineDigits
  <2>2. /\ r \in Word /\ b \in Byte /\ q0 \in Word /\ q1 \in Word /\ q2 \in Word /\ q3 \in Word
        /\ q4 \in Word /\ q5 \in Word /\ q6 \in Word /\ q7 \in Word /\ q8 \in Word
    BY DEF Word, Byte
  <2>3. BringTo(r, b, q0) /\ StepTo(q0, q1) /\ StepTo(q1, q2) /\ StepTo(q2, q3)
    BY DEF BringTo, StepTo
  <2>4. StepTo(q3, q4) /\ StepTo(q4, q5) /\ StepTo(q5, q6) /\ StepTo(q6, q7) /\ StepTo(q7, q8)
    BY DEF StepTo
  <2> HIDE DEF r, b, q0, q1, q2, q3, q4, q5, q6, q7, q8
  <2>5. slowByte(r, b) = Divide(q0)
    BY <2>2, <2>3, BringIs DEF slowByte, WIDTH
  <2>6. /\ Shift(q0) = q1 /\ Shift(q1) = q2 /\ Shift(q2) = q3 /\ Shift(q3) = q4
        /\ Shift(q4) = q5 /\ Shift(q5) = q6 /\ Shift(q6) = q7 /\ Shift(q7) = q8
    BY <2>2, <2>3, <2>4, ShiftIs
  <2>7. Divide(q0) = q8
    BY <2>6, DivideUnrolled, Zenon
  <2> QED BY <2>1, <2>5, <2>7 DEF q8
<1>6. c[2] = {1, 3, 4, 5, 7, 8, 10, 11, 12, 13}
  <2> DEFINE b == {1, 4, 5}
             r == {1, 7, 8, 9, 10, 14, 15}
             q0 == {1, 7, 8, 10, 12, 13, 14, 15}
             q1 == {0, 2, 5, 8, 9, 11, 12, 13, 14, 15}
             q2 == {0, 1, 3, 5, 6, 9, 10, 13, 14, 15}
             q3 == {0, 1, 2, 4, 5, 6, 7, 10, 11, 12, 14, 15}
             q4 == {0, 1, 2, 3, 6, 7, 8, 11, 13, 15}
             q5 == {0, 1, 2, 3, 4, 5, 7, 8, 9, 14}
             q6 == {1, 2, 3, 4, 5, 6, 8, 9, 10, 15}
             q7 == {0, 2, 3, 4, 6, 7, 9, 10, 11, 12}
             q8 == {1, 3, 4, 5, 7, 8, 10, 11, 12, 13}
  <2>1. c[2] = slowByte(r, b)
    BY <1>3, <1>5 DEF NineDigits
  <2>2. /\ r \in Word /\ b \in Byte /\ q0 \in Word /\ q1 \in Word /\ q2 \in Word /\ q3 \in Word
        /\ q4 \in Word /\ q5 \in Word /\ q6 \in Word /\ q7 \in Word /\ q8 \in Word
    BY DEF Word, Byte
  <2>3. BringTo(r, b, q0) /\ StepTo(q0, q1) /\ StepTo(q1, q2) /\ StepTo(q2, q3)
    BY DEF BringTo, StepTo
  <2>4. StepTo(q3, q4) /\ StepTo(q4, q5) /\ StepTo(q5, q6) /\ StepTo(q6, q7) /\ StepTo(q7, q8)
    BY DEF StepTo
  <2> HIDE DEF r, b, q0, q1, q2, q3, q4, q5, q6, q7, q8
  <2>5. slowByte(r, b) = Divide(q0)
    BY <2>2, <2>3, BringIs DEF slowByte, WIDTH
  <2>6. /\ Shift(q0) = q1 /\ Shift(q1) = q2 /\ Shift(q2) = q3 /\ Shift(q3) = q4
        /\ Shift(q4) = q5 /\ Shift(q5) = q6 /\ Shift(q6) = q7 /\ Shift(q7) = q8
    BY <2>2, <2>3, <2>4, ShiftIs
  <2>7. Divide(q0) = q8
    BY <2>6, DivideUnrolled, Zenon
  <2> QED BY <2>1, <2>5, <2>7 DEF q8
<1>7. c[3] = {1, 2, 3, 6, 7, 8, 9, 11, 12, 14}
  <2> DEFINE b == {0, 1, 4, 5}
             r == {1, 3, 4, 5, 7, 8, 10, 11, 12, 13}
             q0 == {1, 3, 4, 5, 7, 9, 10, 11}
             q1 == {2, 4, 5, 6, 8, 10, 11, 12}
             q2 == {3, 5, 6, 7, 9, 11, 12, 13}
             q3 == {4, 6, 7, 8, 10, 12, 13, 14}
             q4 == {5, 7, 8, 9, 11, 13, 14, 15}
             q5 == {0, 5, 6, 8, 9, 10, 14, 15}
             q6 == {0, 1, 5, 6, 7, 9, 10, 11, 12, 15}
             q7 == {0, 1, 2, 5, 6, 7, 8, 10, 11, 13}
             q8 == {1, 2, 3, 6, 7, 8, 9, 11, 12, 14}
  <2>1. c[3] = slowByte(r, b)
    BY <1>3, <1>6 DEF NineDigits
  <2>2. /\ r \in Word /\ b \in Byte /\ q0 \in Word /\ q1 \in Word /\ q2 \in Word /\ q3 \in Word
        /\ q4 \in Word /\ q5 \in Word /\ q6 \in Word /\ q7 \in Word /\ q8 \in Word
    BY DEF Word, Byte
  <2>3. BringTo(r, b, q0) /\ StepTo(q0, q1) /\ StepTo(q1, q2) /\ StepTo(q2, q3)
    BY DEF BringTo, StepTo
  <2>4. StepTo(q3, q4) /\ StepTo(q4, q5) /\ StepTo(q5, q6) /\ StepTo(q6, q7) /\ StepTo(q7, q8)
    BY DEF StepTo
  <2> HIDE DEF r, b, q0, q1, q2, q3, q4, q5, q6, q7, q8
  <2>5. slowByte(r, b) = Divide(q0)
    BY <2>2, <2>3, BringIs DEF slowByte, WIDTH
  <2>6. /\ Shift(q0) = q1 /\ Shift(q1) = q2 /\ Shift(q2) = q3 /\ Shift(q3) = q4
        /\ Shift(q4) = q5 /\ Shift(q5) = q6 /\ Shift(q6) = q7 /\ Shift(q7) = q8
    BY <2>2, <2>3, <2>4, ShiftIs
  <2>7. Divide(q0) = q8
    BY <2>6, DivideUnrolled, Zenon
  <2> QED BY <2>1, <2>5, <2>7 DEF q8
<1>8. c[4] = {0, 3, 6, 8, 9, 12, 14}
  <2> DEFINE b == {2, 4, 5}
             r == {1, 2, 3, 6, 7, 8, 9, 11, 12, 14}
             q0 == {1, 2, 3, 6, 7, 8, 9, 10, 11, 13, 14}
             q1 == {2, 3, 4, 7, 8, 9, 10, 11, 12, 14, 15}
             q2 == {0, 3, 4, 8, 9, 10, 11, 13, 15}
             q3 == {0, 1, 4, 9, 10, 11, 14}
             q4 == {1, 2, 5, 10, 11, 12, 15}
             q5 == {0, 2, 3, 5, 6, 11, 13}
             q6 == {1, 3, 4, 6, 7, 12, 14}
             q7 == {2, 4, 5, 7, 8, 13, 15}
             q8 == {0, 3, 6, 8, 9, 12, 14}
  <2>1. c[4] = slowByte(r, b)
    BY <1>3, <1>7 DEF NineDigits
  <2>2. /\ r \in Word /\ b \in Byte /\ q0 \in Word /\ q1 \in Word /\ q2 \in Word /\ q3 \in Word
        /\ q4 \in Word /\ q5 \in Word /\ q6 \in Word /\ q7 \in Word /\ q8 \in Word
    BY DEF Word, Byte
  <2>3. BringTo(r, b, q0) /\ StepTo(q0, q1) /\ StepTo(q1, q2) /\ StepTo(q2, q3)
    BY DEF BringTo, StepTo
  <2>4. StepTo(q3, q4) /\ StepTo(q4, q5) /\ StepTo(q5, q6) /\ StepTo(q6, q7) /\ StepTo(q7, q8)
    BY DEF StepTo
  <2> HIDE DEF r, b, q0, q1, q2, q3, q4, q5, q6, q7, q8
  <2>5. slowByte(r, b) = Divide(q0)
    BY <2>2, <2>3, BringIs DEF slowByte, WIDTH
  <2>6. /\ Shift(q0) = q1 /\ Shift(q1) = q2 /\ Shift(q2) = q3 /\ Shift(q3) = q4
        /\ Shift(q4) = q5 /\ Shift(q5) = q6 /\ Shift(q6) = q7 /\ Shift(q7) = q8
    BY <2>2, <2>3, <2>4, ShiftIs
  <2>7. Divide(q0) = q8
    BY <2>6, DivideUnrolled, Zenon
  <2> QED BY <2>1, <2>5, <2>7 DEF q8
<1>9. c[5] = {5, 6, 8, 10, 14}
  <2> DEFINE b == {0, 2, 4, 5}
             r == {0, 3, 6, 8, 9, 12, 14}
             q0 == {0, 3, 6, 9, 10, 13, 14}
             q1 == {1, 4, 7, 10, 11, 14, 15}
             q2 == {0, 2, 8, 11, 15}
             q3 == {0, 1, 3, 5, 9}
             q4 == {1, 2, 4, 6, 10}
             q5 == {2, 3, 5, 7, 11}
             q6 == {3, 4, 6, 8, 12}
             q7 == {4, 5, 7, 9, 13}
             q8 == {5, 6, 8, 10, 14}
  <2>1. c[5] = slowByte(r, b)
    BY <1>3, <1>8 DEF NineDigits
  <2>2. /\ r \in Word /\ b \in Byte /\ q0 \in Word /\ q1 \in Word /\ q2 \in Word /\ q3 \in Word
        /\ q4 \in Word /\ q5 \in Word /\ q6 \in Word /\ q7 \in Word /\ q8 \in Word
    BY DEF Word, Byte
  <2>3. BringTo(r, b, q0) /\ StepTo(q0, q1) /\ StepTo(q1, q2) /\ StepTo(q2, q3)
    BY DEF BringTo, StepTo
  <2>4. StepTo(q3, q4) /\ StepTo(q4, q5) /\ StepTo(q5, q6) /\ StepTo(q6, q7) /\ StepTo(q7, q8)
    BY DEF StepTo
  <2> HIDE DEF r, b, q0, q1, q2, q3, q4, q5, q6, q7, q8
  <2>5. slowByte(r, b) = Divide(q0)
    BY <2>2, <2>3, BringIs DEF slowByte, WIDTH
  <2>6. /\ Shift(q0) = q1 /\ Shift(q1) = q2 /\ Shift(q2) = q3 /\ Shift(q3) = q4
        /\ Shift(q4) = q5 /\ Shift(q5) = q6 /\ Shift(q6) = q7 /\ Shift(q7) = q8
    BY <2>2, <2>3, <2>4, ShiftIs
  <2>7. Divide(q0) = q8
    BY <2>6, DivideUnrolled, Zenon
  <2> QED BY <2>1, <2>5, <2>7 DEF q8
<1>10. c[6] = {2, 4, 5, 6, 7, 9, 10, 11, 13}
  <2> DEFINE b == {1, 2, 4, 5}
             r == {5, 6, 8, 10, 14}
             q0 == {5, 6, 8, 9, 12, 13, 14}
             q1 == {6, 7, 9, 10, 13, 14, 15}
             q2 == {0, 5, 7, 8, 10, 11, 12, 14, 15}
             q3 == {0, 1, 5, 6, 8, 9, 11, 13, 15}
             q4 == {0, 1, 2, 5, 6, 7, 9, 10, 14}
             q5 == {1, 2, 3, 6, 7, 8, 10, 11, 15}
             q6 == {0, 2, 3, 4, 5, 7, 8, 9, 11}
             q7 == {1, 3, 4, 5, 6, 8, 9, 10, 12}
             q8 == {2, 4, 5, 6, 7, 9, 10, 11, 13}
  <2>1. c[6] = slowByte(r, b)
    BY <1>3, <1>9 DEF NineDigits
  <2>2. /\ r \in Word /\ b \in Byte /\ q0 \in Word /\ q1 \in Word /\ q2 \in Word /\ q3 \in Word
        /\ q4 \in Word /\ q5 \in Word /\ q6 \in Word /\ q7 \in Word /\ q8 \in Word
    BY DEF Word, Byte
  <2>3. BringTo(r, b, q0) /\ StepTo(q0, q1) /\ StepTo(q1, q2) /\ StepTo(q2, q3)
    BY DEF BringTo, StepTo
  <2>4. StepTo(q3, q4) /\ StepTo(q4, q5) /\ StepTo(q5, q6) /\ StepTo(q6, q7) /\ StepTo(q7, q8)
    BY DEF StepTo
  <2> HIDE DEF r, b, q0, q1, q2, q3, q4, q5, q6, q7, q8
  <2>5. slowByte(r, b) = Divide(q0)
    BY <2>2, <2>3, BringIs DEF slowByte, WIDTH
  <2>6. /\ Shift(q0) = q1 /\ Shift(q1) = q2 /\ Shift(q2) = q3 /\ Shift(q3) = q4
        /\ Shift(q4) = q5 /\ Shift(q5) = q6 /\ Shift(q6) = q7 /\ Shift(q7) = q8
    BY <2>2, <2>3, <2>4, ShiftIs
  <2>7. Divide(q0) = q8
    BY <2>6, DivideUnrolled, Zenon
  <2> QED BY <2>1, <2>5, <2>7 DEF q8
<1>11. c[7] = {3, 4, 8, 9, 10, 12, 13, 14}
  <2> DEFINE b == {0, 1, 2, 4, 5}
             r == {2, 4, 5, 6, 7, 9, 10, 11, 13}
             q0 == {2, 4, 5, 6, 7, 8, 11, 12}
             q1 == {3, 5, 6, 7, 8, 9, 12, 13}
             q2 == {4, 6, 7, 8, 9, 10, 13, 14}
             q3 == {5, 7, 8, 9, 10, 11, 14, 15}
             q4 == {0, 5, 6, 8, 9, 10, 11, 15}
             q5 == {0, 1, 5, 6, 7, 9, 10, 11}
             q6 == {1, 2, 6, 7, 8, 10, 11, 12}
             q7 == {2, 3, 7, 8, 9, 11, 12, 13}
             q8 == {3, 4, 8, 9, 10, 12, 13, 14}
  <2>1. c[7] = slowByte(r, b)
    BY <1>3, <1>10 DEF NineDigits
  <2>2. /\ r \in Word /\ b \in Byte /\ q0 \in Word /\ q1 \in Word /\ q2 \in Word /\ q3 \in Word
        /\ q4 \in Word /\ q5 \in Word /\ q6 \in Word /\ q7 \in Word /\ q8 \in Word
    BY DEF Word, Byte
  <2>3. BringTo(r, b, q0) /\ StepTo(q0, q1) /\ StepTo(q1, q2) /\ StepTo(q2, q3)
    BY DEF BringTo, StepTo
  <2>4. StepTo(q3, q4) /\ StepTo(q4, q5) /\ StepTo(q5, q6) /\ StepTo(q6, q7) /\ StepTo(q7, q8)
    BY DEF StepTo
  <2> HIDE DEF r, b, q0, q1, q2, q3, q4, q5, q6, q7, q8
  <2>5. slowByte(r, b) = Divide(q0)
    BY <2>2, <2>3, BringIs DEF slowByte, WIDTH
  <2>6. /\ Shift(q0) = q1 /\ Shift(q1) = q2 /\ Shift(q2) = q3 /\ Shift(q3) = q4
        /\ Shift(q4) = q5 /\ Shift(q5) = q6 /\ Shift(q6) = q7 /\ Shift(q7) = q8
    BY <2>2, <2>3, <2>4, ShiftIs
  <2>7. Divide(q0) = q8
    BY <2>6, DivideUnrolled, Zenon
  <2> QED BY <2>1, <2>5, <2>7 DEF q8
<1>12. c[8] = {0, 1, 3, 5, 8, 13, 15}
  <2> DEFINE b == {3, 4, 5}
             r == {3, 4, 8, 9, 10, 12, 13, 14}
             q0 == {3, 4, 8, 9, 10, 11, 14}
             q1 == {4, 5, 9, 10, 11, 12, 15}
             q2 == {0, 6, 10, 11, 13}
             q3 == {1, 7, 11, 12, 14}
             q4 == {2, 8, 12, 13, 15}
             q5 == {0, 3, 5, 9, 12, 13, 14}
             q6 == {1, 4, 6, 10, 13, 14, 15}
             q7 == {0, 2, 7, 11, 12, 14, 15}
             q8 == {0, 1, 3, 5, 8, 13, 15}
  <2>1. c[8] = slowByte(r, b)
    BY <1>3, <1>11 DEF NineDigits
  <2>2. /\ r \in Word /\ b \in Byte /\ q0 \in Word /\ q1 \in Word /\ q2 \in Word /\ q3 \in Word
        /\ q4 \in Word /\ q5 \in Word /\ q6 \in Word /\ q7 \in Word /\ q8 \in Word
    BY DEF Word, Byte
  <2>3. BringTo(r, b, q0) /\ StepTo(q0, q1) /\ StepTo(q1, q2) /\ StepTo(q2, q3)
    BY DEF BringTo, StepTo
  <2>4. StepTo(q3, q4) /\ StepTo(q4, q5) /\ StepTo(q5, q6) /\ StepTo(q6, q7) /\ StepTo(q7, q8)
    BY DEF StepTo
  <2> HIDE DEF r, b, q0, q1, q2, q3, q4, q5, q6, q7, q8
  <2>5. slowByte(r, b) = Divide(q0)
    BY <2>2, <2>3, BringIs DEF slowByte, WIDTH
  <2>6. /\ Shift(q0) = q1 /\ Shift(q1) = q2 /\ Shift(q2) = q3 /\ Shift(q3) = q4
        /\ Shift(q4) = q5 /\ Shift(q5) = q6 /\ Shift(q6) = q7 /\ Shift(q7) = q8
    BY <2>2, <2>3, <2>4, ShiftIs
  <2>7. Divide(q0) = q8
    BY <2>6, DivideUnrolled, Zenon
  <2> QED BY <2>1, <2>5, <2>7 DEF q8
<1>13. c[9] = {0, 4, 5, 7, 8, 11, 13}
  <2> DEFINE b == {0, 3, 4, 5}
             r == {0, 1, 3, 5, 8, 13, 15}
             q0 == {0, 1, 3, 5, 11, 12, 15}
             q1 == {0, 1, 2, 4, 5, 6, 13}
             q2 == {1, 2, 3, 5, 6, 7, 14}
             q3 == {2, 3, 4, 6, 7, 8, 15}
             q4 == {0, 3, 4, 7, 8, 9, 12}
             q5 == {1, 4, 5, 8, 9, 10, 13}
             q6 == {2, 5, 6, 9, 10, 11, 14}
             q7 == {3, 6, 7, 10, 11, 12, 15}
             q8 == {0, 4, 5, 7, 8, 11, 13}
  <2>1. c[9] = slowByte(r, b)
    BY <1>3, <1>12 DEF NineDigits
  <2>2. /\ r \in Word /\ b \in Byte /\ q0 \in Word /\ q1 \in Word /\ q2 \in Word /\ q3 \in Word
        /\ q4 \in Word /\ q5 \in Word /\ q6 \in Word /\ q7 \in Word /\ q8 \in Word
    BY DEF Word, Byte
  <2>3. BringTo(r, b, q0) /\ StepTo(q0, q1) /\ StepTo(q1, q2) /\ StepTo(q2, q3)
    BY DEF BringTo, StepTo
  <2>4. StepTo(q3, q4) /\ StepTo(q4, q5) /\ StepTo(q5, q6) /\ StepTo(q6, q7) /\ StepTo(q7, q8)
    BY DEF StepTo
  <2> HIDE DEF r, b, q0, q1, q2, q3, q4, q5, q6, q7, q8
  <2>5. slowByte(r, b) = Divide(q0)
    BY <2>2, <2>3, BringIs DEF slowByte, WIDTH
  <2>6. /\ Shift(q0) = q1 /\ Shift(q1) = q2 /\ Shift(q2) = q3 /\ Shift(q3) = q4
        /\ Shift(q4) = q5 /\ Shift(q5) = q6 /\ Shift(q6) = q7 /\ Shift(q7) = q8
    BY <2>2, <2>3, <2>4, ShiftIs
  <2>7. Divide(q0) = q8
    BY <2>6, DivideUnrolled, Zenon
  <2> QED BY <2>1, <2>5, <2>7 DEF q8
<1> QED BY <1>2, <1>13 DEF CHECK_VALUE

-----------------------------------------------------------------------------
(* What noise does to the CRC *)

\* A bit is inverted at the place of bit b of byte i when the noise has it.
LEMMA PlaceFacts ==
  ASSUME NEW e \in Seq(Byte)
  PROVE  /\ Inverted(e) \subseteq 1 .. 8 * Len(e)
         /\ \A i \in 1 .. Len(e), b \in 0 .. 7 : 8 * i - b \in Inverted(e) <=> b \in e[i]
<1>1. Len(e) \in Nat /\ DOMAIN e = 1 .. Len(e) /\ \A i \in 1 .. Len(e) : e[i] \subseteq 0 .. 7
  BY DEF Byte
<1>2. ASSUME NEW x
      PROVE  x \in Inverted(e) <=> \E i \in 1 .. Len(e) : \E b \in e[i] : x = 8 * i - b
  BY <1>1 DEF Inverted
<1>3. ASSUME NEW x \in Inverted(e) PROVE x \in 1 .. 8 * Len(e)
  <2>0. PICK i \in 1 .. Len(e) : \E b \in e[i] : x = 8 * i - b
    BY <1>2
  <2>1. PICK b \in e[i] : x = 8 * i - b
    BY <2>0
  <2>2. b \in 0 .. 7
    BY <1>1
  <2> QED BY <1>1, <2>1, <2>2
<1>4. ASSUME NEW i \in 1 .. Len(e), NEW b \in 0 .. 7, 8 * i - b \in Inverted(e) PROVE b \in e[i]
  <2>0. PICK j \in 1 .. Len(e) : \E d \in e[j] : 8 * i - b = 8 * j - d
    BY <1>2, <1>4
  <2>1. PICK d \in e[j] : 8 * i - b = 8 * j - d
    BY <2>0
  <2>2. d \in 0 .. 7
    BY <1>1
  <2>3. i = j /\ b = d
    BY <1>1, <2>1, <2>2
  <2> QED BY <2>3
<1>5. ASSUME NEW i \in 1 .. Len(e), NEW b \in 0 .. 7, b \in e[i] PROVE 8 * i - b \in Inverted(e)
  BY <1>2, <1>5
<1> QED BY <1>3, <1>4, <1>5

\* The division is linear in the remainder and the byte together.
LEMMA SlowLinear ==
  ASSUME NEW r \in Word, NEW q \in Word, NEW b \in Byte, NEW e \in Byte
  PROVE  /\ SymDiff(b, e) \in Byte
         /\ SymDiff(slowByte(r, b), slowByte(q, SymDiff(b, e))) = slowByte(SymDiff(r, q), e)
<1> DEFINE d == SymDiff(b, e)
           x == SymDiff(r, Left(b, 8))
           y == SymDiff(q, Left(d, 8))
           z == SymDiff(SymDiff(r, q), Left(e, 8))
<1>1. d \in Byte /\ \A k \in 0 .. 7 : k \in d <=> ~(k \in b <=> k \in e)
  BY DEF SymDiff, Byte
<1> HIDE DEF d
<1>2. b \in Word /\ e \in Word /\ d \in Word
  BY <1>1 DEF Byte, Word
<1>3. /\ Left(b, 8) \in Word /\ Left(e, 8) \in Word /\ Left(d, 8) \in Word
      /\ \A k \in 0 .. 15 : /\ k \in Left(b, 8) <=> k >= 8 /\ k - 8 \in b
                            /\ k \in Left(e, 8) <=> k >= 8 /\ k - 8 \in e
                            /\ k \in Left(d, 8) <=> k >= 8 /\ k - 8 \in d
  BY <1>2, LeftFacts
<1>4. SymDiff(r, q) \in Word
  BY XorBits
<1>5. x \in Word /\ y \in Word /\ z \in Word
  BY <1>3, <1>4, XorBits
<1>6. SymDiff(x, y) = z
  <2>1. ASSUME NEW k \in 0 .. 15 PROVE k \in SymDiff(x, y) <=> k \in z
    <3>1. k \in Left(d, 8) <=> ~(k \in Left(b, 8) <=> k \in Left(e, 8))
      <4>1. CASE k >= 8
        <5>1. k - 8 \in 0 .. 7
          BY <4>1
        <5> QED BY <1>1, <1>3, <4>1, <5>1
      <4>2. CASE ~(k >= 8)
        BY <1>3, <4>2
      <4> QED BY <4>1, <4>2
    <3>2. /\ k \in x <=> ~(k \in r <=> k \in Left(b, 8))
          /\ k \in y <=> ~(k \in q <=> k \in Left(d, 8))
          /\ k \in SymDiff(r, q) <=> ~(k \in r <=> k \in q)
      BY <1>3, XorBits
    <3>3. k \in z <=> ~(k \in SymDiff(r, q) <=> k \in Left(e, 8))
      BY <1>3, <1>4, XorBits
    <3> HIDE DEF x, y, z
    <3>4. k \in SymDiff(x, y) <=> ~(k \in x <=> k \in y)
      BY <1>5, XorBits
    <3> QED BY <3>1, <3>2, <3>3, <3>4, Zenon
  <2> HIDE DEF x, y, z
  <2>2. SymDiff(x, y) \in Word
    BY <1>5, XorBits
  <2> QED BY <1>5, <2>1, <2>2, SameBits
<1>7. /\ slowByte(r, b) = Divide(x) /\ slowByte(q, d) = Divide(y)
      /\ slowByte(SymDiff(r, q), e) = Divide(z)
  BY DEF slowByte, WIDTH
<1> HIDE DEF x, y, z
<1>8. Divide(SymDiff(x, y)) = SymDiff(Divide(x), Divide(y))
  BY <1>5, DivideLinear
<1>9. SymDiff(slowByte(r, b), slowByte(q, d)) = slowByte(SymDiff(r, q), e)
  BY <1>6, <1>7, <1>8
<1> QED BY <1>1, <1>9 DEF d

\* The CRCs of a message and of the disturbed one differ by the remainder of the
\* noise alone.
LEMMA Difference ==
  ASSUME NEW s \in Seq(Byte), NEW e \in Seq(Byte), Len(s) = Len(e),
         NEW w, BitRun(Inverted(e), w), \A t \in Nat : w[t] \in Word
  PROVE  /\ Disturbed(s, e) \in Seq(Byte)
         /\ SymDiff(crcSlow(s), crcSlow(Disturbed(s, e))) = w[8 * Len(s)]
<1> DEFINE n == Len(s)
           m == Disturbed(s, e)
<1>1. n \in Nat /\ \A i \in 1 .. n : s[i] \in Byte /\ e[i] \in Byte
  OBVIOUS
<1>2. m \in Seq(Byte) /\ Len(m) = n /\ \A i \in 1 .. n : m[i] = SymDiff(s[i], e[i])
  <2>1. ASSUME NEW i \in 1 .. n PROVE SymDiff(s[i], e[i]) \in Byte
    BY <1>1 DEF SymDiff, Byte
  <2>2. m = [i \in 1 .. n |-> SymDiff(s[i], e[i])]
    BY DEF Disturbed
  <2> QED BY <1>1, <2>1, <2>2
<1>3. PICK c : SlowRun(s, c) /\ crcSlow(s) = c[n]
  BY SlowSteps
<1>4. PICK d : SlowRun(m, d) /\ crcSlow(m) = d[n]
  BY <1>2, SlowSteps
<1>5. \A k \in 0 .. n : c[k] \in Word /\ d[k] \in Word
  BY <1>2, <1>3, <1>4, RunTyped
<1> HIDE DEF m
<1> DEFINE P == {k \in Nat : k <= n => SymDiff(c[k], d[k]) = w[8 * k]}
<1>6. 0 \in P
  <2>1. c[0] = d[0] /\ w[0] = {} /\ 8 * 0 = 0
    BY <1>3, <1>4 DEF SlowRun, BitRun
  <2> QED BY <2>1 DEF SymDiff
<1>7. ASSUME NEW k \in P PROVE k + 1 \in P
  <2>1. ASSUME k + 1 <= n PROVE SymDiff(c[k + 1], d[k + 1]) = w[8 * (k + 1)]
    <3> DEFINE i == k + 1
               r == SymDiff(c[k], d[k])
               v == [j \in 0 .. 8 |-> w[8 * k + j]]
    <3>1. i \in 1 .. n /\ i - 1 = k /\ k \in Nat /\ k \in 0 .. n
      BY <1>1, <2>1
    <3>2. /\ c[i] = slowByte(c[k], s[i]) /\ d[i] = slowByte(d[k], m[i])
          /\ m[i] = SymDiff(s[i], e[i]) /\ s[i] \in Byte /\ e[i] \in Byte
          /\ c[k] \in Word /\ d[k] \in Word
      BY <1>1, <1>2, <1>3, <1>4, <1>5, <3>1 DEF SlowRun
    <3>3. r = w[8 * k] /\ r \in Word
      BY <2>1, <3>1
    <3> HIDE DEF i, r
    <3>4. SymDiff(c[i], d[i]) = slowByte(r, e[i])
      BY <3>2, SlowLinear DEF r
    <3>5. v[0] = r
      BY <3>1, <3>3
    <3>6. ASSUME NEW j \in 0 .. 7 PROVE v[j + 1] = BitStep(v[j], 7 - j \in e[i])
      <4> DEFINE t == 8 * k + j
      <4>1. t \in Nat /\ t + 1 = 8 * i - (7 - j) /\ 7 - j \in 0 .. 7
        BY <3>1 DEF i
      <4>2. v[j] = w[t] /\ v[j + 1] = w[t + 1]
        <5>1. j \in 0 .. 8 /\ j + 1 \in 0 .. 8 /\ 8 * k + (j + 1) = t + 1
          BY <3>1
        <5> QED BY <5>1
      <4> HIDE DEF t, v
      <4>3. w[t + 1] = BitStep(w[t], t + 1 \in Inverted(e))
        BY <4>1 DEF BitRun
      <4>4. t + 1 \in Inverted(e) <=> 7 - j \in e[i]
        BY <3>1, <4>1, PlaceFacts
      <4> QED BY <4>2, <4>3, <4>4 DEF BitStep
    <3>7. v[8] = w[8 * i]
      BY <3>1 DEF i
    <3> HIDE DEF v
    <3>8. slowByte(r, e[i]) = v[8]
      BY <3>2, <3>3, <3>5, <3>6, ByteIsBits, Zenon
    <3> QED BY <3>4, <3>7, <3>8 DEF i
  <2> QED BY <2>1
<1>8. P = Nat
  <2>1. P \subseteq Nat
    OBVIOUS
  <2> HIDE DEF P
  <2> QED BY <1>6, <1>7, <2>1, SetInduction
<1>9. SymDiff(c[n], d[n]) = w[8 * n]
  <2>1. n \in P
    BY <1>1, <1>8, Zenon
  <2>2. n <= n
    BY <1>1
  <2> HIDE DEF n
  <2> QED BY <2>1, <2>2
<1> QED BY <1>2, <1>3, <1>4, <1>9 DEF m

\* Whatever the message, noise within 16 consecutive bits changes its CRC
\* (crc.c:211-233, used by I2CProtocol.c:27-33).
THEOREM EveryBurstIsDetected ==
  \A s, e \in Seq(Byte) :
     Len(s) = Len(e) /\ IsBurst(e) => crcFast(Disturbed(s, e)) # crcFast(s)
<1> SUFFICES ASSUME NEW s \in Seq(Byte), NEW e \in Seq(Byte), Len(s) = Len(e), IsBurst(e)
             PROVE  crcFast(Disturbed(s, e)) # crcFast(s)
  OBVIOUS
<1> DEFINE I == Inverted(e)
<1>1. I \subseteq 1 .. 8 * Len(e) /\ Len(s) \in Nat
  BY PlaceFacts
<1>2. PICK f \in I : I \subseteq f .. f + 15
  BY <1>1 DEF IsBurst, WIDTH
<1>3. PICK w : BitRun(I, w) /\ \A t \in Nat : w[t] \in Word
  BY BitRunExists
<1> HIDE DEF I
<1>4. I \in SUBSET (Nat \ {0}) /\ 8 * Len(s) \in Nat /\ 8 * Len(s) >= f
  BY <1>1, <1>2
<1>5. w[8 * Len(s)] # {}
  BY <1>2, <1>3, <1>4, BurstRemains
<1>6. /\ Disturbed(s, e) \in Seq(Byte)
      /\ SymDiff(crcSlow(s), crcSlow(Disturbed(s, e))) # {}
  BY <1>3, <1>5, Difference DEF I
<1>7. crcSlow(s) # crcSlow(Disturbed(s, e))
  BY <1>6 DEF SymDiff
<1>8. crcFast(s) = crcSlow(s) /\ crcFast(Disturbed(s, e)) = crcSlow(Disturbed(s, e))
  BY <1>6, FastIsDivision
<1> QED BY <1>7, <1>8

-----------------------------------------------------------------------------
(* The frames *)

FrameType == message \in Seq(Byte) /\ noise \in Seq(Byte) /\ Len(message) = Len(noise)

\* A frame and its noise are bytes, and equally many.
LEMMA FramesTyped == FrameSpec => []FrameType
<1>1. FrameInit => FrameType
  BY DEF FrameInit, FrameType
<1>2. FrameType /\ [FrameNext]_frameVars => FrameType'
  <2> SUFFICES ASSUME FrameType, [FrameNext]_frameVars PROVE FrameType'
    OBVIOUS
  <2>1. CASE UNCHANGED frameVars
    BY <2>1 DEF frameVars, FrameType
  <2>2. CASE message' = << >> /\ noise' = << >>
    BY <2>2 DEF FrameType
  <2>3. ASSUME NEW b \in Byte, NEW e \in Byte,
               message' = Append(message, b), noise' = Append(noise, e)
        PROVE  FrameType'
    BY <2>3 DEF FrameType
  <2>4. CASE FrameNext
    BY <2>2, <2>3, <2>4, FrameAssumption DEF FrameNext
  <2> QED BY <2>1, <2>4
<1> QED BY <1>1, <1>2, PTL DEF FrameSpec

\* crcFast agrees with crcSlow on every frame, and both give the check value of
\* crc.h for the digits 1 to 9 (crc.h:39, crc.c:95-233).
THEOREM CrcAlwaysDivides == FrameSpec => []CrcIsDivision
<1>1. NineDigits \in Seq(Byte)
  BY DEF NineDigits, Byte
<1>2. crcFast(NineDigits) = CHECK_VALUE
  BY <1>1, CheckDigits, FastIsDivision
<1>3. FrameType => CrcIsDivision
  BY <1>2, FastIsDivision DEF FrameType, CrcIsDivision
<1> QED BY <1>3, FramesTyped, PTL

\* No burst of up to 16 bits gets past the check of a frame
\* (I2CProtocol.c:27-33 and 103-116).
THEOREM BurstsAlwaysDetected == FrameSpec => []BurstsAreDetected
<1>1. FrameType => BurstsAreDetected
  BY EveryBurstIsDetected DEF FrameType, BurstsAreDetected
<1> QED BY <1>1, FramesTyped, PTL
=============================================================================

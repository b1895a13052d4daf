--------------------------- MODULE ArbiterProofs ---------------------------
(***************************************************************************)
(* The prefix network of soc_event_arbiter.sv computes a round robin, for  *)
(* every number of lines.                                                  *)
(***************************************************************************)
EXTENDS ArbiterUnit, CommonLemmas

-----------------------------------------------------------------------------
(* Powers of two *)

LEMMA Pow2Def ==
  /\ Pow2 \in [Nat -> Nat]
  /\ Pow2 = [i \in Nat |-> IF i = 0 THEN 1 ELSE 2 * Pow2[i - 1]]
<1> DEFINE G == [x \in Nat \X Nat |-> 2 * x[1]]
<1>1. G \in [Nat \X Nat -> Nat]
  OBVIOUS
<1>2. PICK f : Solves(Nat, 1, G, f)
  <2> HIDE DEF G
  <2> QED BY <1>1, Recursion
<1>3. f = [i \in Nat |-> IF i = 0 THEN 1 ELSE 2 * f[i - 1]]
  <2>1. ASSUME NEW i \in Nat, i # 0 PROVE f[i] = 2 * f[i - 1]
    <3>1. i - 1 \in Nat /\ (i - 1) + 1 = i
      BY <2>1
    <3>2. f[i] = G[<<f[i - 1], i>>] /\ f[i - 1] \in Nat
      BY <1>2, <3>1 DEF Solves
    <3> QED BY <3>1, <3>2
  <2> QED BY <1>2, <2>1 DEF Solves
<1>4. Pow2 = [i \in Nat |-> IF i = 0 THEN 1 ELSE 2 * Pow2[i - 1]]
  BY <1>3 DEF Pow2
<1>5. ASSUME NEW i \in Nat PROVE Pow2[i] \in Nat
  <2> DEFINE P == {i_1 \in Nat : Pow2[i_1] \in Nat}
  <2>1. 0 \in P
    BY <1>4
  <2>2. ASSUME NEW k \in P PROVE k + 1 \in P
    BY <1>4
  <2>3. P \subseteq Nat
    OBVIOUS
  <2>4. P = Nat
    <3> HIDE DEF P
    <3> QED BY <2>1, <2>2, <2>3, SetInduction
  <2> QED BY <2>4
<1> QED BY <1>4, <1>5

LEMMA Pow2Step ==
  /\ Pow2[0] = 1
  /\ \A i \in Nat : Pow2[i] \in Nat /\ Pow2[i + 1] = 2 * Pow2[i]
<1>1. Pow2[0] = 1
  BY Pow2Def
<1>2. ASSUME NEW i \in Nat PROVE Pow2[i] \in Nat /\ Pow2[i + 1] = 2 * Pow2[i]
  BY Pow2Def
<1> QED BY <1>1, <1>2

\* A power of two exceeds its exponent.
LEMMA Pow2Large == \A i \in Nat : Pow2[i] > i
<1> DEFINE P == {i \in Nat : Pow2[i] > i}
<1>1. 0 \in P
  BY Pow2Step
<1>2. ASSUME NEW k \in P PROVE k + 1 \in P
  <2>1. Pow2[k] \in Nat /\ Pow2[k + 1] = 2 * Pow2[k] /\ Pow2[k] > k /\ k \in Nat
    BY Pow2Step
  <2> QED BY <2>1
<1>3. P \subseteq Nat
  OBVIOUS
<1>4. P = Nat
  <2> HIDE DEF P
  <2> QED BY <1>1, <1>2, <1>3, SetInduction
<1> QED BY <1>4

\* S = $clog2(EVNT_NUM): the last distance does not go all the way round, and
\* twice that distance does.
LEMMA Clog2Facts ==
  ASSUME NEW n \in Nat, n >= 2
  PROVE  /\ Clog2(n) \in Nat /\ Clog2(n) >= 1
         /\ Pow2[Clog2(n) - 1] < n
         /\ 2 * Pow2[Clog2(n) - 1] >= n
<1> DEFINE T == {s \in 0 .. n : Pow2[s] >= n}
           R == {p \in Nat \X Nat : p[1] < p[2]}
<1>1. \E s \in 0 .. n : Pow2[s] >= n /\ \A t \in 0 .. s - 1 : Pow2[t] < n
  <2>1. T # {} /\ T \subseteq Nat
    <3>1. n \in 0 .. n /\ Pow2[n] >= n
      BY Pow2Large, Pow2Step
    <3> QED BY <3>1
  <2>2. IsWellFoundedOn(R, Nat)
    <3>1. R = OpToRel(<, Nat)
      BY DEF OpToRel
    <3> QED BY <3>1, NatLessThanWellFounded
  <2>3. PICK s \in T : \A y \in T : ~(<<y, s>> \in R)
    BY <2>1, <2>2, WFMin
  <2>4. ASSUME NEW t \in 0 .. s - 1 PROVE Pow2[t] < n
    <3>1. t \in 0 .. n /\ <<t, s>> \in R /\ t \in Nat
      BY <2>1, <2>3
    <3>2. ~(Pow2[t] >= n)
      BY <2>3, <3>1
    <3> QED BY <3>1, <3>2, Pow2Step
  <2> QED BY <2>3, <2>4
<1> DEFINE c == Clog2(n)
<1>2. c \in 0 .. n /\ Pow2[c] >= n /\ \A t \in 0 .. c - 1 : Pow2[t] < n
  BY <1>1 DEF Clog2
<1> HIDE DEF c
<1>3. c # 0
  BY <1>2, Pow2Step
<1>4. c - 1 \in 0 .. c - 1 /\ c - 1 \in Nat /\ (c - 1) + 1 = c
  BY <1>2, <1>3
<1>5. Pow2[c] = 2 * Pow2[c - 1] /\ Pow2[c - 1] < n
  BY <1>2, <1>4, Pow2Step
<1>6. c \in Nat /\ c >= 1 /\ Pow2[c - 1] < n /\ 2 * Pow2[c - 1] >= n
  BY <1>2, <1>3, <1>5
<1> QED BY <1>6 DEF c

-----------------------------------------------------------------------------
(* Going round the vector *)

LEMMA DivMod ==
  ASSUME NEW n \in Nat \ {0}, NEW x \in Int
  PROVE  x \div n \in Int /\ x % n \in 0 .. n - 1 /\ x = n * (x \div n) + (x % n)
  OBVIOUS

LEMMA ModUnique ==
  ASSUME NEW n \in Nat \ {0}, NEW x \in Int, NEW q \in Int, NEW r \in 0 .. n - 1,
         x = n * q + r
  PROVE  x % n = r
<1> DEFINE m == x % n
           d == x \div n
<1>1. d \in Int /\ m \in 0 .. n - 1 /\ x = n * d + m
  OBVIOUS
<1> HIDE DEF m, d
<1>2. CASE q - d >= 1
  <2>1. n * (q - d) >= n * 1
    BY <1>1, <1>2
  <2> QED BY <1>1, <2>1
<1>3. CASE q - d <= -1
  <2>1. n * (q - d) <= n * (-1)
    BY <1>1, <1>3
  <2> QED BY <1>1, <2>1
<1>4. CASE q = d
  <2>1. n * q = n * d /\ n * d \in Int
    BY <1>1, <1>4
  <2>2. m = r
    BY <1>1, <2>1
  <2> QED BY <2>2 DEF m
<1>5. q - d >= 1 \/ q - d <= -1 \/ q = d
  BY <1>1
<1> QED BY <1>2, <1>3, <1>4, <1>5

LEMMA BackType ==
  ASSUME NEW n \in Nat \ {0}, NEW j \in Int, NEW a \in Int
  PROVE  Back(n, j, a) \in Lines(n)
<1>1. j - a \in Int
  OBVIOUS
<1> QED BY <1>1 DEF Back, Lines

\* Two jumps back are one.
LEMMA BackBack ==
  ASSUME NEW n \in Nat \ {0}, NEW j \in Int, NEW a \in Int, NEW b \in Int
  PROVE  Back(n, Back(n, j, a), b) = Back(n, j, a + b)
<1> DEFINE u == (j - a) % n
           v == (j - a) \div n
           w == (u - b) % n
           z == (u - b) \div n
<1>1. v \in Int /\ u \in 0 .. n - 1 /\ j - a = n * v + u
  <2>1. j - a \in Int
    OBVIOUS
  <2> QED BY <2>1
<1>2. z \in Int /\ w \in 0 .. n - 1 /\ u - b = n * z + w
  <2> HIDE DEF u, v
  <2>1. u - b \in Int
    BY <1>1
  <2> QED BY <2>1
<1>3. Back(n, Back(n, j, a), b) = w
  BY DEF Back
<1> HIDE DEF u, v, w, z
<1>4. n * (v + z) = n * v + n * z /\ n * v \in Int /\ n * z \in Int
  BY <1>1, <1>2
<1>5. j - (a + b) = n * (v + z) + w
  BY <1>1, <1>2, <1>4
<1>6. (j - (a + b)) % n = w
  <2>1. v + z \in Int /\ j - (a + b) \in Int
    BY <1>1, <1>2
  <2> QED BY <1>2, <1>5, <2>1, ModUnique
<1> QED BY <1>3, <1>6 DEF Back

\* No step, and a full turn, end where they began.
LEMMA BackHome ==
  ASSUME NEW n \in Nat \ {0}, NEW j \in Lines(n)
  PROVE  Back(n, j, 0) = j /\ Back(n, j, n) = j
<1>1. j \in 0 .. n - 1
  BY DEF Lines
<1>2. j - 0 = n * 0 + j /\ j - n = n * (-1) + j
  BY <1>1
<1>3. (j - 0) % n = j
  BY <1>1, <1>2, ModUnique
<1>4. (j - n) % n = j
  BY <1>1, <1>2, ModUnique
<1> QED BY <1>3, <1>4 DEF Back

\* The line Distance positions back is the priority position, and no other
\* line within one turn is.
LEMMA BackDistance ==
  ASSUME NEW n \in Nat \ {0}, NEW j \in Lines(n), NEW k \in Lines(n)
  PROVE  /\ Distance(n, k, j) \in 0 .. n - 1
         /\ Back(n, j, Distance(n, k, j)) = k
         /\ \A d \in 0 .. n - 1 : Back(n, j, d) = k => d = Distance(n, k, j)
<1>1. j \in 0 .. n - 1 /\ k \in 0 .. n - 1
  BY DEF Lines
<1>2. Distance(n, k, j) = IF j >= k THEN j - k ELSE j - k + n
  <2>1. CASE j >= k
    <3>1. j - k = n * 0 + (j - k)
      BY <1>1
    <3>2. j - k \in 0 .. n - 1 /\ j - k \in Int
      BY <1>1, <2>1
    <3>3. (j - k) % n = j - k
      BY <3>1, <3>2, ModUnique
    <3> QED BY <2>1, <3>3 DEF Distance
  <2>2. CASE ~(j >= k)
    <3>1. j - k = n * (-1) + (j - k + n)
      BY <1>1
    <3>2. j - k + n \in 0 .. n - 1 /\ j - k \in Int
      BY <1>1, <2>2
    <3>3. (j - k) % n = j - k + n
      BY <3>1, <3>2, ModUnique
    <3> QED BY <2>2, <3>3 DEF Distance
  <2> QED BY <2>1, <2>2
<1>3. ASSUME NEW d \in 0 .. n - 1
      PROVE  Back(n, j, d) = IF j >= d THEN j - d ELSE j - d + n
  <2>1. CASE j >= d
    <3>1. j - d = n * 0 + (j - d)
      BY <1>1
    <3>2. j - d \in 0 .. n - 1 /\ j - d \in Int
      BY <1>1, <2>1
    <3>3. (j - d) % n = j - d
      BY <3>1, <3>2, ModUnique
    <3> QED BY <2>1, <3>3 DEF Back
  <2>2. CASE ~(j >= d)
    <3>1. j - d = n * (-1) + (j - d + n)
      BY <1>1
    <3>2. j - d + n \in 0 .. n - 1 /\ j - d \in Int
      BY <1>1, <2>2
    <3>3. (j - d) % n = j - d + n
      BY <3>1, <3>2, ModUnique
    <3> QED BY <2>2, <3>3 DEF Back
  <2> QED BY <2>1, <2>2
<1> DEFINE dist == Distance(n, k, j)
<1>4. dist \in 0 .. n - 1
  BY <1>1, <1>2
<1> HIDE DEF dist
<1>5. Back(n, j, dist) = k
  BY <1>1, <1>2, <1>3, <1>4 DEF dist
<1>6. ASSUME NEW d \in 0 .. n - 1, Back(n, j, d) = k PROVE d = dist
  BY <1>1, <1>2, <1>3, <1>6 DEF dist
<1> QED BY <1>4, <1>5, <1>6 DEF dist


\* Lines at the same distance are the same line.
LEMMA SameDistance ==
  ASSUME NEW n \in Nat \ {0}, NEW h \in Lines(n), NEW j \in Lines(n), NEW k \in Lines(n),
         Distance(n, k, h) = Distance(n, k, j)
  PROVE  h = j
<1> DEFINE v == (h - k) \div n
           w == (j - k) \div n
           r == (h - k) % n
<1>1. h \in 0 .. n - 1 /\ j \in 0 .. n - 1 /\ k \in 0 .. n - 1
  BY DEF Lines
<1>2. h - k \in Int /\ j - k \in Int
  BY <1>1
<1>3. v \in Int /\ w \in Int /\ r \in 0 .. n - 1 /\ h - k = n * v + r
  BY <1>2, DivMod
<1>4. j - k = n * w + r
  BY <1>2, DivMod DEF Distance
<1> HIDE DEF v, w, r
<1>5. CASE v - w >= 1
  <2>1. n * (v - w) >= n * 1
    BY <1>3, <1>5
  <2> QED BY <1>1, <1>3, <1>4, <2>1
<1>6. CASE v - w <= -1
  <2>1. n * (v - w) <= n * (-1)
    BY <1>3, <1>6
  <2> QED BY <1>1, <1>3, <1>4, <2>1
<1>7. CASE v = w
  BY <1>1, <1>3, <1>4, <1>7
<1>8. v - w >= 1 \/ v - w <= -1 \/ v = w
  BY <1>3
<1> QED BY <1>5, <1>6, <1>7, <1>8

\* A line that is closer to k than j is met on the way from j back to k.
LEMMA OnTheWay ==
  ASSUME NEW n \in Nat \ {0}, NEW h \in Lines(n), NEW j \in Lines(n), NEW k \in Lines(n),
         Distance(n, k, h) <= Distance(n, k, j)
  PROVE  Back(n, j, Distance(n, k, j) - Distance(n, k, h)) = h
<1> DEFINE dj == Distance(n, k, j)
           dh == Distance(n, k, h)
           x == Back(n, j, dj - dh)
<1>1. dj \in 0 .. n - 1 /\ dh \in 0 .. n - 1 /\ Back(n, j, dj) = k /\ dh <= dj
  BY BackDistance
<1> HIDE DEF dj, dh
<1>2. j \in Int /\ dj - dh \in Int /\ dh \in Int /\ (dj - dh) + dh = dj
  BY <1>1 DEF Lines
<1>3. x \in Lines(n)
  BY <1>2, BackType
<1>4. Back(n, x, dh) = k
  <2>1. Back(n, Back(n, j, dj - dh), dh) = Back(n, j, (dj - dh) + dh)
    BY ONLY n \in Nat \ {0}, <1>2, BackBack
  <2> QED BY <1>1, <1>2, <2>1
<1> HIDE DEF x
<1>5. Distance(n, k, x) = dh
  BY <1>1, <1>3, <1>4, BackDistance
<1>6. x = h
  BY <1>3, <1>5, SameDistance DEF dh
<1> QED BY <1>6 DEF x, dj, dh

-----------------------------------------------------------------------------
(* The levels of the network.  After level i, p says that the 2^i          *)
(* predecessors of a line are idle, and g that the priority bit is reached *)
(* over idle lines within 2^i positions.                                   *)

\* The m lines before j do not request.
Quiet(n, req, j, m) == \A e \in 1 .. m : Back(n, j, e) \notin req

\* The priority bit is fewer than m positions back, over lines that do not
\* request.
Reached(n, req, prio, j, m) ==
    \E d \in 0 .. m - 1 : Back(n, j, d) \in prio /\ Quiet(n, req, j, d)

Level(n, req, prio, m) == [p |-> {j \in Lines(n) : Quiet(n, req, j, m)},
                           g |-> {j \in Lines(n) : Reached(n, req, prio, j, m)}]

LevelType(n) == [p : SUBSET Lines(n), g : SUBSET Lines(n)]

LEMMA NextLevelType ==
  ASSUME NEW n, NEW up \in LevelType(n), NEW dist
  PROVE  NextLevel(n, up, dist) \in LevelType(n)
  BY DEF NextLevel, LevelType

\* L holds the levels of the network.
Unfolds(n, req, prio, L) ==
    /\ L \in [Nat -> LevelType(n)]
    /\ L[0] = [p |-> {j \in Lines(n) : Back(n, j, 1) \notin req}, g |-> prio]
    /\ \A i \in Nat : L[i + 1] = NextLevel(n, L[i], Pow2[i])

\* The recursion of the network is well defined.
LEMMA LevelsDef ==
  ASSUME NEW n \in Nat \ {0}, NEW req \in SUBSET Lines(n), NEW prio \in SUBSET Lines(n)
  PROVE  Unfolds(n, req, prio, Levels(n, req, prio))
<1> DEFINE a == [p |-> {j \in Lines(n) : Back(n, j, 1) \notin req}, g |-> prio]
           S == LevelType(n)
           G == [x \in S \X Nat |-> NextLevel(n, x[1], Pow2[x[2] - 1])]
           L == Levels(n, req, prio)
<1>1. a \in S
  BY DEF LevelType
<1>2. G \in [S \X Nat -> S]
  BY NextLevelType
<1>3. PICK f : Solves(S, a, G, f)
  <2> HIDE DEF G, a, S
  <2> QED BY <1>1, <1>2, Recursion
<1>4. f \in [Nat -> S] /\ f[0] = a
  BY <1>3 DEF Solves
<1>5. ASSUME NEW i \in Nat PROVE f[i + 1] = NextLevel(n, f[i], Pow2[i])
  <2>1. <<f[i], i + 1>> \in S \X Nat /\ (i + 1) - 1 = i
    BY <1>4
  <2>2. f[i + 1] = G[<<f[i], i + 1>>]
    BY <1>3 DEF Solves
  <2>3. G[<<f[i], i + 1>>] = NextLevel(n, f[i], Pow2[(i + 1) - 1])
    BY <2>1
  <2> QED BY <2>1, <2>2, <2>3
<1> HIDE DEF a, S, G
<1>6. f = [i \in Nat |-> IF i = 0 THEN a ELSE NextLevel(n, f[i - 1], Pow2[i - 1])]
  <2>1. ASSUME NEW i \in Nat, i # 0 PROVE f[i] = NextLevel(n, f[i - 1], Pow2[i - 1])
    <3>1. i - 1 \in Nat /\ (i - 1) + 1 = i
      BY <2>1
    <3> QED BY <1>5, <3>1
  <2> QED BY <1>4, <2>1
<1>7. L = CHOOSE h : h = [i \in Nat |-> IF i = 0 THEN a ELSE NextLevel(n, h[i - 1], Pow2[i - 1])]
  BY Zenon DEF Levels, a
<1>8. L = [i \in Nat |-> IF i = 0 THEN a ELSE NextLevel(n, L[i - 1], Pow2[i - 1])]
  <2> HIDE DEF L
  <2> QED BY <1>6, <1>7
<1> HIDE DEF L
<1>9. L[0] = a
  BY <1>8
<1>10. ASSUME NEW i \in Nat PROVE L[i + 1] = NextLevel(n, L[i], Pow2[i])
  <2>1. i + 1 \in Nat /\ i + 1 # 0 /\ (i + 1) - 1 = i
    OBVIOUS
  <2> QED BY <1>8, <2>1
<1>11. L \in [Nat -> S]
  <2> DEFINE P == {i \in Nat : L[i] \in S}
  <2>1. 0 \in P
    BY <1>1, <1>9
  <2>2. ASSUME NEW i \in P PROVE i + 1 \in P
    BY <1>10, NextLevelType DEF S
  <2>3. P \subseteq Nat
    OBVIOUS
  <2>4. P = Nat
    <3> HIDE DEF P
    <3> QED BY <2>1, <2>2, <2>3, SetInduction
  <2> QED BY <1>8, <2>4
<1>12. Unfolds(n, req, prio, L)
  BY <1>9, <1>10, <1>11 DEF Unfolds, a, S
<1> QED BY <1>12 DEF L


\* Two quiet stretches in a row are one.
LEMMA QuietJoin ==
  ASSUME NEW n \in Nat \ {0}, NEW req, NEW j \in Lines(n), NEW a \in Nat, NEW b \in Nat
  PROVE  Quiet(n, req, j, a + b) <=>
            Quiet(n, req, j, a) /\ Quiet(n, req, Back(n, j, a), b)
<1>1. ASSUME NEW e \in 1 .. b PROVE Back(n, Back(n, j, a), e) = Back(n, j, a + e)
  BY BackBack DEF Lines
<1>2. ASSUME Quiet(n, req, j, a + b)
      PROVE  Quiet(n, req, j, a) /\ Quiet(n, req, Back(n, j, a), b)
  <2>1. ASSUME NEW e \in 1 .. a PROVE Back(n, j, e) \notin req
    BY <1>2 DEF Quiet
  <2>2. ASSUME NEW e \in 1 .. b PROVE Back(n, Back(n, j, a), e) \notin req
    <3>1. a + e \in 1 .. a + b
      OBVIOUS
    <3> QED BY <1>1, <1>2, <3>1 DEF Quiet
  <2> QED BY <2>1, <2>2 DEF Quiet
<1>3. ASSUME Quiet(n, req, j, a), Quiet(n, req, Back(n, j, a), b)
      PROVE  Quiet(n, req, j, a + b)
  <2>1. ASSUME NEW e \in 1 .. a + b PROVE Back(n, j, e) \notin req
    <3>1. CASE e <= a
      BY <1>3, <3>1 DEF Quiet
    <3>2. CASE e > a
      <4>1. e - a \in 1 .. b /\ a + (e - a) = e
        BY <3>2
      <4> QED BY <1>1, <1>3, <4>1 DEF Quiet
    <3> QED BY <3>1, <3>2
  <2> QED BY <2>1 DEF Quiet
<1> QED BY <1>2, <1>3

\* What one more level adds: distances m .. 2m - 1.
LEMMA ReachedJoin ==
  ASSUME NEW n \in Nat \ {0}, NEW req, NEW prio, NEW j \in Lines(n), NEW m \in Nat
  PROVE  Reached(n, req, prio, j, 2 * m) <=>
            \/ Reached(n, req, prio, j, m)
            \/ Quiet(n, req, j, m) /\ Reached(n, req, prio, Back(n, j, m), m)
<1>1. ASSUME NEW d \in Nat
      PROVE  /\ Back(n, Back(n, j, m), d) = Back(n, j, m + d)
             /\ Quiet(n, req, j, m + d) <=>
                  Quiet(n, req, j, m) /\ Quiet(n, req, Back(n, j, m), d)
  <2>1. j \in Int /\ m \in Int /\ d \in Int
    BY DEF Lines
  <2>2. Back(n, Back(n, j, m), d) = Back(n, j, m + d)
    BY ONLY n \in Nat \ {0}, <2>1, BackBack
  <2>3. Quiet(n, req, j, m + d) <=>
            Quiet(n, req, j, m) /\ Quiet(n, req, Back(n, j, m), d)
    BY QuietJoin
  <2> QED BY <2>2, <2>3
<1>2. ASSUME Reached(n, req, prio, j, m) PROVE Reached(n, req, prio, j, 2 * m)
  BY <1>2 DEF Reached
<1>3. ASSUME Quiet(n, req, j, m), Reached(n, req, prio, Back(n, j, m), m)
      PROVE  Reached(n, req, prio, j, 2 * m)
  <2>1. PICK d \in 0 .. m - 1 : /\ Back(n, Back(n, j, m), d) \in prio
                                /\ Quiet(n, req, Back(n, j, m), d)
    BY <1>3 DEF Reached
  <2>2. d \in Nat /\ m + d \in 0 .. 2 * m - 1
    OBVIOUS
  <2>3. Back(n, j, m + d) \in prio /\ Quiet(n, req, j, m + d)
    BY <1>1, <1>3, <2>1, <2>2
  <2> QED BY <2>2, <2>3 DEF Reached
<1>4. ASSUME Reached(n, req, prio, j, 2 * m), ~Reached(n, req, prio, j, m)
      PROVE  Quiet(n, req, j, m) /\ Reached(n, req, prio, Back(n, j, m), m)
  <2>1. PICK d \in 0 .. 2 * m - 1 : Back(n, j, d) \in prio /\ Quiet(n, req, j, d)
    BY <1>4 DEF Reached
  <2>2. d >= m
    BY <1>4, <2>1 DEF Reached
  <2>3. d - m \in 0 .. m - 1 /\ d - m \in Nat /\ m + (d - m) = d
    BY <2>2
  <2>4. /\ Back(n, Back(n, j, m), d - m) \in prio
        /\ Quiet(n, req, j, m) /\ Quiet(n, req, Back(n, j, m), d - m)
    BY <1>1, <2>1, <2>3
  <2> QED BY <2>3, <2>4 DEF Reached
<1> QED BY <1>2, <1>3, <1>4

\* The meaning of the propagate and generate bits of level i.
LEMMA LevelMeaning ==
  ASSUME NEW n \in Nat \ {0}, NEW req \in SUBSET Lines(n), NEW prio \in SUBSET Lines(n),
         NEW i \in Nat
  PROVE  Levels(n, req, prio)[i] = Level(n, req, prio, Pow2[i])
<1> DEFINE L == Levels(n, req, prio)
           M(x) == [p |-> {j \in Lines(n) : Quiet(n, req, j, Pow2[x])},
                    g |-> {j \in Lines(n) : Reached(n, req, prio, j, Pow2[x])}]
           P == {x \in Nat : L[x] = M(x)}
<1>0. Unfolds(n, req, prio, L)
  BY LevelsDef
<1> HIDE DEF L
<1>1. 0 \in P
  <2>1. L[0] = [p |-> {j \in Lines(n) : Back(n, j, 1) \notin req}, g |-> prio]
    BY <1>0 DEF Unfolds
  <2>2. ASSUME NEW j \in Lines(n)
        PROVE  /\ Quiet(n, req, j, Pow2[0]) <=> Back(n, j, 1) \notin req
               /\ Reached(n, req, prio, j, Pow2[0]) <=> j \in prio
    <3>1. Quiet(n, req, j, 1) <=> Back(n, j, 1) \notin req
      BY DEF Quiet
    <3>2. Quiet(n, req, j, 0)
      BY DEF Quiet
    <3>3. Reached(n, req, prio, j, 1) <=> Back(n, j, 0) \in prio
      BY <3>2 DEF Reached
    <3> QED BY <3>1, <3>3, BackHome, Pow2Step
  <2> QED BY <2>1, <2>2
<1>2. ASSUME NEW x \in P PROVE x + 1 \in P
  <2>1. L[x + 1] = NextLevel(n, M(x), Pow2[x])
    <3>1. x \in Nat /\ L[x] = M(x)
      OBVIOUS
    <3>2. L[x + 1] = NextLevel(n, L[x], Pow2[x])
      BY <1>0, <3>1 DEF Unfolds
    <3> HIDE DEF M, P
    <3> QED BY <3>1, <3>2
  <2>2. Pow2[x] \in Nat /\ Pow2[x + 1] = 2 * Pow2[x] /\ 2 * Pow2[x] = Pow2[x] + Pow2[x]
    BY Pow2Step
  <2>3. ASSUME NEW j \in Lines(n)
        PROVE  /\ Back(n, j, Pow2[x]) \in Lines(n)
               /\ Quiet(n, req, j, Pow2[x + 1]) <=>
                     Quiet(n, req, j, Pow2[x]) /\ Quiet(n, req, Back(n, j, Pow2[x]), Pow2[x])
               /\ Reached(n, req, prio, j, Pow2[x + 1]) <=>
                     \/ Reached(n, req, prio, j, Pow2[x])
                     \/ /\ Quiet(n, req, j, Pow2[x])
                        /\ Reached(n, req, prio, Back(n, j, Pow2[x]), Pow2[x])
    <3> DEFINE m == Pow2[x]
    <3>1. m \in Nat /\ Pow2[x + 1] = 2 * m /\ Pow2[x + 1] = m + m
      BY <2>2
    <3> HIDE DEF m
    <3>2. Back(n, j, m) \in Lines(n)
      <4>1. j \in Int /\ m \in Int
        BY <3>1 DEF Lines
      <4> QED BY ONLY n \in Nat \ {0}, <4>1, BackType
    <3>3. Quiet(n, req, j, m + m) <=>
              Quiet(n, req, j, m) /\ Quiet(n, req, Back(n, j, m), m)
      BY <3>1, QuietJoin
    <3>4. Reached(n, req, prio, j, 2 * m) <=>
              \/ Reached(n, req, prio, j, m)
              \/ Quiet(n, req, j, m) /\ Reached(n, req, prio, Back(n, j, m), m)
      BY <3>1, ReachedJoin
    <3>5. /\ Quiet(n, req, j, Pow2[x + 1]) <=>
                Quiet(n, req, j, m) /\ Quiet(n, req, Back(n, j, m), m)
          /\ Reached(n, req, prio, j, Pow2[x + 1]) <=>
                \/ Reached(n, req, prio, j, m)
                \/ Quiet(n, req, j, m) /\ Reached(n, req, prio, Back(n, j, m), m)
      BY <3>1, <3>3, <3>4
    <3> QED BY <3>2, <3>5 DEF m
  <2>4. NextLevel(n, M(x), Pow2[x]).p = {j \in Lines(n) : Quiet(n, req, j, Pow2[x + 1])}
    BY <2>3 DEF NextLevel
  <2>5. NextLevel(n, M(x), Pow2[x]).g =
            {j \in Lines(n) : Reached(n, req, prio, j, Pow2[x + 1])}
    BY <2>3 DEF NextLevel
  <2>6. NextLevel(n, M(x), Pow2[x]) = M(x + 1)
    BY <2>4, <2>5 DEF NextLevel
  <2> QED BY <2>1, <2>6
<1>3. P \subseteq Nat
  OBVIOUS
<1>4. P = Nat
  <2> HIDE DEF P
  <2> QED BY <1>1, <1>2, <1>3, SetInduction
<1> QED BY <1>4 DEF L, Level


-----------------------------------------------------------------------------
(* The outputs of the arbiter *)

(***************************************************************************)
(* soc_event_arbiter.sv:46-77: with the priority bit on line k, the prefix *)
(* network grants the first requesting line at or after k, for every       *)
(* number of lines, powers of two or not.                                  *)
(***************************************************************************)
THEOREM NetworkIsRoundRobin ==
  ASSUME NEW n \in Nat, n >= 2, NEW req \in SUBSET Lines(n), NEW k \in Lines(n)
  PROVE  Grant(n, req, {k}) = RoundRobin(n, req, k)
<1> DEFINE c == Clog2(n) - 1
           m == Pow2[c]
           up == Level(n, req, {k}, m)
<1>1. c \in Nat /\ m \in Nat /\ 2 * m >= n /\ n \in Nat \ {0}
  BY Clog2Facts, Pow2Step
<1> HIDE DEF c
<1>2. Prefix(n, req, {k}) = up
  <2>1. {k} \in SUBSET Lines(n)
    OBVIOUS
  <2>2. Levels(n, req, {k})[c] = up
    BY <1>1, <2>1, LevelMeaning
  <2> QED BY <2>2 DEF Prefix, c
<1> HIDE DEF m
<1>3. Grant(n, req, {k}) = req \cap NextLevel(n, up, m).g
  BY <1>2 DEF Grant, c, m
<1>4. ASSUME NEW j \in Lines(n)
      PROVE  j \in NextLevel(n, up, m).g <=> Reached(n, req, {k}, j, 2 * m)
  <2>1. Back(n, j, m) \in Lines(n)
    <3>1. j \in Int /\ m \in Int
      BY <1>1 DEF Lines
    <3> QED BY <1>1, <3>1, BackType
  <2>2. Reached(n, req, {k}, j, 2 * m) <=>
            \/ Reached(n, req, {k}, j, m)
            \/ Quiet(n, req, j, m) /\ Reached(n, req, {k}, Back(n, j, m), m)
    BY <1>1, ReachedJoin
  <2> QED BY <2>1, <2>2 DEF NextLevel, Level
<1>5. ASSUME NEW j \in req
      PROVE  Reached(n, req, {k}, j, 2 * m) <=> Quiet(n, req, j, Distance(n, k, j))
  <2> DEFINE d == Distance(n, k, j)
  <2>1. j \in Lines(n)
    OBVIOUS
  <2>2. /\ d \in 0 .. n - 1 /\ Back(n, j, d) = k
        /\ \A e \in 0 .. n - 1 : Back(n, j, e) = k => e = d
    BY <1>1, <2>1, BackDistance
  <2> HIDE DEF d
  <2>3. ASSUME Quiet(n, req, j, d) PROVE Reached(n, req, {k}, j, 2 * m)
    <3>1. d \in 0 .. 2 * m - 1
      BY <1>1, <2>2
    <3> QED BY <2>2, <2>3, <3>1 DEF Reached
  <2>4. ASSUME Reached(n, req, {k}, j, 2 * m) PROVE Quiet(n, req, j, d)
    <3>1. PICK e \in 0 .. 2 * m - 1 : Back(n, j, e) = k /\ Quiet(n, req, j, e)
      BY <2>4 DEF Reached
    <3>2. e < n
      <4> SUFFICES ASSUME e >= n PROVE FALSE
        BY <1>1
      <4>1. n \in 1 .. e
        BY <1>1
      <4>2. Back(n, j, n) = j
        BY <1>1, <2>1, BackHome
      <4> QED BY <3>1, <4>1, <4>2 DEF Quiet
    <3>3. e = d
      BY <1>1, <2>2, <3>1, <3>2
    <3> QED BY <3>1, <3>3
  <2> QED BY <2>3, <2>4 DEF d
<1>6. ASSUME NEW j \in req
      PROVE  Quiet(n, req, j, Distance(n, k, j)) <=>
                \A h \in req : Distance(n, k, j) <= Distance(n, k, h)
  <2> DEFINE d(x) == Distance(n, k, x)
  <2>1. ASSUME NEW x \in Lines(n)
        PROVE  /\ d(x) \in 0 .. n - 1 /\ Back(n, x, d(x)) = k
               /\ \A e \in 0 .. n - 1 : Back(n, x, e) = k => e = d(x)
    BY <1>1, BackDistance
  <2>2. j \in Lines(n) /\ j \in Int /\ n \in Int
    BY DEF Lines
  <2>3. ASSUME NEW h \in req, d(h) <= d(j) PROVE Back(n, j, d(j) - d(h)) = h
    BY <1>1, <2>3, OnTheWay
  <2> HIDE DEF d
  \* The line e before j, within the way to k, is closer to k by e.
  <2>4. ASSUME NEW e \in 1 .. d(j) PROVE d(Back(n, j, e)) = d(j) - e
    <3>1. d(j) \in 0 .. n - 1 /\ e \in Int /\ d(j) - e \in 0 .. n - 1 /\ e + (d(j) - e) = d(j)
      BY <1>1, <2>1, <2>2
    <3>2. Back(n, j, e) \in Lines(n)
      BY <1>1, <2>2, <3>1, BackType
    <3>3. Back(n, Back(n, j, e), d(j) - e) = Back(n, j, e + (d(j) - e))
      <4>1. d(j) - e \in Int
        BY <3>1
      <4> QED BY <1>1, <2>2, <3>1, <4>1, BackBack
    <3>4. Back(n, Back(n, j, e), d(j) - e) = k
      BY <2>1, <2>2, <3>1, <3>3
    <3> QED BY <2>1, <3>1, <3>2, <3>4
  <2>5. ASSUME \A h \in req : d(j) <= d(h) PROVE Quiet(n, req, j, d(j))
    <3>1. ASSUME NEW e \in 1 .. d(j) PROVE Back(n, j, e) \notin req
      <4>1. d(Back(n, j, e)) = d(j) - e /\ d(j) \in Int /\ e \in Int /\ e > 0
        BY <1>1, <2>1, <2>2, <2>4
      <4> QED BY <2>5, <4>1
    <3> QED BY <3>1 DEF Quiet
  <2>6. ASSUME Quiet(n, req, j, d(j)), NEW h \in req PROVE d(j) <= d(h)
    <3> SUFFICES ASSUME d(h) < d(j) PROVE FALSE
      BY <1>1, <2>1, <2>2
    <3>1. d(j) \in 0 .. n - 1 /\ d(h) \in 0 .. n - 1
      BY <2>1, <2>2
    <3>2. d(j) - d(h) \in 1 .. d(j) /\ d(h) <= d(j)
      BY <1>1, <3>1
    <3> QED BY <2>3, <2>6, <3>2 DEF Quiet
  <2> QED BY <2>5, <2>6 DEF d
<1>7. ASSUME NEW j \in req
      PROVE  j \in NextLevel(n, up, m).g <=>
                \A h \in req : Distance(n, k, j) <= Distance(n, k, h)
  <2>1. j \in Lines(n)
    OBVIOUS
  <2> HIDE DEF up
  <2> QED BY <1>4, <1>5, <1>6, <2>1
<1> HIDE DEF up
<1> QED BY <1>3, <1>7 DEF RoundRobin


\* A non-empty set of requests has one that comes first.
LEMMA FirstRequest ==
  ASSUME NEW n \in Nat, n >= 2, NEW req \in SUBSET Lines(n), NEW k \in Lines(n)
  PROVE  /\ req = {} => RoundRobin(n, req, k) = {}
         /\ req # {} => \E j \in req : RoundRobin(n, req, k) = {j}
<1>1. req = {} => RoundRobin(n, req, k) = {}
  BY DEF RoundRobin
<1>2. ASSUME req # {} PROVE \E j \in req : RoundRobin(n, req, k) = {j}
  <2> DEFINE T == {Distance(n, k, j) : j \in req}
             R == {p \in Nat \X Nat : p[1] < p[2]}
  <2>1. ASSUME NEW j \in req PROVE Distance(n, k, j) \in 0 .. n - 1
    BY BackDistance
  <2>2. T \subseteq Nat /\ T # {}
    BY <1>2, <2>1
  <2>3. IsWellFoundedOn(R, Nat)
    <3>1. R = OpToRel(<, Nat)
      BY DEF OpToRel
    <3> QED BY <3>1, NatLessThanWellFounded
  <2>4. PICK x \in T : \A y \in T : ~(<<y, x>> \in R)
    BY <2>2, <2>3, WFMin
  <2>5. PICK j \in req : x = Distance(n, k, j)
    BY <2>4
  <2>6. ASSUME NEW h \in req PROVE Distance(n, k, j) <= Distance(n, k, h)
    <3>1. Distance(n, k, h) \in T /\ ~(<<Distance(n, k, h), x>> \in R)
      BY <2>4
    <3>2. Distance(n, k, h) \in Nat /\ Distance(n, k, j) \in Nat
      BY <2>1
    <3> QED BY <2>5, <3>1, <3>2
  <2>7. ASSUME NEW h \in RoundRobin(n, req, k) PROVE h = j
    <3>1. h \in req /\ Distance(n, k, h) <= Distance(n, k, j)
      BY <2>7 DEF RoundRobin
    <3>2. Distance(n, k, h) = Distance(n, k, j)
      BY <2>1, <2>6, <3>1
    <3> QED BY <3>1, <3>2, SameDistance
  <2>8. j \in RoundRobin(n, req, k)
    BY <2>6 DEF RoundRobin
  <2> QED BY <2>7, <2>8
<1> QED BY <1>1, <1>2

(***************************************************************************)
(* soc_event_arbiter.sv:74: the two propagate bits of anyGrant_o see every *)
(* line between them, so it is set exactly when some line requests.        *)
(***************************************************************************)
THEOREM AnyGrantSeesAll ==
  ASSUME NEW n \in Nat, n >= 2, NEW req \in SUBSET Lines(n), NEW prio \in SUBSET Lines(n)
  PROVE  AnyGrant(n, req, prio) <=> req # {}
<1> DEFINE c == Clog2(n) - 1
           m == Pow2[c]
           h == (n \div 2) - 1
<1>1. c \in Nat /\ m \in Nat /\ 2 * m >= n /\ n \in Nat \ {0}
  BY Clog2Facts, Pow2Step
<1> HIDE DEF c
<1>2. Prefix(n, req, prio) = Level(n, req, prio, m)
  BY <1>1, LevelMeaning DEF Prefix, c
<1> HIDE DEF m
<1>3. h \in 0 .. n - 1 /\ n - 1 \in 0 .. n - 1 /\ 2 * h + 3 >= n /\ 2 * h + 2 <= n
  OBVIOUS
<1>4. AnyGrant(n, req, prio) <=> ~(Quiet(n, req, n - 1, m) /\ Quiet(n, req, h, m))
  <2> HIDE DEF h
  <2>1. n - 1 \in Lines(n) /\ h \in Lines(n)
    BY <1>3 DEF Lines
  <2>2. AnyGrant(n, req, prio) <=>
            ~(n - 1 \in Level(n, req, prio, m).p /\ h \in Level(n, req, prio, m).p)
    BY <1>2 DEF AnyGrant, h
  <2> QED BY <2>1, <2>2 DEF Level
<1> HIDE DEF h
<1>5. ASSUME req = {} PROVE Quiet(n, req, n - 1, m) /\ Quiet(n, req, h, m)
  BY <1>5 DEF Quiet
<1>6. ASSUME NEW r \in req, Quiet(n, req, n - 1, m), Quiet(n, req, h, m) PROVE FALSE
  <2>1. r \in Lines(n) /\ r \in 0 .. n - 1
    BY DEF Lines
  <2>2. CASE r < n - 1 /\ r >= h
    <3> DEFINE e == n - 1 - r
    <3>1. e \in 1 .. m
      BY <1>1, <1>3, <2>1, <2>2
    <3>2. (n - 1) - e = n * 0 + r /\ (n - 1) - e \in Int
      BY <2>1
    <3>3. Back(n, n - 1, e) = r
      <4> HIDE DEF e
      <4> QED BY <1>1, <2>1, <3>2, ModUnique DEF Back
    <3> QED BY <1>6, <3>1, <3>3 DEF Quiet
  <2>3. CASE r < h
    <3> DEFINE e == h - r
    <3>1. e \in 1 .. m
      BY <1>1, <1>3, <2>1, <2>3
    <3>2. h - e = n * 0 + r /\ h - e \in Int
      BY <1>3, <2>1
    <3>3. Back(n, h, e) = r
      <4> HIDE DEF e
      <4> QED BY <1>1, <2>1, <3>2, ModUnique DEF Back
    <3> QED BY <1>6, <3>1, <3>3 DEF Quiet
  <2>4. CASE r = n - 1
    <3> DEFINE e == h + 1
    <3>1. e \in 1 .. m
      BY <1>1, <1>3, <2>1, <2>4
    <3>2. h - e = n * (-1) + r /\ h - e \in Int
      BY <1>3, <2>1, <2>4
    <3>3. Back(n, h, e) = r
      <4> HIDE DEF e
      <4> QED BY <1>1, <2>1, <3>2, ModUnique DEF Back
    <3> QED BY <1>6, <3>1, <3>3 DEF Quiet
  <2> QED BY <1>3, <2>1, <2>2, <2>3, <2>4
<1> QED BY <1>4, <1>5, <1>6


-----------------------------------------------------------------------------
(* The arbiter over time *)

ArbiterInv == /\ width \in Nat /\ width >= 2
              /\ req_i \in SUBSET Lines(width)
              /\ grant_ack_i \in BOOLEAN
              /\ \E k \in Lines(width) : pri = {k}

\* The priority bit moves behind the granted line, which keeps it one bit.
LEMMA RotateOne ==
  ASSUME NEW n \in Nat, n >= 2, NEW j \in Lines(n)
  PROVE  RotateLeft(n, {j}) = {(j + 1) % n} /\ (j + 1) % n \in Lines(n)
<1>1. j + 1 \in Int /\ n \in Nat \ {0}
  BY DEF Lines
<1>2. (j + 1) % n \in Lines(n)
  BY <1>1, DivMod DEF Lines
<1> QED BY <1>2 DEF RotateLeft

LEMMA ArbiterInvariance == ArbiterSpec => []ArbiterInv
<1>1. ArbiterInit => ArbiterInv
  BY MaxLinesAssumption DEF ArbiterInit, ArbiterInv, Lines
<1>2. ArbiterInv /\ [ArbiterNext]_arbiterVars => ArbiterInv'
  <2>1. ASSUME ArbiterInv, ArbiterNext PROVE ArbiterInv'
    <3>1. width' = width /\ req_i' \in SUBSET Lines(width) /\ grant_ack_i' \in BOOLEAN
      BY <2>1 DEF ArbiterInv, ArbiterNext
    <3>2. PICK k \in Lines(width) : pri = {k}
      BY <2>1 DEF ArbiterInv
    <3>3. pri' = NextPriority(width, req_i, pri, grant_ack_i)
      BY <2>1 DEF ArbiterNext
    <3>4. CASE AnyGrant(width, req_i, pri) /\ grant_ack_i
      <4>1. req_i # {}
        BY <2>1, <3>2, <3>4, AnyGrantSeesAll DEF ArbiterInv
      <4>2. PICK j \in req_i : RoundRobin(width, req_i, k) = {j}
        BY <2>1, <3>2, <4>1, FirstRequest DEF ArbiterInv
      <4>3. Grant(width, req_i, pri) = {j}
        BY <2>1, <3>2, <4>2, NetworkIsRoundRobin DEF ArbiterInv
      <4>4. pri' = RotateLeft(width, {j})
        BY <3>3, <3>4, <4>3 DEF NextPriority
      <4>5. pri' = {(j + 1) % width} /\ (j + 1) % width \in Lines(width)
        BY <2>1, <4>4, RotateOne DEF ArbiterInv
      <4> QED BY <2>1, <3>1, <4>5 DEF ArbiterInv
    <3>5. CASE ~(AnyGrant(width, req_i, pri) /\ grant_ack_i)
      BY <2>1, <3>1, <3>2, <3>3, <3>5 DEF ArbiterInv, NextPriority
    <3> QED BY <3>4, <3>5
  <2>2. ASSUME ArbiterInv, UNCHANGED arbiterVars PROVE ArbiterInv'
    BY <2>2 DEF ArbiterInv, arbiterVars
  <2> QED BY <2>1, <2>2
<1> QED BY <1>1, <1>2, PTL DEF ArbiterSpec

(***************************************************************************)
(* soc_event_arbiter.sv:46-103: in every cycle of the arbiter the priority *)
(* vector is one-hot and the grant is the round-robin choice.              *)
(***************************************************************************)
THEOREM RoundRobinAlways == ArbiterSpec => []GrantIsRoundRobin
<1>1. ArbiterInv => GrantIsRoundRobin
  <2> SUFFICES ASSUME ArbiterInv PROVE GrantIsRoundRobin
    OBVIOUS
  <2>1. PICK k \in Lines(width) : pri = {k}
    BY DEF ArbiterInv
  <2>2. granted = RoundRobin(width, req_i, k)
    BY <2>1, NetworkIsRoundRobin DEF ArbiterInv, granted
  <2> QED BY <2>1, <2>2 DEF GrantIsRoundRobin
<1> QED BY <1>1, ArbiterInvariance, PTL

\* soc_event_arbiter.sv:74: anyGrant_o is the disjunction of the requests.
THEOREM AnyGrantAlways == ArbiterSpec => []AnyGrantIsAnyRequest
<1>1. ArbiterInv => AnyGrantIsAnyRequest
  <2> SUFFICES ASSUME ArbiterInv PROVE AnyGrantIsAnyRequest
    OBVIOUS
  <2>1. pri \in SUBSET Lines(width)
    BY DEF ArbiterInv
  <2> QED BY <2>1, AnyGrantSeesAll DEF ArbiterInv, AnyGrantIsAnyRequest
<1> QED BY <1>1, ArbiterInvariance, PTL

\* A line behind the granted one loses the distance the priority bit makes.
LEMMA PassedOver ==
  ASSUME NEW n \in Nat, n >= 2, NEW req \in SUBSET Lines(n), NEW k \in Lines(n),
         NEW g \in req, RoundRobin(n, req, k) = {g}, NEW j \in req, j # g
  PROVE  Distance(n, (g + 1) % n, j) < Distance(n, k, j)
<1> DEFINE dj == Distance(n, k, j)
           dg == Distance(n, k, g)
           l == (g + 1) % n
           e == dj - dg - 1
<1>1. n \in Nat \ {0} /\ g \in Lines(n) /\ j \in Lines(n) /\ l \in Lines(n)
  <2>1. g \in Lines(n) /\ j \in Lines(n)
    OBVIOUS
  <2>2. (g + 1) % n \in Lines(n)
    BY ONLY n \in Nat, n >= 2, <2>1, RotateOne
  <2> QED BY <2>1, <2>2
<1>2. dj \in 0 .. n - 1 /\ dg \in 0 .. n - 1
  BY <1>1, BackDistance
<1>3. dg <= dj
  BY DEF RoundRobin
<1>4. dg # dj
  BY <1>1, SameDistance
<1>5. Back(n, j, dj - dg) = g
  BY <1>1, <1>3, OnTheWay
<1>6. l = Back(n, g, -1)
  <2>1. g - (-1) = g + 1
    BY <1>1 DEF Lines
  <2> QED BY <2>1 DEF Back
<1> HIDE DEF dj, dg, l
<1>7. e \in 0 .. n - 1 /\ e < dj /\ (dj - dg) + (-1) = e /\ dj - dg \in Int
  BY <1>2, <1>3, <1>4
<1>8. Back(n, j, e) = l
  <2>1. j \in Int /\ -1 \in Int
    BY <1>1 DEF Lines
  <2>2. Back(n, Back(n, j, dj - dg), -1) = Back(n, j, (dj - dg) + (-1))
    BY ONLY <1>1, <1>7, <2>1, BackBack
  <2> QED BY <1>5, <1>6, <1>7, <2>2
<1>9. e = Distance(n, l, j)
  BY <1>1, <1>7, <1>8, BackDistance
<1> QED BY <1>7, <1>9 DEF dj, l

(***************************************************************************)
(* soc_event_arbiter.sv:92-103: no starvation.  A request that is passed   *)
(* over by an acknowledged grant is closer to the priority bit afterwards. *)
(***************************************************************************)
THEOREM NoStarvation == ArbiterSpec => PassedOverGetsCloser
<1> DEFINE Closer ==
      \A k, l \in Lines(width), j \in req_i \ granted :
         grant_ack_i /\ pri = {k} /\ pri' = {l}
           => Distance(width, l, j) < Distance(width, k, j)
<1>1. ArbiterInv /\ [ArbiterNext]_arbiterVars => [Closer]_arbiterVars
  <2> SUFFICES ASSUME ArbiterInv, ArbiterNext,
                      NEW k \in Lines(width), NEW l \in Lines(width),
                      NEW j \in req_i \ granted,
                      grant_ack_i, pri = {k}, pri' = {l}
               PROVE  Distance(width, l, j) < Distance(width, k, j)
    OBVIOUS
  <2>1. width \in Nat /\ width >= 2 /\ req_i \in SUBSET Lines(width)
    BY DEF ArbiterInv
  <2>2. AnyGrant(width, req_i, pri)
    BY <2>1, AnyGrantSeesAll
  <2>3. PICK g \in req_i : RoundRobin(width, req_i, k) = {g}
    BY <2>1, FirstRequest
  <2>4. granted = {g}
    BY <2>1, <2>3, NetworkIsRoundRobin DEF granted
  <2>5. pri' = RotateLeft(width, {g})
    BY <2>2, <2>4 DEF ArbiterNext, NextPriority, granted
  <2>6. l = (g + 1) % width
    BY <2>1, <2>5, RotateOne
  <2> QED BY <2>1, <2>3, <2>4, <2>6, PassedOver
<1> QED BY <1>1, ArbiterInvariance, PTL DEF ArbiterSpec, PassedOverGetsCloser

=============================================================================

---------------------------- MODULE CommonLemmas ----------------------------
(***************************************************************************)
(* Facts that the proofs of several components use: one clock cycle of a   *)
(* bounded queue, element by element, which is what a ring buffer has to   *)
(* establish to be shown to take the steps of BoundedFifo, and induction   *)
(* and recursion over the naturals.                                        *)
(***************************************************************************)
EXTENDS Integers, Sequences, SequenceTheorems, WellFoundedInduction, TLAPS

(***************************************************************************)
(* t is s without its oldest word if `pops', and with d at its end if      *)
(* `pushes'.                                                               *)
(***************************************************************************)
Shifted(s, t, pushes, pops, d) ==
    LET drop == IF pops THEN 1 ELSE 0
        add  == IF pushes THEN 1 ELSE 0
    IN  /\ Len(t) = Len(s) - drop + add
        /\ \A i \in 1 .. Len(s) - drop : t[i] = s[i + drop]
        /\ pushes => t[Len(t)] = d

\* A sequence that is a shifted s is s after Tail and Append.
LEMMA ShiftedIsCycle ==
  ASSUME NEW S, NEW s \in Seq(S), NEW t \in Seq(S), NEW d \in S,
         NEW pushes \in BOOLEAN, NEW pops \in BOOLEAN,
         pops => s # << >>,
         Shifted(s, t, pushes, pops, d)
  PROVE  t = LET rest == IF pops THEN Tail(s) ELSE s
             IN  IF pushes THEN Append(rest, d) ELSE rest
<1> DEFINE drop == IF pops THEN 1 ELSE 0
           rest == IF pops THEN Tail(s) ELSE s
<1>1. /\ rest \in Seq(S)
      /\ Len(rest) = Len(s) - drop
      /\ \A i \in 1 .. Len(rest) : rest[i] = s[i + drop]
  <2>1. CASE pops
    BY <2>1, HeadTailProperties
  <2>2. CASE ~pops
    BY <2>2, LenProperties
  <2> QED BY <2>1, <2>2
<1>2. Len(s) \in Nat /\ Len(t) \in Nat /\ Len(rest) \in Nat
  BY <1>1, LenProperties
<1> HIDE DEF rest
<1>3. CASE pushes
  <2>1. /\ Append(rest, d) \in Seq(S)
        /\ Len(Append(rest, d)) = Len(rest) + 1
        /\ \A i \in 1 .. Len(rest) : Append(rest, d)[i] = rest[i]
        /\ Append(rest, d)[Len(rest) + 1] = d
    BY <1>1, AppendProperties
  <2>2. Len(t) = Len(rest) + 1
    BY <1>1, <1>2, <1>3 DEF Shifted
  <2>3. ASSUME NEW i \in 1 .. Len(t) PROVE t[i] = Append(rest, d)[i]
    <3>1. CASE i = Len(t)
      BY <1>3, <2>1, <2>2, <3>1 DEF Shifted
    <3>2. CASE i # Len(t)
      <4>1. i \in 1 .. Len(rest)
        BY <1>2, <2>2, <3>2
      <4>2. t[i] = s[i + drop]
        BY <1>1, <1>2, <4>1 DEF Shifted
      <4> QED BY <1>1, <2>1, <4>1, <4>2
    <3> QED BY <3>1, <3>2
  <2>4. t = Append(rest, d)
    BY <2>1, <2>2, <2>3, SeqEqual
  <2> QED BY <1>3, <2>4 DEF rest
<1>4. CASE ~pushes
  <2>1. Len(t) = Len(rest)
    BY <1>1, <1>2, <1>4 DEF Shifted
  <2>2. ASSUME NEW i \in 1 .. Len(t) PROVE t[i] = rest[i]
    BY <1>1, <1>2, <2>1 DEF Shifted
  <2>3. t = rest
    BY <1>1, <2>1, <2>2, SeqEqual
  <2> QED BY <1>4, <2>3 DEF rest
<1> QED BY <1>3, <1>4
-----------------------------------------------------------------------------
(* Induction and recursion over the naturals, in first-order form: a set   *)
(* in place of a predicate, a function in place of an operator.            *)

\* A set that holds 0 and is closed under successor is all of Nat.
LEMMA SetInduction ==
  ASSUME NEW P \in SUBSET Nat, 0 \in P, \A k \in P : k + 1 \in P
  PROVE  P = Nat
<1> DEFINE T == Nat \ P
           R == {p \in Nat \X Nat : p[1] < p[2]}
<1>1. IsWellFoundedOn(R, Nat)
  <2>1. R = OpToRel(<, Nat)
    BY DEF OpToRel
  <2> QED BY <2>1, NatLessThanWellFounded
<1>2. ASSUME T # {} PROVE FALSE
  <2>1. PICK x \in T : \A y \in T : ~(<<y, x>> \in R)
    BY <1>1, <1>2, WFMin
  <2>2. x \in Nat /\ x # 0
    BY <2>1
  <2>3. x - 1 \in Nat /\ <<x - 1, x>> \in R
    BY <2>2
  <2>4. x - 1 \in P
    BY <2>1, <2>3
  <2>5. (x - 1) + 1 \in P
    BY <2>4
  <2> QED BY <2>2, <2>5
<1> QED BY <1>2

\* f obeys the recursion with start a and step G up to m.
Obeys(S, a, G, m, f) ==
    /\ f \in [0 .. m -> S]
    /\ f[0] = a
    /\ \A i \in 1 .. m : f[i] = G[<<f[i - 1], i>>]

\* f obeys it for ever.
Solves(S, a, G, f) ==
    /\ f \in [Nat -> S]
    /\ f[0] = a
    /\ \A i \in Nat : f[i + 1] = G[<<f[i], i + 1>>]

\* A recursion over the naturals has a solution.
LEMMA Recursion ==
  ASSUME NEW S, NEW a \in S, NEW G \in [S \X Nat -> S]
  PROVE  \E f : Solves(S, a, G, f)
<1> DEFINE P == {m \in Nat : \E f : Obeys(S, a, G, m, f)}
<1>1. P = Nat
  <2>1. 0 \in P
    <3> DEFINE f == [i \in 0 .. 0 |-> a]
    <3>1. Obeys(S, a, G, 0, f)
      BY DEF Obeys
    <3> QED BY <3>1
  <2>2. ASSUME NEW k \in P PROVE k + 1 \in P
    <3>1. PICK f : Obeys(S, a, G, k, f)
      OBVIOUS
    <3> DEFINE g == [i \in 0 .. k + 1 |-> IF i = k + 1 THEN G[<<f[k], k + 1>>] ELSE f[i]]
    <3>2. G[<<f[k], k + 1>>] \in S
      BY <3>1 DEF Obeys
    <3>3. g \in [0 .. k + 1 -> S] /\ g[0] = a
      BY <3>1, <3>2 DEF Obeys
    <3>4. ASSUME NEW i \in 1 .. k + 1 PROVE g[i] = G[<<g[i - 1], i>>]
      <4>1. CASE i = k + 1
        <5>1. i - 1 = k /\ k \in 0 .. k + 1 /\ k # k + 1
          BY <4>1
        <5>2. g[i] = G[<<f[k], k + 1>>] /\ g[k] = f[k]
          BY <4>1, <5>1
        <5> QED BY <4>1, <5>1, <5>2
      <4>2. CASE i # k + 1
        <5>1. i \in 1 .. k /\ i - 1 \in 0 .. k + 1 /\ i - 1 # k + 1
          BY <4>2
        <5>2. g[i] = f[i] /\ g[i - 1] = f[i - 1]
          BY <4>2, <5>1
        <5> QED BY <3>1, <5>1, <5>2 DEF Obeys
      <4> QED BY <4>1, <4>2
    <3>5. Obeys(S, a, G, k + 1, g)
      BY <3>3, <3>4 DEF Obeys
    <3> QED BY <3>5
  <2>3. P \subseteq Nat
    OBVIOUS
  <2> HIDE DEF P
  <2> QED BY <2>1, <2>2, <2>3, SetInduction
<1>2. ASSUME NEW m \in Nat, NEW f, NEW g, Obeys(S, a, G, m, f), Obeys(S, a, G, m + 1, g)
      PROVE  f[m] = g[m]
  <2> DEFINE Q == {i \in Nat : i <= m => f[i] = g[i]}
  <2>1. 0 \in Q
    BY <1>2 DEF Obeys
  <2>2. ASSUME NEW k \in Q PROVE k + 1 \in Q
    <3>1. CASE k + 1 <= m
      <4>1. f[k] = g[k]
        BY <3>1
      <4>2. f[k + 1] = G[<<f[k], k + 1>>] /\ g[k + 1] = G[<<g[k], k + 1>>]
        BY <1>2, <3>1 DEF Obeys
      <4> QED BY <4>1, <4>2
    <3> QED BY <3>1
  <2>3. Q \subseteq Nat
    OBVIOUS
  <2>4. Q = Nat
    <3> HIDE DEF Q
    <3> QED BY <2>1, <2>2, <2>3, SetInduction
  <2> QED BY <2>4
<1> DEFINE Upto(m) == CHOOSE f : Obeys(S, a, G, m, f)
           F == [i \in Nat |-> Upto(i)[i]]
<1>3. ASSUME NEW m \in Nat PROVE Obeys(S, a, G, m, Upto(m))
  BY <1>1
<1> HIDE DEF Upto, P
<1>4. F \in [Nat -> S]
  <2>1. ASSUME NEW i \in Nat PROVE Upto(i)[i] \in S
    BY <1>3 DEF Obeys
  <2> QED BY <2>1
<1>5. F[0] = a
  BY <1>3 DEF Obeys
<1>6. ASSUME NEW i \in Nat PROVE F[i + 1] = G[<<F[i], i + 1>>]
  <2>1. i + 1 \in 1 .. i + 1 /\ i + 1 \in Nat /\ (i + 1) - 1 = i
    OBVIOUS
  <2>2. Obeys(S, a, G, i, Upto(i)) /\ Obeys(S, a, G, i + 1, Upto(i + 1))
    BY <1>3, <2>1
  <2>3. Upto(i)[i] = Upto(i + 1)[i]
    BY <1>2, <2>2
  <2>4. Upto(i + 1)[i + 1] = G[<<Upto(i + 1)[i], i + 1>>]
    BY <2>1, <2>2 DEF Obeys
  <2> QED BY <2>1, <2>3, <2>4
<1> HIDE DEF F
<1> QED BY <1>4, <1>5, <1>6 DEF Solves
=============================================================================

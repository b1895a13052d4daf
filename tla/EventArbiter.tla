---------------------------- MODULE EventArbiter ----------------------------
(***************************************************************************)
(* soc_event_arbiter.sv: the round-robin arbiter of the event generator,   *)
(* a parallel-prefix network.  Bit vectors are sets of bit positions.      *)
(* Every operator takes the number n of event lines (EVNT_NUM).            *)
(***************************************************************************)
EXTENDS Integers, FiniteSets

Lines(n) == 0 .. n - 1

\* The distances of the levels: 1, 2, 4, ...
Pow2[i \in Nat] == IF i = 0 THEN 1 ELSE 2 * Pow2[i - 1]

\* S = $clog2(EVNT_NUM)
Clog2(n) ==
    CHOOSE s \in 0 .. n : Pow2[s] >= n /\ \A t \in 0 .. s - 1 : Pow2[t] < n

\* Mutated form, for the mutation runs only: no wrap-around in the network.
MutBack(n, j, dist) == IF j < dist THEN j ELSE j - dist

\* Bit j looks `dist' positions back, around the end of the vector.
Back(n, j, dist) == (j - dist) % n

(***************************************************************************)
(* The prefix levels 0 .. S-1.  At level i, p holds the positions whose    *)
(* 2^i predecessors do not request, g those the priority bit reaches over  *)
(* such a run of idle lines.                                               *)
(***************************************************************************)
NextLevel(n, up, dist) ==
    [p |-> {j \in up.p : Back(n, j, dist) \in up.p},
     g |-> up.g \cup {j \in up.p : Back(n, j, dist) \in up.g}]

Levels(n, req_i, r_priority) ==
    LET level[i \in Nat] ==
          IF i = 0
          THEN [p |-> {j \in Lines(n) : Back(n, j, 1) \notin req_i},
                g |-> r_priority]
          ELSE NextLevel(n, level[i - 1], Pow2[i - 1])
    IN  level

Prefix(n, req_i, r_priority) == Levels(n, req_i, r_priority)[Clog2(n) - 1]

\* The last level and the output stage: grant_o.
Grant(n, req_i, r_priority) ==
    req_i \cap NextLevel(n, Prefix(n, req_i, r_priority), Pow2[Clog2(n) - 1]).g

\* Mutated form: one propagate bit is not enough.
MutAnyGrant(n, req_i, r_priority) == n - 1 \notin Prefix(n, req_i, r_priority).p

\* anyGrant_o, computed from two propagate bits instead of the requests.
AnyGrant(n, req_i, r_priority) ==
    LET p == Prefix(n, req_i, r_priority).p
    IN  ~(n - 1 \in p /\ (n \div 2) - 1 \in p)

\* Priority moves next to the granted line.
RotateLeft(n, gnt) == {(j + 1) % n : j \in gnt}

\* Mutated form: the pointer stays on the granted line.
MutNextPriority(n, req_i, r_priority, grant_ack_i) ==
    IF AnyGrant(n, req_i, r_priority) /\ grant_ack_i
    THEN Grant(n, req_i, r_priority) ELSE r_priority

NextPriority(n, req_i, r_priority, grant_ack_i) ==
    IF AnyGrant(n, req_i, r_priority) /\ grant_ack_i
    THEN RotateLeft(n, Grant(n, req_i, r_priority)) ELSE r_priority

-----------------------------------------------------------------------------
(* The reference: a textbook round robin. *)

\* How many positions j is behind the priority position k.
Distance(n, k, j) == (j - k) % n

RoundRobin(n, req_i, k) ==
    {j \in req_i : \A h \in req_i : Distance(n, k, j) <= Distance(n, k, h)}
=============================================================================

---------------------------- MODULE BoundedFifo ----------------------------
(***************************************************************************)
(* What every synchronous FIFO of the SoC promises: a queue of at most     *)
(* Depth words.  In one clock cycle the producer may offer a word and the  *)
(* consumer may take one; an offer is accepted unless the queue is full,   *)
(* a take succeeds unless it is empty, and both are decided by the queue   *)
(* as it was at the start of the cycle.                                    *)
(***************************************************************************)
EXTENDS Naturals, Sequences

CONSTANTS Data,     \* the words
          Depth     \* the capacity

VARIABLE q          \* the words inside, oldest first

Accepts == Len(q) < Depth
HasData == q # << >>

Init == q = << >>

(***************************************************************************)
(* One clock cycle: push/pop are the two requests, d the offered word.     *)
(***************************************************************************)
Cycle(push, pop, d) ==
    LET rest == IF pop /\ HasData THEN Tail(q) ELSE q
    IN  q' = IF push /\ Accepts THEN Append(rest, d) ELSE rest

Next == \E push, pop \in BOOLEAN, d \in Data : Cycle(push, pop, d)

Spec == Init /\ [][Next]_q

(***************************************************************************)
(* The queue of a FIFO whose reset input software can assert: it may also  *)
(* be emptied at any time.                                                 *)
(***************************************************************************)
Flush == q' = << >>

FlushableSpec == Init /\ [][Next \/ Flush]_q
=============================================================================

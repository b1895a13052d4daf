---------------------------- MODULE ArbiterUnit ----------------------------
(***************************************************************************)
(* soc_event_arbiter.sv on its own, for every number of lines from 2 to    *)
(* MaxLines.  One step is one clock edge: the priority register moves, the *)
(* inputs of the next cycle are arbitrary, except that a request line      *)
(* falls only when it is served.                                           *)
(***************************************************************************)
EXTENDS EventArbiter

CONSTANT MaxLines       \* bound on EVNT_NUM, which is 169 in the SoC

ASSUME MaxLinesAssumption == MaxLines \in Nat /\ MaxLines >= 2

VARIABLES width,        \* EVNT_NUM, the arbiter's parameter; never changes
          req_i,        \* the request lines in this cycle
          grant_ack_i,  \* the acknowledge in this cycle
          pri           \* r_priority, the one-hot priority vector

arbiterVars == <<width, req_i, grant_ack_i, pri>>

ArbiterInit == /\ width \in 2 .. MaxLines
               /\ req_i = {}
               /\ grant_ack_i \in BOOLEAN
               /\ pri = {0}

granted == Grant(width, req_i, pri)

ArbiterNext ==
    /\ pri' = NextPriority(width, req_i, pri, grant_ack_i)
    /\ \E risen \in SUBSET Lines(width) :
         req_i' = (IF grant_ack_i THEN req_i \ granted ELSE req_i) \cup risen
    /\ grant_ack_i' \in BOOLEAN
    /\ UNCHANGED width

ArbiterSpec == ArbiterInit /\ [][ArbiterNext]_arbiterVars

-----------------------------------------------------------------------------
(* Properties *)

(***************************************************************************)
(* The prefix network computes the round-robin choice for every size, also *)
(* the ones that are no power of two, and the priority vector stays        *)
(* one-hot (soc_event_arbiter.sv:46-77).                                   *)
(***************************************************************************)
GrantIsRoundRobin ==
    \E k \in Lines(width) : pri = {k} /\ granted = RoundRobin(width, req_i, k)

\* anyGrant_o, taken from two propagate bits, is set exactly when some line
\* requests (soc_event_arbiter.sv:74).
AnyGrantIsAnyRequest == AnyGrant(width, req_i, pri) <=> req_i # {}

(***************************************************************************)
(* No starvation: every acknowledged grant brings each line that was       *)
(* passed over strictly closer to the priority position, so a requesting   *)
(* line is served after at most EVNT_NUM - 1 other grants                  *)
(* (soc_event_arbiter.sv:92-103).                                          *)
(***************************************************************************)
PassedOverGetsCloser ==
    [][\A k, l \in Lines(width), j \in req_i \ granted :
         grant_ack_i /\ pri = {k} /\ pri' = {l}
           => Distance(width, l, j) < Distance(width, k, j)]_arbiterVars
=============================================================================

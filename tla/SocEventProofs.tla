--------------------------- MODULE SocEventProofs ---------------------------
(***************************************************************************)
(* Type correctness, conservation of events and the interrupt handshake of *)
(* the event generator, for every number of sources, every register width, *)
(* every FIFO depth and every set of APB accesses.                         *)
(***************************************************************************)
EXTENDS SocEventGenerator, ArbiterProofs, SequenceTheorems, FunctionTheorems,
        FiniteSetTheorems, TLAPS

LEMMA SizeFacts ==
  /\ EVNT_NUM \in Nat /\ EVNT_NUM > 1
  /\ Events = 0 .. EVNT_NUM - 1
  /\ LS_EVENT \in Events
  /\ Sources \subseteq Events
  BY SizeAssumption DEF EVNT_NUM, Events, LS_EVENT, Lines

\* The arbiter grants only lines that request, hence only non-empty queues.
LEMMA GrantRequests == s_grant \subseteq s_req
  BY DEF s_grant, Grant

LEMMA RotateType ==
  ASSUME NEW gnt \in SUBSET Events PROVE RotateLeft(EVNT_NUM, gnt) \subseteq Events
<1>1. ASSUME NEW j \in gnt PROVE (j + 1) % EVNT_NUM \in Events
  BY SizeFacts
<1> QED BY <1>1 DEF RotateLeft

LEMMA EventsType ==
  ASSUME TypeOK, NEW per \in SUBSET Sources PROVE s_events(per) \subseteq Events
<1>1. ASSUME NEW b \in r_apb_events PROVE PER_EVNT_NUM + b \in Events
  BY SizeAssumption, SizeFacts DEF TypeOK, EVNT_NUM
<1> QED BY <1>1, SizeFacts DEF s_events

\* A non-empty set of sources has a largest one.
LEMMA MaxExists ==
  ASSUME NEW gnt \in SUBSET Events, gnt # {}
  PROVE  \E j \in gnt : \A k \in gnt : k <= j
<1> DEFINE T == {EVNT_NUM - 1 - j : j \in gnt}
           R == {p \in Nat \X Nat : p[1] < p[2]}
<1>1. T \subseteq Nat /\ T # {}
  <2>1. ASSUME NEW j \in gnt PROVE EVNT_NUM - 1 - j \in Nat
    BY SizeFacts
  <2>2. T \subseteq Nat
    BY <2>1
  <2>3. T # {}
    <3>1. PICK j \in gnt : TRUE
      OBVIOUS
    <3>2. EVNT_NUM - 1 - j \in T
      OBVIOUS
    <3> QED BY <3>2
  <2> QED BY <2>2, <2>3
<1>2. R = OpToRel(<, Nat)
  BY DEF OpToRel
<1>3. IsWellFoundedOn(R, Nat)
  BY <1>2, NatLessThanWellFounded
<1>4. PICK x \in T : \A y \in T : ~(<<y, x>> \in R)
  BY <1>1, <1>3, WFMin
<1>5. PICK j \in gnt : x = EVNT_NUM - 1 - j
  BY <1>4
<1>6. ASSUME NEW k \in gnt PROVE k <= j
  <2>1. EVNT_NUM - 1 - k \in T
    OBVIOUS
  <2>2. ~(<<EVNT_NUM - 1 - k, x>> \in R)
    BY <1>4, <2>1
  <2> QED BY <1>1, <1>5, <2>1, <2>2, SizeFacts
<1> QED BY <1>6

LEMMA DataType ==
  ASSUME NEW gnt \in SUBSET Events PROVE s_event_data(gnt) \in Events
<1>1. CASE gnt = {}
  BY <1>1, SizeFacts DEF s_event_data
<1>2. CASE gnt # {}
  <2>1. \E j \in gnt : \A k \in gnt : k <= j
    BY <1>2, MaxExists
  <2>2. s_event_data(gnt) \in gnt
    BY <1>2, <2>1 DEF s_event_data
  <2> QED BY <2>2
<1> QED BY <1>1, <1>2

-----------------------------------------------------------------------------
(* Type correctness.  A step is split into what the queues and the FIFO do *)
(* and the rest, so that each leaf needs few definitions.                  *)

\* What a step preserves when ids are sources: counters stay counters.
LEMMA CountersType ==
  ASSUME NEW counter \in Counters, NEW ids
  PROVE  Count(counter, ids) \in Counters /\ Settle(counter, ids) \in Counters
  BY DEF Counters, Count, Settle

LEMMA FifoType ==
  ASSUME fc_fifo \in Seq(Events), Len(fc_fifo) <= FC_FIFO_DEPTH,
         NEW push \in BOOLEAN, NEW pop \in BOOLEAN, NEW d \in Events,
         Fifo!Cycle(push, pop, d)
  PROVE  fc_fifo' \in Seq(Events) /\ Len(fc_fifo') <= FC_FIFO_DEPTH
  BY SizeAssumption DEF Fifo!Cycle, Fifo!Accepts, Fifo!HasData

\* The inputs of one cycle.
Inputs(per, apb, act, cl, ls) ==
    /\ per \in SUBSET Sources
    /\ apb \in ApbOps
    /\ act \in {"none", "ack", "ret"} /\ CoreMay(act)
    /\ cl \in BOOLEAN /\ ls \in BOOLEAN

LEMMA StepIsTick ==
  ASSUME Next
  PROVE  \E per, apb, act, cl, ls : /\ Inputs(per, apb, act, cl, ls)
                                     /\ Tick(per, apb, act, cl, ls)
<1>1. PICK act \in {"none", "ack", "ret"} : TickWith(act)
  BY DEF Next, CoreWaits, CoreAcks, CoreReturns
<1>2. PICK per \in SUBSET Sources, apb \in ApbOps, cl \in ClReady, ls \in LsLevels :
          Tick(per, apb, act, cl, ls)
  BY <1>1 DEF TickWith
<1>3. Inputs(per, apb, act, cl, ls)
  BY <1>1, <1>2, SizeAssumption DEF TickWith, Inputs
<1> QED BY <1>2, <1>3

LEMMA TickType ==
  ASSUME TypeOK, NEW per, NEW apb, NEW act, NEW cl, NEW ls,
         Inputs(per, apb, act, cl, ls), Tick(per, apb, act, cl, ls)
  PROVE  TypeOK'
<1> DEFINE ev == s_events(per)
           gnt == s_grant
           ack == s_ack(gnt, cl)
<1>1. ev \subseteq Events
  BY EventsType DEF Inputs
<1>2. gnt \subseteq Events /\ ack \subseteq gnt
  BY GrantRequests DEF s_req, s_ack
<1>3. apb \in ApbAccess
  BY ApbAssumption DEF Inputs
<1>4. r_event_count' \in [Events -> 0 .. Max_Count]
  <2>1. r_event_count' = [j \in Events |->
              s_event_count(r_event_count[j], j \in ev, j \in ack)]
    BY DEF Tick
  <2>2. ASSUME NEW j \in Events
        PROVE s_event_count(r_event_count[j], j \in ev, j \in ack) \in 0 .. Max_Count
    <3>1. r_event_count[j] \in 0 .. Max_Count
      BY DEF TypeOK
    <3> QED BY <3>1 DEF s_event_count, Max_Count
  <2> QED BY <2>1, <2>2
<1>5. r_priority' \subseteq Events
  <2>1. r_priority' \in {RotateLeft(EVNT_NUM, gnt), r_priority}
    BY DEF Tick
  <2> QED BY <1>2, <2>1, RotateType DEF TypeOK
<1>6. r_mask' \in [Channels -> SUBSET Events]
  <2>1. r_mask' = NextMask(apb)
    BY DEF Tick
  <2>2. CASE apb.op = "MASK"
    <3>1. apb.ch \in Channels /\ apb.bits \subseteq Events
      BY <1>3, <2>2 DEF ApbAccess
    <3> QED BY <2>1, <2>2, <3>1 DEF NextMask, TypeOK, Word
  <2>3. CASE apb.op # "MASK"
    BY <2>1, <2>3 DEF NextMask, TypeOK
  <2> QED BY <2>2, <2>3
<1>7. r_err' \subseteq Events
  <2>1. r_err' = NextErr(ev, apb)
    BY DEF Tick
  <2> QED BY <1>1, <2>1 DEF NextErr, s_err, TypeOK
<1>8. r_apb_events' \subseteq 0 .. APB_EVNT_NUM - 1
  <2>1. r_apb_events' = NextApbEvents(apb)
    BY DEF Tick
  <2>2. apb.op = "EVENT" => apb.bits \subseteq 0 .. APB_EVNT_NUM - 1
    BY <1>3 DEF ApbAccess
  <2> QED BY <2>1, <2>2 DEF NextApbEvents
<1>9. r_ls_sync' \in BOOLEAN \X BOOLEAN \X BOOLEAN
  <2>1. r_ls_sync' = <<ls, r_ls_sync[1], r_ls_sync[2]>>
    BY DEF Tick
  <2>2. r_ls_sync[1] \in BOOLEAN /\ r_ls_sync[2] \in BOOLEAN /\ ls \in BOOLEAN
    BY DEF TypeOK, Inputs
  <2> QED BY <2>1, <2>2
<1>10. r_timer_sel' \in [{"lo", "hi"} -> Nat]
  <2>1. r_timer_sel' = NextTimerSel(apb)
    BY DEF Tick
  <2>2. apb.op = "TIMER_SEL" => apb.side \in {"lo", "hi"} /\ apb.id \in Nat
    BY <1>3 DEF ApbAccess
  <2> QED BY <2>1, <2>2 DEF NextTimerSel, TypeOK
<1>11. fc_fifo' \in Seq(Events) /\ Len(fc_fifo') <= FC_FIFO_DEPTH
  <2>1. Fifo!Cycle(s_valid(gnt, "fc"), act = "ack", s_event_data(gnt))
    BY DEF Tick
  <2>2. s_event_data(gnt) \in Events
    BY <1>2, DataType
  <2>3. s_valid(gnt, "fc") \in BOOLEAN
    BY DEF s_valid
  <2> QED BY <2>1, <2>2, <2>3, FifoType DEF TypeOK
<1>12. r_fifo_event' \in Events
  <2>1. r_fifo_event' \in {Head(fc_fifo), r_fifo_event} /\
        (r_fifo_event' # r_fifo_event => fc_fifo # << >>)
    BY DEF Tick, Fifo!HasData
  <2>2. fc_fifo # << >> => Head(fc_fifo) \in Events
    BY HeadTailProperties DEF TypeOK
  <2> QED BY <2>1, <2>2 DEF TypeOK
<1>13. r_int11' \in BOOLEAN /\ irq_q' \in BOOLEAN
  BY DEF Tick, NextInt11, Fifo!HasData, TypeOK
<1>14. core' \in 0 .. HANDLER_MIN
  <2>1. core' = NextCore(act)
    BY DEF Tick
  <2> QED BY <2>1, HandlerAssumption DEF NextCore, TypeOK
<1>15. /\ log'.arrived \in Counters /\ log'.lost \in Counters
       /\ log'.acked \in Counters /\ log'.owed \in Counters
  <2>1. log' = NextLog(ev, apb, act, gnt, ack)
    BY DEF Tick
  <2>2. /\ log'.arrived = Count(log.arrived, ev)
        /\ log'.lost = Count(log.lost, s_err(ev) \ ack)
        /\ log'.acked = Count(log.acked, ack)
        /\ log'.owed = Count(Settle(log.owed, Captured(act)),
                              ack \cap (gnt \ r_mask["fc"]))
    BY <2>1 DEF NextLog
  <2> QED BY <2>2, CountersType DEF TypeOK
<1> QED BY <1>4, <1>5, <1>6, <1>7, <1>8, <1>9, <1>10, <1>11, <1>12, <1>13,
           <1>14, <1>15 DEF TypeOK

-----------------------------------------------------------------------------
(* Conservation needs no strengthening beyond the types: the arbiter acks  *)
(* only sources it grants, and grants only sources whose queue holds an    *)
(* event, so a queue never counts below zero.                              *)

LEMMA TickConserves ==
  ASSUME TypeOK, Conservation, NEW per, NEW apb, NEW act, NEW cl, NEW ls,
         Inputs(per, apb, act, cl, ls), Tick(per, apb, act, cl, ls)
  PROVE  Conservation'
<1> DEFINE ev == s_events(per)
           gnt == s_grant
           ack == s_ack(gnt, cl)
<1> SUFFICES ASSUME NEW j \in Events
             PROVE  log'.arrived[j] = r_event_count'[j] + log'.acked[j] + log'.lost[j]
  BY DEF Conservation
<1>1. j \in ack => r_event_count[j] # 0
  BY GrantRequests DEF s_req, s_ack
<1>2. log' = NextLog(ev, apb, act, gnt, ack)
  BY DEF Tick
<1>3. /\ log'.arrived[j] = IF j \in ev THEN log.arrived[j] + 1 ELSE log.arrived[j]
      /\ log'.acked[j] = IF j \in ack THEN log.acked[j] + 1 ELSE log.acked[j]
      /\ log'.lost[j] = IF j \in s_err(ev) \ ack THEN log.lost[j] + 1 ELSE log.lost[j]
  BY <1>2 DEF NextLog, Count
<1>4. r_event_count'[j] = s_event_count(r_event_count[j], j \in ev, j \in ack)
  BY DEF Tick
<1>5. /\ r_event_count[j] \in 0 .. Max_Count /\ log.arrived[j] \in Nat
      /\ log.acked[j] \in Nat /\ log.lost[j] \in Nat
      /\ log.arrived[j] = r_event_count[j] + log.acked[j] + log.lost[j]
  BY DEF TypeOK, Conservation, Counters
<1>6. j \in s_err(ev) <=> j \in ev /\ r_event_count[j] = Max_Count
  BY DEF s_err
<1> HIDE DEF ev, gnt, ack
<1>7. CASE j \in ack
  BY <1>1, <1>3, <1>4, <1>5, <1>7 DEF s_event_count
<1>8. CASE j \notin ack
  BY <1>3, <1>4, <1>5, <1>6, <1>8 DEF s_event_count
<1> QED BY <1>7, <1>8

LEMMA InitFacts == Init => TypeOK /\ Conservation
<1> SUFFICES ASSUME Init PROVE TypeOK /\ Conservation
  OBVIOUS
<1>1. 0 \in Events /\ Zero \in Counters
  BY SizeFacts DEF Zero, Counters
<1>2. TypeOK
  <2>1. r_event_count \in [Events -> 0 .. Max_Count]
    BY DEF Init, Zero, Max_Count
  <2>2. /\ log.arrived \in Counters /\ log.lost \in Counters
        /\ log.acked \in Counters /\ log.owed \in Counters
    BY <1>1 DEF Init, EmptyLog
  <2>3. fc_fifo \in Seq(Events) /\ Len(fc_fifo) <= FC_FIFO_DEPTH
    BY SizeAssumption, EmptySeq DEF Init
  <2>4. r_mask \in [Channels -> SUBSET Events] /\ r_timer_sel \in [{"lo", "hi"} -> Nat]
    BY DEF Init
  <2>5. r_ls_sync \in BOOLEAN \X BOOLEAN \X BOOLEAN
    BY DEF Init
  <2>6. /\ r_priority \subseteq Events /\ r_err \subseteq Events
        /\ r_apb_events \subseteq 0 .. APB_EVNT_NUM - 1
        /\ r_fifo_event \in Events /\ r_int11 \in BOOLEAN /\ irq_q \in BOOLEAN
    BY <1>1 DEF Init
  <2>7. core \in 0 .. HANDLER_MIN
    BY HandlerAssumption DEF Init
  <2> QED BY <2>1, <2>2, <2>3, <2>4, <2>5, <2>6, <2>7 DEF TypeOK
<1>3. Conservation
  BY <1>1 DEF Init, EmptyLog, Zero, Conservation
<1> QED BY <1>2, <1>3

(***************************************************************************)
(* soc_event_queue.sv and soc_event_generator.sv:157-169: the registers    *)
(* keep their types, and every event a source ever raised is pending,      *)
(* popped or counted as lost.                                              *)
(***************************************************************************)
THEOREM EventsConserved == Spec => [](TypeOK /\ Conservation)
<1>1. Init => TypeOK /\ Conservation
  BY InitFacts
<1>2. TypeOK /\ Conservation /\ [Next]_vars => (TypeOK /\ Conservation)'
  <2>1. ASSUME TypeOK, Conservation, Next PROVE (TypeOK /\ Conservation)'
    <3>1. PICK per, apb, act, cl, ls : /\ Inputs(per, apb, act, cl, ls)
                                       /\ Tick(per, apb, act, cl, ls)
      BY <2>1, StepIsTick
    <3> QED BY <2>1, <3>1, TickType, TickConserves
  <2>2. ASSUME TypeOK, Conservation, UNCHANGED vars PROVE (TypeOK /\ Conservation)'
    BY <2>2 DEF TypeOK, Conservation, vars, hwvars
  <2> QED BY <2>1, <2>2
<1> QED BY <1>1, <1>2, PTL DEF Spec

-----------------------------------------------------------------------------
(* The interrupt handshake.  r_int11 and irq_q are the FIFO's valid output *)
(* one and two cycles ago.  Words leave the FIFO only when the core acks,  *)
(* and the core then spends at least two cycles in its handler, which is   *)
(* how long a stale request can survive.                                   *)

IrqInv == /\ core = 0 /\ irq_q => fc_fifo # << >>
          /\ core # 1 /\ r_int11 => fc_fifo # << >>

LEMMA FifoKeeps ==
  ASSUME fc_fifo \in Seq(Events), fc_fifo # << >>,
         NEW push \in BOOLEAN, NEW d \in Events,
         Fifo!Cycle(push, FALSE, d)
  PROVE  fc_fifo' # << >>
  BY DEF Fifo!Cycle, Fifo!Accepts

LEMMA TickIrq ==
  ASSUME TypeOK, IrqInv, NEW per, NEW apb, NEW act, NEW cl, NEW ls,
         Inputs(per, apb, act, cl, ls), Tick(per, apb, act, cl, ls)
  PROVE  IrqInv' /\ (core = 0 /\ core' = 1 => fc_fifo # << >>)
<1> DEFINE gnt == s_grant
<1>1. /\ r_int11' = (fc_fifo # << >>) /\ irq_q' = r_int11
      /\ core' = NextCore(act)
      /\ Fifo!Cycle(s_valid(gnt, "fc"), act = "ack", s_event_data(gnt))
  BY DEF Tick, NextInt11, Fifo!HasData
<1>2. s_event_data(gnt) \in Events /\ s_valid(gnt, "fc") \in BOOLEAN
  BY GrantRequests, DataType DEF s_req, s_valid
<1>3. core \in 0 .. HANDLER_MIN /\ fc_fifo \in Seq(Events)
  BY DEF TypeOK
<1>4. CASE act = "ack"
  <2>1. core = 0 /\ irq_q /\ core' = 1
    BY <1>1, <1>4 DEF Inputs, CoreMay, NextCore
  <2> QED BY <2>1 DEF IrqInv
<1>5. CASE act # "ack"
  <2>1. fc_fifo # << >> => fc_fifo' # << >>
    BY <1>1, <1>2, <1>3, <1>5, FifoKeeps
  <2>2. ~(core = 0 /\ core' = 1)
    BY <1>1, <1>3, <1>5, HandlerAssumption DEF NextCore, Inputs, CoreMay
  <2>3. core' = 0 => core # 1
    BY <1>1, <1>3, <1>5, HandlerAssumption DEF NextCore, Inputs, CoreMay
  <2>4. (core # 1 /\ r_int11 => fc_fifo # << >>) => (core' = 0 /\ irq_q' => fc_fifo' # << >>)
    BY <1>1, <2>1, <2>3
  <2> QED BY <1>1, <2>1, <2>2, <2>4 DEF IrqInv
<1> QED BY <1>4, <1>5

(***************************************************************************)
(* fc_subsystem.sv:145 with soc_event_generator.sv:365-372: the core never *)
(* takes interrupt 11 while the FC FIFO is empty.                          *)
(***************************************************************************)
THEOREM HandshakeSound == Spec => AckMeansEvent
<1>1. Init => TypeOK /\ IrqInv
  BY InitFacts DEF Init, IrqInv
<1>2. TypeOK /\ IrqInv /\ [Next]_vars => (TypeOK /\ IrqInv)'
  <2>1. ASSUME TypeOK, IrqInv, Next PROVE (TypeOK /\ IrqInv)'
    <3>1. PICK per, apb, act, cl, ls : /\ Inputs(per, apb, act, cl, ls)
                                       /\ Tick(per, apb, act, cl, ls)
      BY <2>1, StepIsTick
    <3> QED BY <2>1, <3>1, TickType, TickIrq
  <2>2. ASSUME TypeOK, IrqInv, UNCHANGED vars PROVE (TypeOK /\ IrqInv)'
    BY <2>2 DEF TypeOK, IrqInv, vars, hwvars
  <2> QED BY <2>1, <2>2
<1>3. TypeOK /\ IrqInv /\ [Next]_vars => [core = 0 /\ core' = 1 => fc_fifo # << >>]_vars
  <2>1. ASSUME TypeOK, IrqInv, Next PROVE core = 0 /\ core' = 1 => fc_fifo # << >>
    <3>1. PICK per, apb, act, cl, ls : /\ Inputs(per, apb, act, cl, ls)
                                       /\ Tick(per, apb, act, cl, ls)
      BY <2>1, StepIsTick
    <3> QED BY <2>1, <3>1, TickIrq
  <2> QED BY <2>1
<1> QED BY <1>1, <1>2, <1>3, PTL DEF Spec, AckMeansEvent

-----------------------------------------------------------------------------
(* Delivery to the FC.  The grant is at most one line, because the         *)
(* priority vector stays one-hot and the prefix network is a round robin;  *)
(* so the event the FIFO takes is the event the arbiter pops.              *)

OneHot == \E k \in Events : r_priority = {k}

\* The granted line, if any.
LEMMA GrantOne ==
  ASSUME TypeOK, OneHot
  PROVE  /\ s_event_valid <=> s_req # {}
         /\ s_req = {} => s_grant = {}
         /\ s_req # {} => \E g \in Events : s_grant = {g}
<1>1. /\ EVNT_NUM \in Nat /\ EVNT_NUM >= 2 /\ Events = Lines(EVNT_NUM)
      /\ s_req \in SUBSET Lines(EVNT_NUM)
  BY SizeFacts DEF Events, s_req
<1>2. PICK k \in Lines(EVNT_NUM) : r_priority = {k}
  BY <1>1 DEF OneHot
<1>3. s_event_valid <=> s_req # {}
  <2>1. r_priority \in SUBSET Lines(EVNT_NUM)
    BY <1>2
  <2> QED BY <1>1, <2>1, AnyGrantSeesAll DEF s_event_valid
<1>4. s_grant = RoundRobin(EVNT_NUM, s_req, k)
  BY <1>1, <1>2, NetworkIsRoundRobin DEF s_grant
<1> QED BY <1>1, <1>3, <1>4, FirstRequest

LEMMA TickOneHot ==
  ASSUME TypeOK, OneHot, NEW per, NEW apb, NEW act, NEW cl, NEW ls,
         Tick(per, apb, act, cl, ls)
  PROVE  OneHot'
<1>1. r_priority' = IF s_event_valid /\ s_event_ready(s_grant, cl)
                    THEN RotateLeft(EVNT_NUM, s_grant) ELSE r_priority
  BY DEF Tick
<1>2. CASE s_event_valid /\ s_event_ready(s_grant, cl)
  <2>1. PICK g \in Events : s_grant = {g}
    BY <1>2, GrantOne
  <2>2. r_priority' = {(g + 1) % EVNT_NUM} /\ (g + 1) % EVNT_NUM \in Events
    BY <1>1, <1>2, <2>1, RotateOne, SizeFacts DEF Events
  <2> QED BY <2>2 DEF OneHot, Events
<1>3. CASE ~(s_event_valid /\ s_event_ready(s_grant, cl))
  BY <1>1, <1>3 DEF OneHot
<1> QED BY <1>2, <1>3

\* Where j stands in the sequence s, and how often.
Places(s, j) == {i \in 1 .. Len(s) : s[i] = j}

LEMMA PlacesFinite ==
  ASSUME NEW S, NEW s \in Seq(S), NEW j
  PROVE  IsFiniteSet(Places(s, j)) /\ Cardinality(Places(s, j)) \in Nat
<1>1. Len(s) \in Nat
  OBVIOUS
<1>2. IsFiniteSet(1 .. Len(s))
  BY <1>1, FS_Interval
<1>3. Places(s, j) \in SUBSET (1 .. Len(s))
  BY DEF Places
<1>4. IsFiniteSet(Places(s, j))
  BY <1>2, <1>3, FS_Subset
<1> QED BY <1>4, FS_CardinalityType

LEMMA PlacesAppend ==
  ASSUME NEW S, NEW s \in Seq(S), NEW d \in S, NEW j
  PROVE  Cardinality(Places(Append(s, d), j)) =
            Cardinality(Places(s, j)) + (IF d = j THEN 1 ELSE 0)
<1>1. /\ Len(s) \in Nat /\ Len(Append(s, d)) = Len(s) + 1
      /\ \A i \in 1 .. Len(s) : Append(s, d)[i] = s[i]
      /\ Append(s, d)[Len(s) + 1] = d
  BY AppendProperties
<1>2. Places(Append(s, d), j) =
         IF d = j THEN Places(s, j) \cup {Len(s) + 1} ELSE Places(s, j)
  BY <1>1 DEF Places
<1>3. Len(s) + 1 \notin Places(s, j)
  BY <1>1 DEF Places
<1>4. IsFiniteSet(Places(s, j)) /\ Cardinality(Places(s, j)) \in Nat
  BY PlacesFinite
<1>5. CASE d = j
  BY <1>2, <1>3, <1>4, <1>5, FS_AddElement
<1>6. CASE d # j
  BY <1>2, <1>4, <1>6
<1> QED BY <1>5, <1>6

LEMMA PlacesTail ==
  ASSUME NEW S, NEW s \in Seq(S), s # << >>, NEW j
  PROVE  Cardinality(Places(s, j)) =
            Cardinality(Places(Tail(s), j)) + (IF Head(s) = j THEN 1 ELSE 0)
<1> DEFINE U == Places(s, j) \ {1}
           V == Places(Tail(s), j)
           f == [i \in V |-> i + 1]
<1>1. /\ Len(s) \in Nat \ {0} /\ Len(Tail(s)) = Len(s) - 1
      /\ \A i \in 1 .. Len(s) - 1 : Tail(s)[i] = s[i + 1]
      /\ Head(s) = s[1] /\ Tail(s) \in Seq(S)
  BY HeadTailProperties, EmptySeq
<1>2. f \in [V -> U]
  <2>1. ASSUME NEW i \in V PROVE i + 1 \in U
    BY <1>1 DEF Places
  <2> QED BY <2>1
<1>3. ASSUME NEW u \in U PROVE \E i \in V : f[i] = u
  <2>1. u - 1 \in V /\ (u - 1) + 1 = u
    BY <1>1 DEF Places
  <2> QED BY <2>1
<1>4. ASSUME NEW x \in V, NEW y \in V, f[x] = f[y] PROVE x = y
  <2>1. x \in Int /\ y \in Int
    BY <1>1 DEF Places
  <2> QED BY <1>4, <2>1
<1>5. ExistsBijection(V, U)
  <2> HIDE DEF f, U, V
  <2>1. f \in Bijection(V, U)
    BY <1>2, <1>3, <1>4, Fun_IsBij
  <2> QED BY <2>1, Fun_ExistsBij
<1>6. IsFiniteSet(V) /\ Cardinality(V) \in Nat
  BY <1>1, PlacesFinite
<1>7. Cardinality(U) = Cardinality(V)
  BY <1>5, <1>6, FS_Bijection
<1>8. IsFiniteSet(Places(s, j)) /\ Cardinality(Places(s, j)) \in Nat
  BY PlacesFinite
<1>9. Cardinality(U) = IF 1 \in Places(s, j) THEN Cardinality(Places(s, j)) - 1
                       ELSE Cardinality(Places(s, j))
  BY <1>8, FS_RemoveElement
<1>10. 1 \in Places(s, j) <=> Head(s) = j
  BY <1>1 DEF Places
<1> HIDE DEF U, V
<1> QED BY <1>6, <1>7, <1>8, <1>9, <1>10 DEF V


\* How many copies of j a queue holds against how many are owed.
Balanced(owed, dup, s, j) ==
    /\ owed[j] <= Cardinality(Places(s, j))
    /\ j \notin dup => owed[j] = Cardinality(Places(s, j))

AllBalanced == \A j \in Events : Balanced(log.owed, log.fcdup, fc_fifo, j)

\* FcDelivery in these terms.
LEMMA DeliveryIsBalance == TypeOK => (FcDelivery <=> AllBalanced)
<1> SUFFICES ASSUME TypeOK PROVE FcDelivery <=> AllBalanced
  OBVIOUS
<1>1. DOMAIN fc_fifo = 1 .. Len(fc_fifo)
  BY DEF TypeOK
<1>2. ASSUME NEW j \in Events PROVE InFifo(j) = Cardinality(Places(fc_fifo, j))
  BY <1>1 DEF InFifo, Places
<1> QED BY <1>2 DEF FcDelivery, Balanced, AllBalanced

LEMMA DeliveryIsBalanceNext == TypeOK' => (FcDelivery' <=> AllBalanced')
  BY DeliveryIsBalance, PTL

\* What the core takes out of the FIFO it is no longer owed.
LEMMA CaptureBalance ==
  ASSUME TypeOK, NEW act, NEW j \in Events,
         Balanced(log.owed, log.fcdup, fc_fifo, j)
  PROVE  Balanced(Settle(log.owed, Captured(act)), log.fcdup,
                  IF act = "ack" /\ Fifo!HasData THEN Tail(fc_fifo) ELSE fc_fifo, j)
<1> DEFINE c == Cardinality(Places(fc_fifo, j))
           t == Cardinality(Places(Tail(fc_fifo), j))
           o == log.owed[j]
<1>1. o \in Nat /\ c \in Nat /\ fc_fifo \in Seq(Events)
  BY PlacesFinite DEF TypeOK, Counters
<1>2. CASE act = "ack" /\ Fifo!HasData
  <2>1. Captured(act) = {Head(fc_fifo)}
    BY <1>2 DEF Captured
  <2>2. c = t + (IF Head(fc_fifo) = j THEN 1 ELSE 0) /\ t \in Nat
    <3>1. fc_fifo # << >>
      BY <1>2 DEF Fifo!HasData
    <3>2. Tail(fc_fifo) \in Seq(Events)
      BY <1>1, <3>1, HeadTailProperties
    <3> QED BY <1>1, <3>1, <3>2, PlacesTail, PlacesFinite
  <2>3. Settle(log.owed, Captured(act))[j] =
            IF Head(fc_fifo) = j /\ o > 0 THEN o - 1 ELSE o
    BY <2>1 DEF Settle
  <2>4. o <= c /\ (j \notin log.fcdup => o = c)
    BY DEF Balanced
  <2> HIDE DEF c, t, o
  <2> QED BY <1>1, <1>2, <2>2, <2>3, <2>4 DEF Balanced, t
<1>3. CASE ~(act = "ack" /\ Fifo!HasData)
  <2>1. Captured(act) = {}
    BY <1>3 DEF Captured
  <2>2. Settle(log.owed, Captured(act))[j] = log.owed[j]
    BY <2>1 DEF Settle
  <2> QED BY <1>3, <2>2 DEF Balanced
<1> QED BY <1>2, <1>3

LEMMA TickDelivers ==
  ASSUME TypeOK, TypeOK', OneHot, FcDelivery, NEW per, NEW apb, NEW act, NEW cl, NEW ls,
         Inputs(per, apb, act, cl, ls), Tick(per, apb, act, cl, ls)
  PROVE  FcDelivery'
<1> DEFINE gnt == s_grant
           ack == s_ack(gnt, cl)
           for == gnt \ r_mask["fc"]
           push == s_valid(gnt, "fc") /\ Fifo!Accepts
           rest == IF act = "ack" /\ Fifo!HasData THEN Tail(fc_fifo) ELSE fc_fifo
           mid == Settle(log.owed, Captured(act))
           d == s_event_data(gnt)
<1> SUFFICES ASSUME NEW j \in Events
             PROVE  Balanced(log.owed, log.fcdup, fc_fifo, j)'
  BY DeliveryIsBalanceNext DEF AllBalanced
<1>1. Balanced(mid, log.fcdup, rest, j)
  BY CaptureBalance, DeliveryIsBalance DEF AllBalanced
<1>2. fc_fifo' = IF push THEN Append(rest, d) ELSE rest
  <2>1. Fifo!Cycle(s_valid(gnt, "fc"), act = "ack", d)
    BY DEF Tick
  <2> QED BY <2>1 DEF Fifo!Cycle
<1>3. /\ log'.owed = Count(mid, ack \cap for)
      /\ log'.fcdup = log.fcdup \cup (IF Fifo!Accepts THEN for \ ack ELSE {})
  BY DEF Tick, NextLog, fc_event_ready
<1>4. /\ for # {} <=> s_valid(gnt, "fc")
      /\ ack \in {gnt, {}}
      /\ ack # {} => (for # {} => Fifo!Accepts)
  BY DEF s_valid, s_ack, s_event_ready, fc_event_ready
<1>5. rest \in Seq(Events) /\ mid[j] \in Nat
  <2>1. fc_fifo # << >> => Tail(fc_fifo) \in Seq(Events)
    BY HeadTailProperties DEF TypeOK
  <2>2. mid \in Counters
    BY CountersType DEF TypeOK
  <2> QED BY <2>1, <2>2 DEF TypeOK, Counters, Fifo!HasData
<1>6. Cardinality(Places(rest, j)) \in Nat
  BY <1>5, PlacesFinite
<1>7. log'.owed[j] = IF j \in ack \cap for THEN mid[j] + 1 ELSE mid[j]
  BY <1>3 DEF Count
<1>8. gnt = {} \/ \E g \in Events : gnt = {g}
  BY GrantOne
<1>9. CASE ~push
  <2>1. ack \cap for = {} /\ (IF Fifo!Accepts THEN for \ ack ELSE {}) = {}
    BY <1>4, <1>9
  <2>2. fc_fifo' = rest /\ log'.owed[j] = mid[j] /\ log'.fcdup = log.fcdup
    BY <1>2, <1>3, <1>7, <1>9, <2>1
  <2> HIDE DEF gnt, ack, for, push, rest, mid, d
  <2> QED BY <1>1, <2>2 DEF Balanced
<1>10. CASE push
  <2>1. PICK g \in Events : gnt = {g}
    BY <1>8, <1>10 DEF s_valid
  <2>2. d = g /\ for = {g}
    <3>1. for = {g}
      BY <1>4, <1>10, <2>1
    <3>2. d = g
      BY <2>1, SizeFacts DEF s_event_data
    <3> QED BY <3>1, <3>2
  <2>3. ack \in {{g}, {}} /\ Fifo!Accepts
    BY <1>4, <1>10, <2>1
  <2> HIDE DEF gnt, ack, for, push, rest, mid, d
  <2>4. Cardinality(Places(fc_fifo', j)) =
            Cardinality(Places(rest, j)) + (IF g = j THEN 1 ELSE 0)
    BY <1>2, <1>5, <1>10, <2>2, PlacesAppend
  <2>5. mid[j] <= Cardinality(Places(rest, j)) /\
        (j \notin log.fcdup => mid[j] = Cardinality(Places(rest, j)))
    BY <1>1 DEF Balanced
  <2>6. CASE ack = {g}
    <3>1. log'.owed[j] = mid[j] + (IF g = j THEN 1 ELSE 0) /\ log'.fcdup = log.fcdup
      BY <1>3, <1>5, <1>7, <2>2, <2>6
    <3> QED BY <1>5, <1>6, <2>4, <2>5, <3>1 DEF Balanced
  <2>7. CASE ack = {}
    <3>1. log'.owed[j] = mid[j] /\ log'.fcdup = log.fcdup \cup {g}
      BY <1>3, <1>7, <2>2, <2>3, <2>7
    <3> QED BY <1>5, <1>6, <2>4, <2>5, <3>1 DEF Balanced
  <2> QED BY <2>3, <2>6, <2>7
<1> QED BY <1>9, <1>10

(***************************************************************************)
(* soc_event_generator.sv:161-169, 374-390: an event popped for the FC is  *)
(* in its FIFO until the core captures it, and only an event that another  *)
(* channel held back can be there more often than it was popped.           *)
(***************************************************************************)
THEOREM FcGetsItsEvents == Spec => []FcDelivery
<1> DEFINE Inv == TypeOK /\ OneHot /\ FcDelivery
<1>1. Init => Inv
  <2> SUFFICES ASSUME Init PROVE Inv
    OBVIOUS
  <2>1. TypeOK
    BY InitFacts
  <2>2. OneHot
    BY SizeFacts DEF Init, OneHot
  <2>3. ASSUME NEW j \in Events PROVE Balanced(log.owed, log.fcdup, fc_fifo, j)
    <3>1. Places(fc_fifo, j) = {}
      BY DEF Init, Places
    <3>2. log.owed[j] = 0
      BY DEF Init, EmptyLog, Zero
    <3> QED BY <3>1, <3>2, FS_EmptySet DEF Balanced
  <2> QED BY <2>1, <2>2, <2>3, DeliveryIsBalance DEF AllBalanced
<1>2. Inv /\ [Next]_vars => Inv'
  <2>1. ASSUME Inv, Next PROVE Inv'
    <3>1. PICK per, apb, act, cl, ls : /\ Inputs(per, apb, act, cl, ls)
                                       /\ Tick(per, apb, act, cl, ls)
      BY <2>1, StepIsTick
    <3>2. TypeOK'
      BY <2>1, <3>1, TickType
    <3> QED BY <2>1, <3>1, <3>2, TickOneHot, TickDelivers
  <2>2. ASSUME Inv, UNCHANGED vars PROVE Inv'
    BY <2>2 DEF TypeOK, OneHot, FcDelivery, InFifo, vars, hwvars
  <2> QED BY <2>1, <2>2
<1> QED BY <1>1, <1>2, PTL DEF Spec


\* The registers of the event generator keep their width (the Type section).
THEOREM RegistersTyped == Spec => []TypeOK
  BY EventsConserved, PTL

-----------------------------------------------------------------------------
(* One pop per event for every channel, as long as no source is unmasked   *)
(* for two channels.                                                       *)

\* The sources that software ever unmasks for channel c.
Opened(c) == {j \in Events : \E a \in ApbOps :
                a.op = "MASK" /\ a.ch = c /\ j \in Word(a.word) \ a.bits}

SeparateChannels ==
    \A c, d \in Channels : c # d => Opened(c) \cap Opened(d) = {}

MaskInv == \A c \in Channels : Events \ r_mask[c] \subseteq Opened(c)

LEMMA TickMask ==
  ASSUME TypeOK, MaskInv, NEW per, NEW apb, NEW act, NEW cl, NEW ls,
         Inputs(per, apb, act, cl, ls), Tick(per, apb, act, cl, ls)
  PROVE  MaskInv'
<1>1. r_mask' = NextMask(apb) /\ apb \in ApbOps /\ apb \in ApbAccess
  BY ApbAssumption DEF Tick, Inputs
<1> SUFFICES ASSUME NEW c \in Channels, NEW j \in Events, j \notin r_mask'[c]
             PROVE  j \in Opened(c)
  BY DEF MaskInv
<1>2. CASE apb.op = "MASK" /\ apb.ch = c
  <2>1. r_mask'[c] = (r_mask[c] \ Word(apb.word)) \cup (apb.bits \cap Word(apb.word))
    BY <1>1, <1>2 DEF NextMask, TypeOK
  <2>2. CASE j \in Word(apb.word)
    BY <1>1, <1>2, <2>1, <2>2 DEF Opened
  <2>3. CASE j \notin Word(apb.word)
    BY <2>1, <2>3 DEF MaskInv
  <2> QED BY <2>2, <2>3
<1>3. CASE ~(apb.op = "MASK" /\ apb.ch = c)
  <2>1. r_mask'[c] = r_mask[c]
    BY <1>1, <1>3 DEF NextMask, TypeOK
  <2> QED BY <2>1 DEF MaskInv
<1> QED BY <1>2, <1>3

LEMMA TickTaken ==
  ASSUME TypeOK, OneHot, MaskInv, SeparateChannels, TakenMeansPopped,
         NEW per, NEW apb, NEW act, NEW cl, NEW ls,
         Inputs(per, apb, act, cl, ls), Tick(per, apb, act, cl, ls)
  PROVE  TakenMeansPopped'
<1> DEFINE gnt == s_grant
           ack == s_ack(gnt, cl)
           for(c) == gnt \ r_mask[c]
<1>1. /\ log'.fcdup = log.fcdup \cup (IF fc_event_ready THEN for("fc") \ ack ELSE {})
      /\ log'.prdup = log.prdup \cup (for("pr") \ ack)
  BY DEF Tick, NextLog
<1>2. gnt = {} \/ \E g \in Events : gnt = {g}
  BY GrantOne
<1>3. ASSUME NEW c \in Channels, NEW d \in Channels, c # d, for(c) # {} PROVE for(d) = {}
  <2>1. PICK g \in Events : gnt = {g} /\ g \notin r_mask[c]
    BY <1>2, <1>3
  <2>2. g \in Opened(c)
    BY <2>1 DEF MaskInv
  <2>3. g \notin Opened(d)
    BY <1>3, <2>2 DEF SeparateChannels
  <2>4. g \in r_mask[d]
    BY <2>1, <2>3 DEF MaskInv
  <2> QED BY <2>1, <2>4
<1>4. /\ "fc" \in Channels /\ "cl" \in Channels /\ "pr" \in Channels
  BY DEF Channels
<1>5. ASSUME fc_event_ready, for("fc") # {} PROVE ack = gnt
  <2>1. for("cl") = {}
    BY <1>3, <1>4, <1>5
  <2> QED BY <1>5, <2>1 DEF s_ack, s_event_ready, s_valid, pr_event_ready_i
<1>6. ASSUME for("pr") # {} PROVE ack = gnt
  <2>1. for("cl") = {} /\ for("fc") = {}
    BY <1>3, <1>4, <1>6
  <2> QED BY <2>1 DEF s_ack, s_event_ready, s_valid, pr_event_ready_i
<1> QED BY <1>1, <1>5, <1>6 DEF TakenMeansPopped

(***************************************************************************)
(* soc_event_generator.sv:145-169: if software never unmasks one source    *)
(* for two channels, every channel sees the events it takes popped in that *)
(* cycle.  Without the hypothesis the code does not promise it: see the    *)
(* run events_taken_twice.                                                 *)
(***************************************************************************)
THEOREM TakenOnce == ASSUME SeparateChannels PROVE Spec => []TakenMeansPopped
<1> DEFINE Inv == TypeOK /\ OneHot /\ MaskInv /\ TakenMeansPopped
<1>1. Init => Inv
  <2> SUFFICES ASSUME Init PROVE Inv
    OBVIOUS
  <2>1. TypeOK
    BY InitFacts
  <2>2. OneHot
    BY SizeFacts DEF Init, OneHot
  <2>3. MaskInv
    BY DEF Init, MaskInv
  <2>4. TakenMeansPopped
    BY DEF Init, EmptyLog, TakenMeansPopped
  <2> QED BY <2>1, <2>2, <2>3, <2>4
<1>2. Inv /\ [Next]_vars => Inv'
  <2>1. ASSUME Inv, Next PROVE Inv'
    <3>1. PICK per, apb, act, cl, ls : /\ Inputs(per, apb, act, cl, ls)
                                       /\ Tick(per, apb, act, cl, ls)
      BY <2>1, StepIsTick
    <3> QED BY <2>1, <3>1, TickType, TickOneHot, TickMask, TickTaken
  <2>2. ASSUME Inv, UNCHANGED vars PROVE Inv'
    BY <2>2 DEF TypeOK, OneHot, MaskInv, TakenMeansPopped, vars, hwvars
  <2> QED BY <2>1, <2>2
<1> QED BY <1>1, <1>2, PTL DEF Spec

=============================================================================

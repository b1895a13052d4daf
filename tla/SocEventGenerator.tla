------------------------- MODULE SocEventGenerator -------------------------
(***************************************************************************)
(* soc_event_generator.sv with its per-source queues (soc_event_queue.sv), *)
(* its arbiter (EventArbiter) and its FC FIFO (BoundedFifo, which          *)
(* GenericFifo is proved to implement), the interrupt-11 register of       *)
(* fc_subsystem.sv, and the core as far as interrupt 11 shows it.          *)
(*                                                                         *)
(* One Tick is one rising edge of HCLK.  The inputs of the cycle (event    *)
(* lines, APB access, core acknowledge, cluster ready) are its parameters; *)
(* combinational signals are operators of the state and these inputs.      *)
(***************************************************************************)
EXTENDS Integers, Sequences, FiniteSets, EventArbiter

CONSTANTS PER_EVNT_NUM,     \* peripheral event lines (160 in the SoC)
          APB_EVNT_NUM,     \* software event bits (8 in the SoC)
          REG_WIDTH,        \* bits of a mask or error register (32)
          FC_FIFO_DEPTH,    \* DATA_DEPTH of i_event_fifo1 (4)
          HANDLER_MIN,      \* fewest cycles the core spends in a handler
          Sources,          \* bound: the peripheral lines that may fire
          ApbOps,           \* bound: the APB accesses software may make
          ClReady,          \* bound: the values cl_event_ready_i may take
          LsLevels,         \* bound: the levels low_speed_clk_i may take
          MaxArrivals       \* bound: events presented to the queues

EVNT_NUM  == PER_EVNT_NUM + APB_EVNT_NUM + 1
Events    == Lines(EVNT_NUM)
LS_EVENT  == EVNT_NUM - 1
Channels  == {"fc", "cl", "pr"}
Max_Count == 3              \* r_event_count is two bits wide

\* The accesses the register file of the event generator tells apart.
ApbAccess == [op : {"IDLE"}]
        \cup [op : {"EVENT"}, bits : SUBSET (0 .. APB_EVNT_NUM - 1)]
        \cup [op : {"MASK"}, ch : Channels, word : Nat, bits : SUBSET Events]
        \cup [op : {"ERR"}, word : Nat]
        \cup [op : {"TIMER_SEL"}, side : {"lo", "hi"}, id : Nat]

ASSUME SizeAssumption ==
    /\ PER_EVNT_NUM \in Nat \ {0} /\ APB_EVNT_NUM \in Nat \ {0}
    /\ REG_WIDTH \in Nat \ {0}
    /\ FC_FIFO_DEPTH \in Nat \ {0}
    /\ Sources \subseteq 0 .. PER_EVNT_NUM - 1
    /\ ClReady \subseteq BOOLEAN /\ LsLevels \subseteq BOOLEAN
    /\ MaxArrivals \in Nat

ASSUME ApbAssumption == ApbOps \subseteq ApbAccess

\* irq_q of the core and r_int[11] are one cycle late each, so the core must
\* not be able to take the next interrupt within two cycles of the last.
ASSUME HandlerAssumption == HANDLER_MIN \in Nat /\ HANDLER_MIN >= 2

VARIABLES r_event_count,    \* soc_event_queue: pending events per source
          r_priority,       \* soc_event_arbiter: one-hot priority
          r_mask,           \* r_fc_mask, r_cl_mask, r_pr_mask
          r_err,            \* overflow bits
          r_apb_events,     \* software events, valid for one cycle
          r_ls_sync,        \* low_speed_clk_i synchroniser, newest bit first
          r_timer_sel,      \* r_timer_sel_lo, r_timer_sel_hi
          fc_fifo,          \* contents of i_event_fifo1
          r_fifo_event,     \* event ID captured for software
          r_int11,          \* fc_subsystem: r_int[11]
          irq_q,            \* core: registered copy of r_int[11]
          core,             \* core: 0 = running, else cycles in the handler
          log               \* history: what happened to the events so far

hwvars == <<r_event_count, r_priority, r_mask, r_err, r_apb_events, r_ls_sync,
            r_timer_sel, fc_fifo, r_fifo_event, r_int11, irq_q, core>>
vars == <<hwvars, log>>

Fifo == INSTANCE BoundedFifo WITH Data <- Events, Depth <- FC_FIFO_DEPTH,
                                  q <- fc_fifo

\* History: counters per source, and sets of sources.
Zero == [j \in Events |-> 0]
EmptyLog == [total   |-> 0,         \* events presented to the queues
             arrived |-> Zero,      \* ... per source
             lost    |-> Zero,      \* events dropped by a full queue
             acked   |-> Zero,      \* events popped from the queue
             owed    |-> Zero,      \* ... for the FC and not captured yet
             fcdup   |-> {},        \* taken by the FC FIFO but not popped
             prdup   |-> {},        \* taken by the uDMA but not popped
             unseen  |-> {},        \* lost events that no read of ERR returned yet
             raced   |-> {}]        \* ... lost in the cycle of such a read

Init ==
    /\ r_event_count = Zero
    /\ r_priority = {0}
    /\ r_mask = [c \in Channels |-> Events]     \* everything masked
    /\ r_err = {}
    /\ r_apb_events = {}
    /\ r_ls_sync = <<FALSE, FALSE, FALSE>>
    /\ r_timer_sel = [s \in {"lo", "hi"} |-> 0]
    /\ fc_fifo = << >>
    /\ r_fifo_event = 0
    /\ r_int11 = FALSE
    /\ irq_q = FALSE
    /\ core = 0
    /\ log = EmptyLog

-----------------------------------------------------------------------------
(* Combinational signals. *)

s_ls_rise == ~r_ls_sync[3] /\ r_ls_sync[2]

s_events(per) == per \cup {PER_EVNT_NUM + b : b \in r_apb_events}
                     \cup (IF s_ls_rise THEN {LS_EVENT} ELSE {})

s_req   == {j \in Events : r_event_count[j] # 0}
s_grant == Grant(EVNT_NUM, s_req, r_priority)
s_event_valid == AnyGrant(EVNT_NUM, s_req, r_priority)

\* err_o of the queues.
s_err(ev) == {j \in ev : r_event_count[j] = Max_Count}

\* The signals below are functions of the grant vector.
s_valid(gnt, c) == gnt \ r_mask[c] # {}

\* Mutated form, for the mutation runs only: the FC is not waited for.
Mut_s_event_ready(gnt, cl) == s_valid(gnt, "cl") => cl

\* The ready inputs: grant_o of the FIFO, cl_event_ready_i, and the constant 1
\* that udma_ctrl.sv drives for the peripheral channel.
fc_event_ready   == Fifo!Accepts
pr_event_ready_i == TRUE

s_event_ready(gnt, cl) == /\ s_valid(gnt, "fc") => fc_event_ready
                          /\ s_valid(gnt, "cl") => cl
                          /\ s_valid(gnt, "pr") => pr_event_ready_i

s_ack(gnt, cl) == IF s_event_ready(gnt, cl) THEN gnt ELSE {}

\* The ID of the granted event; 0 when there is none.
s_event_data(gnt) == IF gnt = {} THEN 0
                     ELSE CHOOSE j \in gnt : \A k \in gnt : k <= j

\* The bits of register number w of a mask or error vector.
Word(w) == {j \in Events : j \div REG_WIDTH = w}

-----------------------------------------------------------------------------
(* The registers, one operator per always block. *)

\* Mutated forms, for the mutation runs only.
Mut_s_event_count(count, event, ack) ==
    IF ack THEN (IF count # 0 THEN count - 1 ELSE count)
    ELSE IF event /\ count # Max_Count THEN count + 1
    ELSE count
MutUncapped(count, event, ack) ==
    IF ack THEN (IF ~event /\ count # 0 THEN count - 1 ELSE count)
    ELSE IF event THEN count + 1 ELSE count
MutNextErr(ev, apb) ==      \* no overflow is recorded during an access
    CASE apb.op = "IDLE" -> r_err \cup s_err(ev)
      [] apb.op = "ERR"  -> r_err \ Word(apb.word)
      [] OTHER           -> r_err

\* soc_event_queue: an event that comes with the acknowledge of an earlier one
\* leaves the count alone; a full queue ignores events.
s_event_count(count, event, ack) ==
    IF ack THEN (IF ~event /\ count # 0 THEN count - 1 ELSE count)
    ELSE IF event /\ count # Max_Count THEN count + 1
    ELSE count

\* The error bits that the access returns to software and clears.
Returned(apb) == IF apb.op = "ERR" THEN Word(apb.word) ELSE {}

\* Overflows are recorded first, then an APB read of the register clears it.
NextErr(ev, apb) == (r_err \cup s_err(ev)) \ Returned(apb)

NextMask(apb) ==
    IF apb.op = "MASK"
    THEN [r_mask EXCEPT ![apb.ch] =
              (@ \ Word(apb.word)) \cup (apb.bits \cap Word(apb.word))]
    ELSE r_mask

NextApbEvents(apb) == IF apb.op = "EVENT" THEN apb.bits ELSE {}

NextTimerSel(apb) ==
    IF apb.op = "TIMER_SEL"
    THEN [r_timer_sel EXCEPT ![apb.side] = apb.id] ELSE r_timer_sel

\* Mutated forms: interrupt 11 sticks, or is a pulse, as if edge-detected.
MutNextInt11 == r_int11 \/ Fifo!HasData
MutNextInt11Edge == ~r_int11 /\ Fifo!HasData

\* fc_subsystem: no edge detection for the event generator's interrupt.
NextInt11 == Fifo!HasData

\* The core takes interrupt 11 when it runs and irq_q is set, stays in the
\* handler for at least HANDLER_MIN cycles and then returns when it likes.
CoreMay(act) == \/ act = "none"
                \/ act = "ack" /\ core = 0 /\ irq_q
                \/ act = "ret" /\ core >= HANDLER_MIN

NextCore(act) == CASE act = "ack" -> 1
                   [] act = "ret" -> 0
                   [] OTHER -> IF core \in 1 .. HANDLER_MIN - 1
                               THEN core + 1 ELSE core

Count(counter, ids) ==
    [j \in Events |-> IF j \in ids THEN counter[j] + 1 ELSE counter[j]]

Settle(counter, ids) ==
    [j \in Events |-> IF j \in ids /\ counter[j] > 0
                      THEN counter[j] - 1 ELSE counter[j]]

\* The event the core captures in this cycle, if any.
Captured(act) == IF act = "ack" /\ Fifo!HasData THEN {Head(fc_fifo)} ELSE {}

(***************************************************************************)
(* History only.  A read of an error register returns the bits as they     *)
(* were, so a loss in the cycle of the read is not among them.             *)
(***************************************************************************)
NextLog(ev, apb, act, gnt, ack) ==
    LET lost == s_err(ev) \ ack
        for(c) == gnt \ r_mask[c]
    IN  [total   |-> log.total + Cardinality(ev),
         arrived |-> Count(log.arrived, ev),
         lost    |-> Count(log.lost, lost),
         acked   |-> Count(log.acked, ack),
         owed    |-> Count(Settle(log.owed, Captured(act)), ack \cap for("fc")),
         fcdup   |-> log.fcdup \cup (IF fc_event_ready THEN for("fc") \ ack ELSE {}),
         prdup   |-> log.prdup \cup (for("pr") \ ack),
         unseen  |-> (log.unseen \ (r_err \cap Returned(apb))) \cup lost,
         raced   |-> log.raced \cup (lost \cap Returned(apb))]

(***************************************************************************)
(* One cycle: the peripheral lines in per are high, software makes the     *)
(* access apb, the core does act, the cluster's ready input is cl and the  *)
(* reference clock's level is ls.                                          *)
(***************************************************************************)
\* \E x \in {e} makes TLC compute the signals of the cycle once.
Tick(per, apb, act, cl, ls) ==
    \E ev \in {s_events(per)}, gnt \in {s_grant}, any \in {s_event_valid} :
    \E ack \in {s_ack(gnt, cl)} :
        /\ r_event_count' = [j \in Events |->
              s_event_count(r_event_count[j], j \in ev, j \in ack)]
        /\ r_priority' = IF any /\ s_event_ready(gnt, cl)
                         THEN RotateLeft(EVNT_NUM, gnt) ELSE r_priority
        /\ r_err' = NextErr(ev, apb)
        /\ r_mask' = NextMask(apb)
        /\ r_apb_events' = NextApbEvents(apb)
        /\ r_timer_sel' = NextTimerSel(apb)
        /\ r_ls_sync' = <<ls, r_ls_sync[1], r_ls_sync[2]>>
        /\ Fifo!Cycle(s_valid(gnt, "fc"), act = "ack", s_event_data(gnt))
        /\ r_fifo_event' = IF act = "ack" /\ Fifo!HasData
                           THEN Head(fc_fifo) ELSE r_fifo_event
        /\ r_int11' = NextInt11
        /\ irq_q' = r_int11
        /\ core' = NextCore(act)
        /\ log' = NextLog(ev, apb, act, gnt, ack)

\* The environment offers new events only while the bound is not reached.
MayOffer == log.total < MaxArrivals

(***************************************************************************)
(* Any input: a few peripheral lines, one APB access, the core, the        *)
(* cluster and the reference clock move independently in every cycle.      *)
(***************************************************************************)
TickWith(act) ==
    /\ CoreMay(act)
    /\ \E per \in SUBSET Sources, apb \in ApbOps, cl \in ClReady, ls \in LsLevels :
         /\ per # {} \/ apb.op = "EVENT" \/ (ls /\ ~r_ls_sync[1]) => MayOffer
         /\ Tick(per, apb, act, cl, ls)

CoreWaits   == TickWith("none")
CoreAcks    == TickWith("ack")
CoreReturns == TickWith("ret")

Next == CoreWaits \/ CoreAcks \/ CoreReturns

Spec == Init /\ [][Next]_vars

(***************************************************************************)
(* HCLK never stops, and the software on the core leaves every handler and *)
(* takes every interrupt that stays pending.                               *)
(***************************************************************************)
Fairness == WF_vars(Next) /\ WF_vars(CoreAcks) /\ WF_vars(CoreReturns)

FairSpec == Spec /\ Fairness

-----------------------------------------------------------------------------
(* Properties *)

Counters == [Events -> Nat]

\* The registers keep their width and the core's handler count its range.
TypeOK ==
    /\ r_event_count \in [Events -> 0 .. Max_Count]
    /\ r_priority \subseteq Events
    /\ r_mask \in [Channels -> SUBSET Events]
    /\ r_err \subseteq Events
    /\ r_apb_events \subseteq 0 .. APB_EVNT_NUM - 1
    /\ r_ls_sync \in BOOLEAN \X BOOLEAN \X BOOLEAN
    /\ r_timer_sel \in [{"lo", "hi"} -> Nat]
    /\ fc_fifo \in Seq(Events) /\ Len(fc_fifo) <= FC_FIFO_DEPTH
    /\ r_fifo_event \in Events
    /\ r_int11 \in BOOLEAN /\ irq_q \in BOOLEAN
    /\ core \in 0 .. HANDLER_MIN
    /\ log.arrived \in Counters /\ log.lost \in Counters
    /\ log.acked \in Counters /\ log.owed \in Counters

(***************************************************************************)
(* No event disappears or is invented: at any time, every pulse a source   *)
(* ever made is pending in its queue, was popped by the arbiter, or was    *)
(* dropped by a full queue (soc_event_queue.sv:34-49 against the grant and *)
(* ready logic of soc_event_generator.sv:157-169).                         *)
(***************************************************************************)
Conservation ==
    \A j \in Events :
        log.arrived[j] = r_event_count[j] + log.acked[j] + log.lost[j]

InFifo(j) == Cardinality({i \in DOMAIN fc_fifo : fc_fifo[i] = j})

(***************************************************************************)
(* An event popped while unmasked for the FC is in the FC FIFO until the   *)
(* core captures it; and unless another channel ever held the event back,  *)
(* the FIFO holds nothing else (soc_event_generator.sv:161-169, 374-390).  *)
(***************************************************************************)
FcDelivery ==
    \A j \in Events : /\ log.owed[j] <= InFifo(j)
                      /\ j \notin log.fcdup => log.owed[j] = InFifo(j)

(***************************************************************************)
(* The core never takes interrupt 11 with an empty FIFO, although r_int[11]*)
(* and irq_q lag behind the FIFO: a handler never sees a stale event ID    *)
(* (fc_subsystem.sv:145, soc_event_generator.sv:365-372).                  *)
(***************************************************************************)
AckMeansEvent == [][core = 0 /\ core' = 1 => fc_fifo # << >>]_vars

(***************************************************************************)
(* Software that reads the error registers, at any time and in any order,  *)
(* gets to know of every source that lost an event: the bit stays until a  *)
(* read has returned it, whatever else is accessed or overflows meanwhile. *)
(* The one exception is a loss in the very cycle of a read of the source's *)
(* own register (soc_event_generator.sv:218, 304-316).                     *)
(***************************************************************************)
LossesStayVisible == log.unseen \subseteq r_err \cup log.raced

(***************************************************************************)
(* The same without the exception, as the document puts it: a loss that    *)
(* software has not been told of is visible in an error register           *)
(* (soc_event_generator.sv:218, 304-316).                                  *)
(***************************************************************************)
NoSilentLoss == log.unseen \subseteq r_err

(***************************************************************************)
(* A channel that takes an event sees the event popped in that cycle, so   *)
(* no channel takes an event twice (soc_event_generator.sv:153-169).       *)
(***************************************************************************)
TakenMeansPopped == log.fcdup = {} /\ log.prdup = {}

\* Every pending event is eventually popped
\* (soc_event_arbiter.sv:92-103, soc_event_generator.sv:161-169).
EventsDrain == \A j \in Events : r_event_count[j] > 0 ~> r_event_count[j] = 0

\* The interrupt stays until the core has emptied the FC FIFO
\* (soc_event_generator.sv:365-390, fc_subsystem.sv:145).
FifoDrains  == fc_fifo # << >> ~> fc_fifo = << >>
=============================================================================

------------------------------- MODULE UdmaRx -------------------------------
(***************************************************************************)
(* The receive side of the uDMA core, clock cycle by clock cycle: the      *)
(* address generators of the linear channels (udma_ch_addrgen), the        *)
(* arbiter, the grant stage and the L2 FIFO they share (udma_rx_channels), *)
(* the channel registers of a peripheral (udma_spim_reg_if), the APB       *)
(* accesses of the core, and the software that enqueues transfers          *)
(* (plp_udma_canEnqueue, plp_udma_enqueue).  The contents of the L2 FIFO   *)
(* are abstracted to their number and to the entry pushed last.            *)
(***************************************************************************)
EXTENDS Naturals

CONSTANTS N,             \* linear channels, numbered from 0
          Datasize,      \* per channel: bytes of a datum
          Transfers,     \* the transfers software enqueues: [addr, size]
          BUFFER_DEPTH,  \* entries of the L2 FIFO
          CLEAR_BUSY,    \* software clears a channel without looking at EN
          None

Channels == 0 .. N - 1

\* A transfer has an address and a size in bytes; no channel is None.
ASSUME RxAssumption ==
  /\ N \in Nat \ {0}
  /\ Datasize \in [Channels -> {1, 2, 4}]
  /\ Transfers \subseteq [addr : Nat, size : Nat]
  /\ BUFFER_DEPTH \in Nat \ {0}
  /\ CLEAR_BUSY \in BOOLEAN
  /\ None \notin Channels /\ None \notin [addr : Nat, size : Nat]

VARIABLES
  cfg,         \* r_rx_startaddr and r_rx_size of each peripheral
  cfg_en,      \* r_rx_en: one cycle after CFG is written with EN
  cfg_clr,     \* r_rx_clr: one cycle after CFG is written with CLR
  counters,    \* r_counters
  addresses,   \* r_addresses
  en,          \* r_en
  pending,     \* r_pending_en, read as PENDING
  event,       \* r_event
  valid,       \* lin_ch_valid_i: the peripheral holds a datum for L2
  grant,       \* r_grant: the channel whose datum was sampled last, or None
  toadd,       \* s_datasize_toadd of r_size, shared by all channels
  priority,    \* r_priority of the arbiter
  elements,    \* entries in the L2 FIFO
  wr,          \* the entry pushed into the L2 FIFO by the last clock edge, or None
  penable,     \* this cycle is the access phase of an APB transfer
  sw           \* the software: what it does next, to which channel

regs == <<cfg, cfg_en, cfg_clr>>
chan == <<counters, addresses, en, pending, event>>
core == <<valid, grant, toadd, priority, elements, wr>>
vars == <<regs, chan, core, penable, sw>>

Idle == [addr |-> 0, size |-> 0]

Init == /\ cfg = [c \in Channels |-> Idle]
        /\ cfg_en = [c \in Channels |-> FALSE]
        /\ cfg_clr = [c \in Channels |-> FALSE]
        /\ counters = [c \in Channels |-> 0]
        /\ addresses = [c \in Channels |-> 0]
        /\ en = [c \in Channels |-> FALSE]
        /\ pending = [c \in Channels |-> FALSE]
        /\ event = [c \in Channels |-> FALSE]
        /\ valid = [c \in Channels |-> FALSE]
        /\ grant = None
        /\ toadd = 1
        /\ priority = 0
        /\ elements = 0
        /\ wr = None
        /\ penable = FALSE
        /\ sw = [op |-> "idle", ch |-> 0]

----------------------------------------------------------------------------
(* udma_ch_addrgen *)

\* s_sample_indata = int_not_stall_i: there is room in the L2 FIFO.
NotStall == elements < BUFFER_DEPTH

s_compare(c) == counters[c] <= toadd

\* The datum in the grant stage is the channel's, and leaves it in this cycle.
Granted(c) == NotStall /\ en[c] /\ grant = c

\* The registers reloaded from the peripheral's, cleared, advanced or kept.
Reloaded(c, e) == [en |-> TRUE, counters |-> cfg[c].size,
                   addresses |-> cfg[c].addr, event |-> e]
Stopped(e) == [en |-> FALSE, counters |-> 0, addresses |-> 0, event |-> e]
Advanced(c) == [en |-> TRUE, counters |-> counters[c] - toadd,
                addresses |-> addresses[c] + toadd, event |-> FALSE]
Kept(c) == [en |-> en[c], counters |-> counters[c],
            addresses |-> addresses[c], event |-> FALSE]

proc_next_val(c) ==
  IF cfg_en[c] /\ ~ en[c] THEN Reloaded(c, FALSE)
  ELSE IF cfg_clr[c] THEN Stopped(FALSE)
  ELSE IF Granted(c) /\ s_compare(c)
       THEN IF pending[c] \/ cfg_en[c] THEN Reloaded(c, TRUE) ELSE Stopped(TRUE)
  ELSE IF Granted(c) THEN Advanced(c)
  ELSE Kept(c)

\* Mutant: an enable in the cycle of the last datum is both taken and queued.
MutPendingEn(c) ==
  IF cfg_en[c] /\ en[c] THEN TRUE
  ELSE IF Granted(c) /\ s_compare(c) THEN FALSE
  ELSE pending[c]

proc_pending_en(c) ==
  IF cfg_en[c] /\ en[c] /\ ~ (s_compare(c) /\ NotStall /\ grant = c) THEN TRUE
  ELSE IF Granted(c) /\ s_compare(c) THEN FALSE
  ELSE pending[c]

ff_addr ==
  /\ en'        = [c \in Channels |-> proc_next_val(c).en]
  /\ counters'  = [c \in Channels |-> proc_next_val(c).counters]
  /\ addresses' = [c \in Channels |-> proc_next_val(c).addresses]
  /\ event'     = [c \in Channels |-> proc_next_val(c).event]
  /\ pending'   = [c \in Channels |-> proc_pending_en(c)]

----------------------------------------------------------------------------
(* udma_rx_channels *)

\* Mutant: a channel requests with the enable of this cycle.
MutReq == {c \in Channels : valid[c] /\ en[c]}

\* s_req: a channel requests with the enable of the next cycle.
s_req == {c \in Channels : valid[c] /\ proc_next_val(c).en}

\* Channels from the one with priority on, in a circle.
Distance(c) == IF c >= priority THEN c - priority ELSE c + N - priority

s_grant == IF s_req = {} THEN None
           ELSE CHOOSE c \in s_req : \A d \in s_req : Distance(c) <= Distance(d)

\* The priority goes to the channel after the granted one.
After(c) == IF c = N - 1 THEN 0 ELSE c + 1

\* Mutant: the first channel always has priority.
MutArbiter == priority' = 0

udma_arbiter ==
  priority' = IF NotStall /\ s_req # {} THEN After(s_grant) ELSE priority

ff_data == IF NotStall
           THEN /\ grant' = s_grant
                /\ toadd' = IF s_grant = None THEN 1 ELSE Datasize[s_grant]
           ELSE UNCHANGED <<grant, toadd>>

\* A peripheral whose datum is sampled may have the next one (arrive).
Peripherals(arrive) ==
  valid' = [c \in Channels |-> \/ c \in arrive
                               \/ valid[c] /\ ~ (NotStall /\ s_grant = c)]

\* Mutant: the grant stage pushes into a full FIFO.
MutL2Fifo(l2_gnt) ==
  LET push == grant # None
      pop  == l2_gnt /\ elements > 0
  IN  /\ wr' = IF push THEN [ch |-> grant, addr |-> addresses[grant]] ELSE None
      /\ elements' = (elements + (IF push THEN 1 ELSE 0)) - (IF pop THEN 1 ELSE 0)

\* s_push_l2 = r_anygrant; the FIFO takes an entry only when it is not full.
L2Fifo(l2_gnt) ==
  LET push == grant # None /\ NotStall
      pop  == l2_gnt /\ elements > 0
  IN  /\ wr' = IF push THEN [ch |-> grant, addr |-> addresses[grant]] ELSE None
      /\ elements' = (elements + (IF push THEN 1 ELSE 0)) - (IF pop THEN 1 ELSE 0)

----------------------------------------------------------------------------
(* The peripheral's registers, written and read by the software *)

\* The registers keep their value and the two pulses end.
NoWrite == /\ UNCHANGED cfg
           /\ cfg_en' = [c \in Channels |-> FALSE]
           /\ cfg_clr' = [c \in Channels |-> FALSE]

\* No access, or the first phase of one; an access ends in its second phase.
Quiet == /\ ~ penable
         /\ penable' \in BOOLEAN
         /\ NoWrite
         /\ UNCHANGED sw

\* plp_udma_canEnqueue and plp_udma_busy read CFG; EN shows s_en.
plp_udma_canEnqueue(c) ==
  /\ penable /\ penable' = FALSE
  /\ sw.op = "idle"
  /\ sw' = IF ~ pending[c] THEN [op |-> "saddr", ch |-> c] ELSE sw
  /\ NoWrite

plp_udma_busy(c) ==
  /\ penable /\ penable' = FALSE
  /\ sw.op = "idle"
  /\ sw' = IF ~ proc_next_val(c).en \/ CLEAR_BUSY
           THEN [op |-> "clear", ch |-> c] ELSE sw
  /\ NoWrite

\* plp_udma_enqueue writes SADDR, SIZE and CFG with EN.
WriteSaddr(t) ==
  /\ penable /\ penable' = FALSE
  /\ sw.op = "saddr"
  /\ cfg' = [cfg EXCEPT ![sw.ch].addr = t.addr]
  /\ cfg_en' = [c \in Channels |-> FALSE]
  /\ cfg_clr' = [c \in Channels |-> FALSE]
  /\ sw' = [sw EXCEPT !.op = "size"]

WriteSize(t) ==
  /\ penable /\ penable' = FALSE
  /\ sw.op = "size"
  /\ t.addr = cfg[sw.ch].addr
  /\ cfg' = [cfg EXCEPT ![sw.ch].size = t.size]
  /\ cfg_en' = [c \in Channels |-> FALSE]
  /\ cfg_clr' = [c \in Channels |-> FALSE]
  /\ sw' = [sw EXCEPT !.op = "cfg"]

WriteCfg ==
  /\ penable /\ penable' = FALSE
  /\ sw.op \in {"cfg", "clear"}
  /\ UNCHANGED cfg
  /\ cfg_en' = [c \in Channels |-> sw.op = "cfg" /\ c = sw.ch]
  /\ cfg_clr' = [c \in Channels |-> sw.op = "clear" /\ c = sw.ch]
  /\ sw' = [sw EXCEPT !.op = "idle"]

Software == \/ Quiet
            \/ \E c \in Channels : plp_udma_canEnqueue(c) \/ plp_udma_busy(c)
            \/ \E t \in Transfers : WriteSaddr(t) \/ WriteSize(t)
            \/ WriteCfg

\* One clock cycle: L2 grants or not, and data arrive for some peripherals.
Next == /\ ff_addr /\ udma_arbiter /\ ff_data
        /\ \E l2_gnt \in BOOLEAN : L2Fifo(l2_gnt)
        /\ \E arrive \in SUBSET Channels : Peripherals(arrive)
        /\ Software

Spec == Init /\ [][Next]_vars

\* The clock runs, L2 takes data again and again, and every peripheral has
\* data again and again.
FairSpec == /\ Spec
            /\ WF_vars(Next)
            /\ []<>NotStall
            /\ \A c \in Channels : []<>valid[c]

----------------------------------------------------------------------------
(* Properties *)

Descriptor == [addr : Nat, size : Nat]
Write == [ch : Channels, addr : Nat]

\* The registers have their types and the L2 FIFO never holds more entries
\* than it has places: the grant stage waits while it is full.
TypeOK ==
  /\ cfg \in [Channels -> Descriptor]
  /\ cfg_en \in [Channels -> BOOLEAN] /\ cfg_clr \in [Channels -> BOOLEAN]
  /\ counters \in [Channels -> Nat] /\ addresses \in [Channels -> Nat]
  /\ en \in [Channels -> BOOLEAN] /\ pending \in [Channels -> BOOLEAN]
  /\ event \in [Channels -> BOOLEAN] /\ valid \in [Channels -> BOOLEAN]
  /\ grant \in Channels \cup {None} /\ toadd \in {1, 2, 4}
  /\ priority \in Channels /\ elements \in 0 .. BUFFER_DEPTH
  /\ wr \in Write \cup {None}
  /\ penable \in BOOLEAN
  /\ sw \in [op : {"idle", "saddr", "size", "cfg", "clear"}, ch : Channels]

\* A datum is taken from a peripheral only for a transfer that still needs
\* it: whatever waits in the grant stage, stalled or not, belongs to a channel
\* that is enabled (s_req uses the enable of the next cycle for that).
GrantHasTransfer == grant # None => en[grant] /\ toadd = Datasize[grant]

\* Why software may rely on PENDING: it is set for enabled channels only, an
\* enable pulse finds no queued transfer, and no pulse is under way in the
\* access phase of the next APB transfer, when PENDING can be read.
PulseInv == /\ \A c \in Channels : /\ pending[c] => en[c] /\ ~ cfg_en[c]
                                   /\ cfg_clr[c] => ~ en[c] /\ ~ cfg_en[c]
                                   /\ cfg_en[c] => cfg[c] \in Transfers
                                   /\ penable => ~ cfg_en[c] /\ ~ cfg_clr[c]

\* Between its check and its enable, software owns the channel's registers.
SwInv == LET c == sw.ch
         IN  /\ sw.op # "idle" => ~ pending[c] /\ ~ cfg_en[c]
             /\ sw.op = "clear" => ~ en[c]
             /\ sw.op = "cfg" => cfg[c] \in Transfers

\* The transfer software enqueues, in the cycle of the enable pulse.
Asked == [c \in Channels |-> IF cfg_en[c] THEN cfg[c] ELSE None]

\* The queue of a channel as software knows it: the transfer in the address
\* generator, and the one in the peripheral's registers, from the cycle of the
\* enable pulse on and for as long as PENDING is set.
Running == [c \in Channels |-> IF en[c] THEN [addr |-> addresses[c], size |-> counters[c]]
                               ELSE Asked[c]]
Waiting == [c \in Channels |-> IF en[c] /\ (pending[c] \/ cfg_en[c])
                               THEN cfg[c] ELSE None]

Queue == INSTANCE TransferQueue WITH ask <- Asked, cur <- Running, nxt <- Waiting

\* The channels are two-place transfer queues (udma_v3.h, lines 26-27), also
\* when an enable falls into the cycle of a last datum, when it finds the L2
\* FIFO full, and when another channel with data of another size is granted:
\* each transfer writes its addresses once, in order, and ends with an event.
ImplementsTransferQueue == Queue!Spec

\* A transfer that runs ends: no channel is starved by the others, and none
\* waits for ever for the L2 FIFO.
TransfersEnd == \A c \in Channels : en[c] ~> event[c]

\* PENDING is the state of an enabled channel (udma_qspim.rst, line 848).
PendingMeansEnabled == \A c \in Channels : pending[c] => en[c]

=============================================================================

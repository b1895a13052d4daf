---------------------------- MODULE UdmaRxProofs ----------------------------
(***************************************************************************)
(* Proofs about UdmaRx, for any number of channels, data sizes, set of     *)
(* transfers and FIFO depth, and software that looks before it clears.     *)
(***************************************************************************)
EXTENDS UdmaRx, WellFoundedInduction, TLAPS

LooksFirst == ~ CLEAR_BUSY

RxInv == TypeOK /\ GrantHasTransfer /\ PulseInv /\ SwInv

USE RxAssumption DEF Channels

(***************************************************************************)
(* Operators                                                               *)
(***************************************************************************)

NextVal == [en : BOOLEAN, counters : Nat, addresses : Nat, event : BOOLEAN]

\* The next value of a channel's registers is of their type: the counter is
\* decremented only while it is larger than a datum.
LEMMA NextValType ==
  ASSUME TypeOK, NEW c \in Channels
  PROVE  proc_next_val(c) \in NextVal
<1> USE DEF TypeOK, NextVal
<1>1. cfg[c] \in [addr : Nat, size : Nat]
  BY DEF Descriptor
<1>2. \A e \in BOOLEAN : Reloaded(c, e) \in NextVal
  BY <1>1 DEF Reloaded
<1>3. \A e \in BOOLEAN : Stopped(e) \in NextVal
  BY DEF Stopped
<1>4. ~ s_compare(c) => Advanced(c) \in NextVal
  <2>1. ASSUME ~ s_compare(c) PROVE counters[c] - toadd \in Nat /\ addresses[c] + toadd \in Nat
    <3>1. counters[c] \in Nat /\ addresses[c] \in Nat /\ toadd \in Nat
      OBVIOUS
    <3> HIDE DEF TypeOK
    <3>2. QED BY <2>1, <3>1 DEF s_compare
  <2>2. QED BY <2>1 DEF Advanced
<1>5. Kept(c) \in NextVal
  BY DEF Kept
<1>6. QED BY ONLY <1>2, <1>3, <1>4, <1>5 DEF proc_next_val

LEMMA PendingType ==
  ASSUME TypeOK, NEW c \in Channels
  PROVE  proc_pending_en(c) \in BOOLEAN
BY DEF TypeOK, proc_pending_en

\* The arbiter grants a channel that requests, and only when there is one.
LEMMA GrantIsRequest ==
  ASSUME TypeOK
  PROVE  /\ s_req = {} => s_grant = None
         /\ s_req # {} => s_grant \in s_req
<1>1. CASE s_req = {}
  BY <1>1 DEF s_grant
<1>2. CASE s_req # {}
  <2> DEFINE D == {Distance(c) : c \in s_req}
  <2>1. \A c \in Channels : Distance(c) \in Nat
    BY DEF Distance, TypeOK
  <2>2. s_req \subseteq Channels
    BY DEF s_req
  <2>3. D \subseteq Nat /\ D # {}
    <3>1. PICK c \in s_req : TRUE
      BY <1>2
    <3>2. Distance(c) \in D
      BY <3>1
    <3>3. QED BY <2>1, <2>2, <3>2
  <2> DEFINE R == {p \in Nat \X Nat : p[1] < p[2]}
  <2>4. IsWellFoundedOn(R, Nat)
    <3>1. R = OpToRel(<, Nat)
      BY DEF OpToRel
    <3>2. QED BY <3>1, NatLessThanWellFounded
  <2>5. PICK n \in D : \A m \in D : ~ (<<m, n>> \in R)
    BY <2>3, <2>4, WFMin
  <2>6. PICK c \in s_req : n = Distance(c)
    BY <2>5
  <2>7. ASSUME NEW d \in s_req PROVE Distance(c) <= Distance(d)
    <3>1. Distance(d) \in D /\ Distance(c) \in Nat /\ Distance(d) \in Nat
      BY <2>1, <2>2
    <3>2. ~ (<<Distance(d), Distance(c)>> \in R)
      BY <2>5, <2>6, <3>1
    <3>3. QED BY <3>1, <3>2
  <2>8. QED BY <1>2, <2>7 DEF s_grant
<1>3. QED BY <1>1, <1>2

\* What the grant stage holds next: nothing, or the datum of a channel that is
\* enabled then.
LEMMA GrantType ==
  ASSUME TypeOK
  PROVE  \/ s_req = {} /\ s_grant = None
         \/ s_req # {} /\ s_grant \in Channels /\ proc_next_val(s_grant).en
BY GrantIsRequest DEF s_req

----------------------------------------------------------------------------
(***************************************************************************)
(* The inductive invariant                                                 *)
(***************************************************************************)

LEMMA RxInit == Init => RxInv
<1> 0 \in Channels
  OBVIOUS
<1> HIDE DEF Channels
<1>1. Init => TypeOK
  <2>1. Idle \in Descriptor
    BY DEF Idle, Descriptor
  <2>2. 0 \in 0 .. BUFFER_DEPTH
    OBVIOUS
  <2>3. Init => sw \in [op : {"idle", "saddr", "size", "cfg", "clear"}, ch : Channels]
    BY DEF Init
  <2>4. Init => /\ cfg \in [Channels -> Descriptor]
                /\ counters \in [Channels -> Nat] /\ addresses \in [Channels -> Nat]
    BY <2>1 DEF Init
  <2>5. Init => /\ cfg_en \in [Channels -> BOOLEAN] /\ cfg_clr \in [Channels -> BOOLEAN]
                /\ en \in [Channels -> BOOLEAN] /\ pending \in [Channels -> BOOLEAN]
                /\ event \in [Channels -> BOOLEAN] /\ valid \in [Channels -> BOOLEAN]
    BY DEF Init
  <2>6. Init => /\ grant \in Channels \cup {None} /\ toadd \in {1, 2, 4}
                /\ priority \in Channels /\ elements \in 0 .. BUFFER_DEPTH
                /\ wr \in Write \cup {None} /\ penable \in BOOLEAN
    BY <2>2 DEF Init
  <2>7. QED BY <2>3, <2>4, <2>5, <2>6 DEF TypeOK
<1>2. Init => GrantHasTransfer /\ PulseInv /\ SwInv
  BY DEF Init, GrantHasTransfer, PulseInv, SwInv
<1>3. QED BY <1>1, <1>2 DEF RxInv

\* The clocked part of a cycle leaves every register in its type.
LEMMA CycleType ==
  ASSUME TypeOK, Next
  PROVE  TypeOK'
<1> USE DEF TypeOK
<1>1. /\ en' \in [Channels -> BOOLEAN] /\ event' \in [Channels -> BOOLEAN]
      /\ counters' \in [Channels -> Nat] /\ addresses' \in [Channels -> Nat]
  <2>1. \A c \in Channels : /\ proc_next_val(c).en \in BOOLEAN
                            /\ proc_next_val(c).event \in BOOLEAN
                            /\ proc_next_val(c).counters \in Nat
                            /\ proc_next_val(c).addresses \in Nat
    BY NextValType DEF NextVal
  <2> HIDE DEF Channels
  <2>2. QED BY <2>1 DEF Next, ff_addr
<1>2. pending' \in [Channels -> BOOLEAN]
  BY PendingType DEF Next, ff_addr
<1>3. /\ grant' \in Channels \cup {None} /\ toadd' \in {1, 2, 4}
      /\ priority' \in Channels
  <2>1. CASE NotStall
    <3>1. /\ grant' = s_grant /\ toadd' = IF s_grant = None THEN 1 ELSE Datasize[s_grant]
          /\ priority' = IF s_req # {} THEN After(s_grant) ELSE priority
      BY <2>1 DEF Next, ff_data, udma_arbiter
    <3>2. \A c \in Channels : After(c) \in Channels /\ Datasize[c] \in {1, 2, 4}
      BY DEF After
    <3> HIDE DEF Channels
    <3>3. QED BY <3>1, <3>2, GrantType
  <2>2. CASE ~ NotStall
    BY <2>2 DEF Next, ff_data, udma_arbiter
  <2>3. QED BY <2>1, <2>2
<1>4. valid' \in [Channels -> BOOLEAN]
  BY DEF Next, Peripherals
<1>5. elements' \in 0 .. BUFFER_DEPTH /\ wr' \in Write \cup {None}
  <2>1. PICK l2_gnt \in BOOLEAN : L2Fifo(l2_gnt)
    BY DEF Next
  <2>2. elements' \in 0 .. BUFFER_DEPTH
    BY <2>1 DEF L2Fifo, NotStall
  <2>3. wr' \in Write \cup {None}
    <3> HIDE DEF Channels
    <3> QED BY <2>1 DEF L2Fifo, Write
  <2>4. QED BY <2>2, <2>3
<1>6. /\ cfg' \in [Channels -> Descriptor] /\ penable' \in BOOLEAN
      /\ cfg_en' \in [Channels -> BOOLEAN] /\ cfg_clr' \in [Channels -> BOOLEAN]
      /\ sw' \in [op : {"idle", "saddr", "size", "cfg", "clear"}, ch : Channels]
  <2>1. Software
    BY DEF Next
  <2> HIDE DEF Channels
  <2>2. CASE Quiet
    BY <2>2 DEF Quiet, NoWrite
  <2>3. ASSUME NEW c \in Channels, plp_udma_canEnqueue(c) \/ plp_udma_busy(c)
        PROVE  sw' \in [op : {"idle", "saddr", "clear"}, ch : Channels] \cup {sw}
    BY <2>3 DEF plp_udma_canEnqueue, plp_udma_busy
  <2>4. ASSUME NEW c \in Channels, plp_udma_canEnqueue(c) \/ plp_udma_busy(c)
        PROVE  /\ cfg' = cfg /\ penable' = FALSE
               /\ cfg_en' \in [Channels -> BOOLEAN] /\ cfg_clr' \in [Channels -> BOOLEAN]
    BY <2>4 DEF plp_udma_canEnqueue, plp_udma_busy, NoWrite
  <2>5. ASSUME NEW t \in Transfers, WriteSaddr(t) \/ WriteSize(t)
        PROVE  cfg' \in [Channels -> Descriptor]
    <3>1. t \in Descriptor /\ t.addr \in Nat /\ t.size \in Nat
      BY DEF Descriptor
    <3>2. CASE WriteSaddr(t)
      <4>1. cfg' = [cfg EXCEPT ![sw.ch] = [cfg[sw.ch] EXCEPT !.addr = t.addr]]
        BY <3>2 DEF WriteSaddr
      <4>2. QED BY <3>1, <4>1 DEF Descriptor
    <3>3. CASE WriteSize(t)
      <4>1. cfg' = [cfg EXCEPT ![sw.ch] = [cfg[sw.ch] EXCEPT !.size = t.size]]
        BY <3>3 DEF WriteSize
      <4>2. QED BY <3>1, <4>1 DEF Descriptor
    <3>4. QED BY <2>5, <3>2, <3>3
  <2>6. ASSUME NEW t \in Transfers, WriteSaddr(t) \/ WriteSize(t)
        PROVE  /\ penable' = FALSE
               /\ cfg_en' \in [Channels -> BOOLEAN] /\ cfg_clr' \in [Channels -> BOOLEAN]
               /\ sw' \in [op : {"size", "cfg"}, ch : Channels]
    <3>1. CASE WriteSaddr(t)
      BY <3>1 DEF WriteSaddr
    <3>2. CASE WriteSize(t)
      BY <3>2 DEF WriteSize
    <3>3. QED BY <2>6, <3>1, <3>2
  <2>7. CASE WriteCfg
    BY <2>7 DEF WriteCfg
  <2>8. QED BY <2>1, <2>2, <2>3, <2>4, <2>5, <2>6, <2>7 DEF Software
<1>7. QED BY <1>1, <1>2, <1>3, <1>4, <1>5, <1>6

\* The datum in the grant stage stays with an enabled channel: sampled, it is
\* one of a channel enabled in the next cycle; stalled, its channel is neither
\* at its end nor cleared.
LEMMA CycleGrant ==
  ASSUME RxInv, Next
  PROVE  GrantHasTransfer'
<1> USE DEF RxInv
<1>1. CASE NotStall
  <2>1. grant' = s_grant /\ toadd' = IF s_grant = None THEN 1 ELSE Datasize[s_grant]
    BY <1>1 DEF Next, ff_data
  <2>2. QED BY <2>1, GrantType DEF Next, ff_addr, GrantHasTransfer
<1>2. CASE ~ NotStall
  <2>1. grant' = grant /\ toadd' = toadd
    BY <1>2 DEF Next, ff_data
  <2>2. ASSUME grant # None PROVE en'[grant]
    <3>1. grant \in Channels /\ en[grant] /\ ~ cfg_clr[grant] /\ ~ Granted(grant)
      BY <2>2, <1>2 DEF TypeOK, GrantHasTransfer, PulseInv, Granted
    <3>2. proc_next_val(grant).en
      BY <3>1 DEF proc_next_val, Kept, Granted
    <3>3. QED BY <3>1, <3>2 DEF Next, ff_addr
  <2>3. QED BY <2>1, <2>2 DEF GrantHasTransfer
<1>3. QED BY <1>1, <1>2

\* How a cycle changes what software sees of a channel.
LEMMA Enables ==
  ASSUME RxInv, Next, NEW c \in Channels
  PROVE  /\ cfg_en[c] => en'[c]
         /\ pending'[c] => en'[c] /\ (pending[c] \/ cfg_en[c])
         /\ en'[c] => en[c] \/ cfg_en[c]
<1>1. en'[c] = proc_next_val(c).en /\ pending'[c] = proc_pending_en(c)
  BY DEF Next, ff_addr
<1>2. QED
  BY <1>1 DEF RxInv, TypeOK, PulseInv, proc_next_val, proc_pending_en, Reloaded,
              Stopped, Advanced, Kept, Granted

LEMMA CyclePulse ==
  ASSUME LooksFirst, RxInv, Next
  PROVE  PulseInv' /\ SwInv'
<1> USE DEF RxInv
<1> TypeOK'
  BY CycleType
<1> DEFINE Seen(c) == /\ cfg_en[c] => en'[c]
                      /\ pending'[c] => en'[c] /\ (pending[c] \/ cfg_en[c])
                      /\ en'[c] => en[c] \/ cfg_en[c]
<1>1. \A c \in Channels : Seen(c)
  BY Enables
<1>2. CASE Quiet
  BY <1>1, <1>2 DEF Quiet, NoWrite, PulseInv, SwInv, TypeOK
<1>3. ASSUME NEW c \in Channels, plp_udma_canEnqueue(c)
      PROVE  PulseInv' /\ SwInv'
  BY <1>1, <1>3 DEF plp_udma_canEnqueue, NoWrite, PulseInv, SwInv, TypeOK
<1>4. ASSUME NEW c \in Channels, plp_udma_busy(c)
      PROVE  PulseInv' /\ SwInv'
  <2>1. en'[c] = proc_next_val(c).en
    BY DEF Next, ff_addr
  <2>2. QED
    BY <1>1, <1>4, <2>1 DEF LooksFirst, plp_udma_busy, NoWrite, PulseInv, SwInv, TypeOK
<1>5. ASSUME NEW t \in Transfers, WriteSaddr(t)
      PROVE  PulseInv' /\ SwInv'
  BY <1>1, <1>5 DEF WriteSaddr, PulseInv, SwInv, TypeOK
<1>6. ASSUME NEW t \in Transfers, WriteSize(t)
      PROVE  PulseInv' /\ SwInv'
  <2>1. cfg'[sw.ch] = t
    <3>1. /\ sw.ch \in Channels /\ cfg[sw.ch] \in [addr : Nat, size : Nat]
          /\ t \in [addr : Nat, size : Nat] /\ t.addr = cfg[sw.ch].addr
      BY <1>6 DEF WriteSize, TypeOK, Descriptor
    <3>2. cfg'[sw.ch] = [cfg[sw.ch] EXCEPT !.size = t.size]
      BY <1>6, <3>1 DEF WriteSize, TypeOK
    <3>3. QED BY <3>1, <3>2
  <2>2. QED BY <1>1, <1>6, <2>1 DEF WriteSize, PulseInv, SwInv, TypeOK
<1>7. CASE WriteCfg
  BY <1>1, <1>7 DEF WriteCfg, PulseInv, SwInv, TypeOK
<1>8. QED
  BY <1>2, <1>3, <1>4, <1>5, <1>6, <1>7 DEF Next, Software

LEMMA RxStep ==
  ASSUME LooksFirst, RxInv, [Next]_vars
  PROVE  RxInv'
<1>1. CASE Next
  BY <1>1, CycleType, CycleGrant, CyclePulse DEF RxInv
<1>2. CASE UNCHANGED vars
  BY <1>2 DEF RxInv, vars, regs, chan, core, TypeOK, GrantHasTransfer, PulseInv, SwInv
<1>3. QED BY <1>1, <1>2

LEMMA RxInvHolds == ASSUME LooksFirst PROVE Spec => []RxInv
BY RxInit, RxStep, PTL DEF Spec

\* The registers of the channels and of the L2 FIFO keep their width and depth,
\* for every number of channels and every data size.
THEOREM RxTyped == ASSUME LooksFirst PROVE Spec => []TypeOK
BY RxInvHolds, PTL DEF RxInv

\* A datum is taken from a peripheral only for a transfer that still needs it,
\* whatever the channels, the data sizes and the depth of the L2 FIFO
\* (udma_rx_channels requests with the enable of the next cycle).
THEOREM GrantsHaveTransfers ==
  ASSUME LooksFirst PROVE Spec => []GrantHasTransfer
BY RxInvHolds, PTL DEF RxInv

----------------------------------------------------------------------------
(***************************************************************************)
(* Refinement: the channels are two-place transfer queues                  *)
(***************************************************************************)

\* Software enables a channel only when nothing is queued on it, and leaves the
\* registers of a queued transfer alone.
LEMMA SoftwareIsPolite ==
  ASSUME RxInv, Next, RxInv', NEW c \in Channels
  PROVE  /\ cfg_en'[c] => cfg'[c] \in Transfers /\ ~ pending[c] /\ ~ cfg_en[c]
         /\ pending[c] \/ cfg_en[c] => cfg'[c] = cfg[c]
<1> USE DEF RxInv
<1>1. cfg_en'[c] => cfg'[c] \in Transfers
  BY DEF PulseInv
<1>2. cfg_en'[c] => ~ pending[c] /\ ~ cfg_en[c]
  <2>1. CASE WriteCfg
    BY <2>1 DEF WriteCfg, SwInv
  <2>2. CASE ~ WriteCfg
    BY <2>2 DEF Next, Software, Quiet, NoWrite, plp_udma_canEnqueue, plp_udma_busy,
                WriteSaddr, WriteSize
  <2>3. QED BY <2>1, <2>2
<1>3. pending[c] \/ cfg_en[c] => cfg'[c] = cfg[c]
  <2>1. ASSUME NEW t \in Transfers, WriteSaddr(t)
        PROVE  sw.ch # c => cfg'[c] = cfg[c]
    BY <2>1 DEF WriteSaddr, TypeOK
  <2>2. ASSUME NEW t \in Transfers, WriteSize(t)
        PROVE  sw.ch # c => cfg'[c] = cfg[c]
    BY <2>2 DEF WriteSize, TypeOK
  <2>3. ASSUME NEW t \in Transfers, WriteSaddr(t) \/ WriteSize(t)
        PROVE  ~ pending[sw.ch] /\ ~ cfg_en[sw.ch]
    BY <2>3 DEF WriteSaddr, WriteSize, SwInv
  <2>4. QED
    BY <2>1, <2>2, <2>3 DEF Next, Software, Quiet, NoWrite, plp_udma_canEnqueue,
                            plp_udma_busy, WriteCfg
<1>4. QED BY <1>1, <1>2, <1>3

Mover == IF NotStall THEN grant ELSE None

\* The mapped values of a channel, without the functions around them.
LEMMA Mapped ==
  ASSUME TypeOK, NEW c \in Channels
  PROVE  /\ Asked[c] = IF cfg_en[c] THEN cfg[c] ELSE None
         /\ Running[c] = IF en[c] THEN [addr |-> addresses[c], size |-> counters[c]]
                         ELSE Asked[c]
         /\ Waiting[c] = IF en[c] /\ (pending[c] \/ cfg_en[c]) THEN cfg[c] ELSE None
         /\ cfg[c] # None /\ cfg[c] = [addr |-> cfg[c].addr, size |-> cfg[c].size]
         /\ [addr |-> addresses[c], size |-> counters[c]] # None
<1>1. /\ cfg[c] \in [addr : Nat, size : Nat]
      /\ [addr |-> addresses[c], size |-> counters[c]] \in [addr : Nat, size : Nat]
  BY DEF TypeOK, Descriptor
<1>2. QED BY <1>1 DEF Asked, Running, Waiting

\* One channel in one cycle, by what it does: nothing, start, wait for data,
\* move a datum that is not the last, move the last one.
LEMMA ChannelStep ==
  ASSUME RxInv, Next, RxInv', NEW c \in Channels
  PROVE  Queue!Channel(c, Mover = c)
<1> USE DEF RxInv
<1>1. /\ en'[c] = proc_next_val(c).en /\ event'[c] = proc_next_val(c).event
      /\ counters'[c] = proc_next_val(c).counters
      /\ addresses'[c] = proc_next_val(c).addresses
      /\ pending'[c] = proc_pending_en(c)
  BY DEF Next, ff_addr
<1>2. /\ cfg_en'[c] => cfg'[c] \in Transfers /\ ~ pending[c] /\ ~ cfg_en[c]
      /\ pending[c] \/ cfg_en[c] => cfg'[c] = cfg[c]
  BY SoftwareIsPolite
<1>3. /\ pending[c] => en[c] /\ ~ cfg_en[c]
      /\ cfg_clr[c] => ~ en[c] /\ ~ cfg_en[c]
      /\ grant = c => en[c] /\ toadd = Datasize[c]
      /\ c # None
  BY DEF PulseInv, GrantHasTransfer
<1>4. Mover = c <=> Granted(c)
  BY <1>3 DEF Mover, Granted
<1>5. /\ Asked'[c] = IF cfg_en'[c] THEN cfg'[c] ELSE None
      /\ Running'[c] = IF en'[c] THEN [addr |-> addresses'[c], size |-> counters'[c]]
                       ELSE Asked'[c]
      /\ Waiting'[c] = IF en'[c] /\ (pending'[c] \/ cfg_en'[c]) THEN cfg'[c] ELSE None
  BY DEF Asked, Running, Waiting
<1>6. /\ Running[c] = IF en[c] THEN [addr |-> addresses[c], size |-> counters[c]]
                      ELSE IF cfg_en[c] THEN cfg[c] ELSE None
      /\ Waiting[c] = IF en[c] /\ (pending[c] \/ cfg_en[c]) THEN cfg[c] ELSE None
      /\ cfg[c] # None /\ cfg[c] = [addr |-> cfg[c].addr, size |-> cfg[c].size]
      /\ [addr |-> addresses[c], size |-> counters[c]] # None
      /\ [addr |-> addresses[c] + toadd, size |-> counters[c] - toadd] # None \/ s_compare(c)
  <2>1. [addr |-> addresses[c] + toadd, size |-> counters[c] - toadd] # None \/ s_compare(c)
    <3>1. addresses[c] \in Nat /\ counters[c] \in Nat /\ toadd \in Nat
      <4>1. TypeOK
        OBVIOUS
      <4>2. QED BY ONLY <4>1, c \in Channels DEF TypeOK
    <3>2. ~ s_compare(c) => counters[c] - toadd \in Nat
      BY <3>1 DEF s_compare
    <3>3. QED BY <3>1, <3>2
  <2>2. QED BY <2>1, Mapped
<1>7. Asked'[c] \in Transfers \cup {None}
  BY <1>2, <1>5
<1>8. pending[c] \/ cfg_en[c] => Asked'[c] = None
  BY <1>2, <1>5
<1> HIDE DEF RxInv
<1>9. CASE ~ en[c] /\ ~ cfg_en[c]
  <2>1. ~ en'[c] /\ event'[c] = FALSE
    BY <1>1, <1>9 DEF proc_next_val, Granted, Kept, Stopped
  <2>2. /\ Running[c] = None /\ Waiting[c] = None
        /\ Running'[c] = Asked'[c] /\ Waiting'[c] = None /\ Mover # c
    BY <1>4, <1>5, <1>6, <1>9, <2>1 DEF Granted
  <2>3. QED BY <1>7, <2>1, <2>2 DEF Queue!Channel
<1>10. CASE ~ en[c] /\ cfg_en[c]
  <2>1. /\ en'[c] /\ event'[c] = FALSE /\ ~ pending'[c] /\ ~ cfg_en'[c]
        /\ counters'[c] = cfg[c].size /\ addresses'[c] = cfg[c].addr
    BY <1>1, <1>2, <1>3, <1>10 DEF proc_next_val, proc_pending_en, Granted, Reloaded
  <2>2. /\ Running[c] = cfg[c] /\ Waiting[c] = None /\ cfg[c] # None /\ Asked'[c] = None
        /\ Running'[c] = cfg[c] /\ Waiting'[c] = None /\ Mover # c
    BY <1>4, <1>5, <1>6, <1>8, <1>10, <2>1 DEF Granted
  <2>3. QED BY <2>1, <2>2 DEF Queue!Channel
<1>11. CASE en[c] /\ ~ Granted(c)
  <2>1. /\ en'[c] /\ event'[c] = FALSE /\ (pending'[c] <=> pending[c] \/ cfg_en[c])
        /\ counters'[c] = counters[c] /\ addresses'[c] = addresses[c]
    BY <1>1, <1>3, <1>11 DEF proc_next_val, proc_pending_en, Granted, Kept
  <2>2. /\ Running'[c] = Running[c] /\ Running[c] # None /\ Mover # c
        /\ IF pending[c] \/ cfg_en[c]
           THEN Waiting'[c] = Waiting[c] /\ Waiting[c] # None /\ Asked'[c] = None
           ELSE Waiting'[c] = Asked'[c] /\ Waiting[c] = None
    BY <1>2, <1>4, <1>5, <1>6, <1>8, <1>11, <2>1
  <2>3. QED BY <1>7, <2>1, <2>2 DEF Queue!Channel
<1>12. CASE Granted(c) /\ ~ s_compare(c)
  <2>1. /\ en'[c] /\ event'[c] = FALSE /\ (pending'[c] <=> pending[c] \/ cfg_en[c])
        /\ counters'[c] = counters[c] - toadd /\ addresses'[c] = addresses[c] + toadd
    BY <1>1, <1>3, <1>12 DEF proc_next_val, proc_pending_en, Granted, Advanced
  <2>2. /\ Running[c] = [addr |-> addresses[c], size |-> counters[c]]
        /\ Running'[c] = Queue!Rest(c) /\ Queue!Rest(c) # None
        /\ ~ Queue!Last(c) /\ Mover = c
    BY <1>3, <1>4, <1>5, <1>6, <1>12, <2>1 DEF Granted, s_compare, Queue!Rest, Queue!Last
  <2>3. IF pending[c] \/ cfg_en[c]
        THEN Waiting'[c] = Waiting[c] /\ Waiting[c] # None /\ Asked'[c] = None
        ELSE Waiting'[c] = Asked'[c] /\ Waiting[c] = None
    BY <1>2, <1>5, <1>6, <1>8, <1>12, <2>1 DEF Granted
  <2>4. QED BY <1>7, <2>1, <2>2, <2>3 DEF Queue!Channel
<1>13. CASE Granted(c) /\ s_compare(c)
  <2>1. /\ Running[c] = [addr |-> addresses[c], size |-> counters[c]]
        /\ Queue!Last(c) /\ Mover = c
    BY <1>3, <1>4, <1>6, <1>13 DEF Granted, s_compare, Queue!Last
  <2>2. CASE pending[c] \/ cfg_en[c]
    <3>1. /\ en'[c] /\ event'[c] = TRUE /\ ~ pending'[c] /\ ~ cfg_en'[c]
          /\ counters'[c] = cfg[c].size /\ addresses'[c] = cfg[c].addr
      BY <1>1, <1>2, <1>3, <1>13, <2>2 DEF proc_next_val, proc_pending_en, Granted, Reloaded
    <3>2. /\ Running'[c] = cfg[c] /\ Waiting[c] = cfg[c] /\ cfg[c] # None
          /\ Waiting'[c] = None /\ Asked'[c] = None
      BY <1>5, <1>6, <1>8, <1>13, <2>2, <3>1 DEF Granted
    <3>3. QED BY <2>1, <3>1, <3>2 DEF Queue!Channel
  <2>3. CASE ~ pending[c] /\ ~ cfg_en[c]
    <3>1. ~ en'[c] /\ event'[c] = TRUE
      BY <1>1, <1>3, <1>13, <2>3 DEF proc_next_val, Granted, Stopped
    <3>2. Running'[c] = Asked'[c] /\ Waiting[c] = None /\ Waiting'[c] = None
      BY <1>5, <1>6, <2>3, <3>1
    <3>3. QED BY <1>7, <2>1, <3>1, <3>2 DEF Queue!Channel
  <2>4. QED BY <2>2, <2>3
<1>14. QED BY <1>9, <1>10, <1>11, <1>12, <1>13 DEF Granted

LEMMA QueueInit == Init => Queue!Init
BY DEF Init, Queue!Init, Asked, Running, Waiting

LEMMA QueueStep ==
  ASSUME RxInv, [Next]_vars, RxInv'
  PROVE  [Queue!Next]_(Queue!vars)
<1>1. CASE Next
  <2>1. \A c \in Channels : Queue!Channel(c, Mover = c)
    BY <1>1, ChannelStep
  <2>2. Mover \in {c \in Channels : Running[c] # None} \cup {None}
    <3>1. CASE Mover = None
      BY <3>1
    <3>2. CASE Mover # None
      <4>1. Mover \in Channels /\ en[Mover]
        BY <3>2 DEF RxInv, TypeOK, GrantHasTransfer, Mover
      <4>2. QED BY <4>1, Mapped DEF RxInv
    <3>3. QED BY <3>1, <3>2
  <2>3. wr' = IF Mover = None THEN None ELSE [ch |-> Mover, addr |-> Running[Mover].addr]
    <3>1. wr' = IF Mover # None THEN [ch |-> grant, addr |-> addresses[grant]] ELSE None
      BY <1>1 DEF Next, L2Fifo, Mover
    <3>2. ASSUME Mover # None
          PROVE  Mover = grant /\ Running[Mover].addr = addresses[grant]
      <4>1. Mover = grant /\ Mover \in Channels /\ en[Mover]
        BY <3>2 DEF RxInv, TypeOK, GrantHasTransfer, Mover
      <4>2. Running[Mover] = [addr |-> addresses[Mover], size |-> counters[Mover]]
        BY <4>1, Mapped DEF RxInv
      <4>3. QED BY <4>1, <4>2
    <3>3. QED BY <3>1, <3>2
  <2>4. /\ Asked' = [c \in Channels |-> Asked'[c]]
        /\ Running' = [c \in Channels |-> Running'[c]]
        /\ Waiting' = [c \in Channels |-> Waiting'[c]]
        /\ event' = [c \in Channels |-> event'[c]]
    BY DEF RxInv, TypeOK, Asked, Running, Waiting
  <2>5. QED BY <2>1, <2>2, <2>3, <2>4 DEF Queue!Next
<1>2. CASE UNCHANGED vars
  BY <1>2 DEF vars, regs, chan, core, Queue!vars, Asked, Running, Waiting
<1>3. QED BY <1>1, <1>2

\* The receive channels implement two-place transfer queues: every transfer
\* software enqueues writes its addresses once and in order, ends with one
\* event, and is neither lost nor repeated when its enable meets the last datum
\* of the transfer before it (proc_pending_en) or a full L2 FIFO.
THEOREM ChannelsAreTransferQueues ==
  ASSUME LooksFirst PROVE Spec => ImplementsTransferQueue
<1>1. Spec => []RxInv
  BY RxInvHolds
<1>2. QED
  BY <1>1, QueueInit, QueueStep, PTL DEF Spec, ImplementsTransferQueue, Queue!Spec

=============================================================================

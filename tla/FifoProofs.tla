----------------------------- MODULE FifoProofs -----------------------------
(***************************************************************************)
(* The two FIFOs are bounded queues.  FIFO_sync_256x8: its flags never     *)
(* drift from the count, and it is a flushable queue of 256 bytes, for     *)
(* every set of bytes.  generic_fifo: for every depth that is a power of   *)
(* two (PTR_SPAN = DATA_DEPTH) and every set of words.                     *)
(***************************************************************************)
EXTENDS GenericFifo, I2csFifo, CommonLemmas

-----------------------------------------------------------------------------
(* FIFO_sync_256x8 *)

BytesInv == BytesTypeOK /\ FlagsMatchCount /\ AddressesMatchCount

LEMMA InitBytesInv == BytesInit => BytesInv
<1> SUFFICES ASSUME BytesInit PROVE BytesInv
  OBVIOUS
<1> USE DEF FIFO_DEPTH
<1>1. ~full_reg /\ empty_reg /\ full_reg \in BOOLEAN /\ empty_reg \in BOOLEAN
  BY Zenon DEF BytesInit
<1>2. BytesTypeOK
  BY <1>1 DEF BytesInit, BytesTypeOK, Addr
<1>3. FlagsMatchCount
  BY <1>1 DEF BytesInit, FlagsMatchCount, RdLevel, WrLevel
<1>4. AddressesMatchCount
  BY DEF BytesInit, AddressesMatchCount
<1> QED BY <1>2, <1>3, <1>4 DEF BytesInv

(***************************************************************************)
(* A flush brings every register but the RAM back to its reset value.      *)
(***************************************************************************)
LEMMA ResetBytesInv == BytesInv /\ Reset => BytesInv'
<1> SUFFICES ASSUME BytesInv, Reset PROVE BytesInv'
  OBVIOUS
<1> USE DEF FIFO_DEPTH
<1>1. ~full_reg' /\ empty_reg' /\ full_reg' \in BOOLEAN /\ empty_reg' \in BOOLEAN
  BY Zenon DEF Reset
<1>2. BytesTypeOK'
  BY <1>1 DEF Reset, BytesInv, BytesTypeOK, Addr
<1>3. FlagsMatchCount'
  BY <1>1 DEF Reset, FlagsMatchCount, RdLevel, WrLevel
<1>4. AddressesMatchCount'
  BY DEF Reset, AddressesMatchCount
<1> QED BY <1>2, <1>3, <1>4 DEF BytesInv

\* What one clock edge does to the count, in terms of the requests accepted.
LEMMA BytesCountStep ==
  ASSUME BytesInv, NEW push \in BOOLEAN, NEW pop \in BOOLEAN
  PROVE  /\ push /\ ~full_reg /\ ~(pop /\ ~empty_reg) =>
               NextCnt(push, pop) = fifo_cnt + 1
         /\ pop /\ ~empty_reg /\ ~(push /\ ~full_reg) =>
               NextCnt(push, pop) = fifo_cnt - 1
         /\ ((push /\ ~full_reg) <=> (pop /\ ~empty_reg)) =>
               NextCnt(push, pop) = fifo_cnt
  BY DEF BytesInv, BytesTypeOK, FlagsMatchCount, FIFO_DEPTH, NextCnt

LEMMA RdFlagsStep ==
  ASSUME BytesInv, NEW push \in BOOLEAN, NEW pop \in BOOLEAN
  PROVE  /\ NextRdFlags(push, pop) = RdLevel(NextCnt(push, pop))
         /\ NextEmpty(push, pop) <=> (NextCnt(push, pop) = 0)
<1> USE DEF BytesInv, BytesTypeOK, FlagsMatchCount, FIFO_DEPTH
<1>1. CASE push /\ pop
  BY <1>1 DEF NextRdFlags, NextEmpty, NextCnt, RdLevel
<1>2. CASE push /\ ~pop
  BY <1>2 DEF NextRdFlags, NextEmpty, NextCnt, RdLevel, ItemsHigh
<1>3. CASE ~push /\ pop
  BY <1>3 DEF NextRdFlags, NextEmpty, NextCnt, RdLevel, ItemsLow
<1>4. CASE ~push /\ ~pop
  BY <1>4 DEF NextRdFlags, NextEmpty, NextCnt, RdLevel
<1> QED BY <1>1, <1>2, <1>3, <1>4

LEMMA WrFlagsStep ==
  ASSUME BytesInv, NEW push \in BOOLEAN, NEW pop \in BOOLEAN
  PROVE  /\ NextWrFlags(push, pop) = WrLevel(FIFO_DEPTH - NextCnt(push, pop))
         /\ NextFull(push, pop) <=> (NextCnt(push, pop) = FIFO_DEPTH)
<1> USE DEF BytesInv, BytesTypeOK, FlagsMatchCount, FIFO_DEPTH
<1>1. CASE push /\ pop
  BY <1>1 DEF NextWrFlags, NextFull, NextCnt, RdLevel, WrLevel
<1>2. CASE push /\ ~pop
  BY <1>2 DEF NextWrFlags, NextFull, NextCnt, RdLevel, WrLevel, SpacesLow
<1>3. CASE ~push /\ pop
  BY <1>3 DEF NextWrFlags, NextFull, NextCnt, RdLevel, WrLevel, SpacesHigh
<1>4. CASE ~push /\ ~pop
  BY <1>4 DEF NextWrFlags, NextFull, NextCnt, RdLevel, WrLevel
<1> QED BY <1>1, <1>2, <1>3, <1>4

LEMMA ClockBytesInv ==
  ASSUME BytesInv, NEW push \in BOOLEAN, NEW pop \in BOOLEAN, NEW d \in Bytes,
         BytesClock(push, pop, d)
  PROVE  BytesInv'
<1>1. BytesTypeOK'
  <2>1. NextCnt(push, pop) \in 0 .. FIFO_DEPTH
    BY BytesCountStep DEF BytesInv, BytesTypeOK, FlagsMatchCount, FIFO_DEPTH, NextCnt
  <2>2. NextRdFlags(push, pop) \in 0 .. 7 /\ NextWrFlags(push, pop) \in 0 .. 7
    BY <2>1, RdFlagsStep, WrFlagsStep DEF RdLevel, WrLevel, FIFO_DEPTH
  <2>3. NextEmpty(push, pop) \in BOOLEAN /\ NextFull(push, pop) \in BOOLEAN
    BY DEF NextEmpty, NextFull, BytesInv, BytesTypeOK
  <2>4. NextWrAddr(push) \in Addr /\ NextRdAddr(pop) \in Addr
    BY DEF BytesInv, BytesTypeOK, NextWrAddr, NextRdAddr, Succ, Addr, FIFO_DEPTH
  <2>5. ram' \in [Addr -> Bytes]
    BY DEF BytesInv, BytesTypeOK, BytesClock
  <2> QED BY <2>1, <2>2, <2>3, <2>4, <2>5 DEF BytesClock, BytesTypeOK
<1>2. FlagsMatchCount'
  BY RdFlagsStep, WrFlagsStep DEF BytesClock, FlagsMatchCount
<1>3. AddressesMatchCount'
  <2> DEFINE pushes == push /\ ~full_reg
             pops   == pop /\ ~empty_reg
  <2>1. /\ ram_wr_addr' = IF pushes THEN Succ(ram_wr_addr) ELSE ram_wr_addr
        /\ ram_rd_addr' = IF pops THEN Succ(ram_rd_addr) ELSE ram_rd_addr
    BY DEF BytesClock, NextWrAddr, NextRdAddr
  <2>2. fifo_cnt' = fifo_cnt + (IF pushes THEN 1 ELSE 0) - (IF pops THEN 1 ELSE 0)
    BY BytesCountStep DEF BytesClock, BytesInv, BytesTypeOK
  <2>3. (pushes => fifo_cnt < FIFO_DEPTH) /\ (pops => fifo_cnt > 0)
    BY DEF BytesInv, BytesTypeOK, FlagsMatchCount, FIFO_DEPTH
  <2>4. /\ ram_wr_addr \in Addr /\ ram_rd_addr \in Addr
        /\ fifo_cnt \in 0 .. FIFO_DEPTH /\ AddressesMatchCount
    BY DEF BytesInv, BytesTypeOK
  <2> HIDE DEF pushes, pops
  <2> QED BY <2>1, <2>2, <2>3, <2>4 DEF AddressesMatchCount, Addr, FIFO_DEPTH, Succ
<1> QED BY <1>1, <1>2, <1>3 DEF BytesInv

(***************************************************************************)
(* No history of pushes, pops and flushes makes the level flags, the full  *)
(* and empty bits or the addresses of FIFO_sync_256x8.v disagree with the  *)
(* number of bytes inside.                                                 *)
(***************************************************************************)
THEOREM BytesInvariance ==
    BytesSpec => [](BytesTypeOK /\ FlagsMatchCount /\ AddressesMatchCount)
<1>1. BytesInit => BytesInv
  BY InitBytesInv
<1>2. BytesInv /\ [BytesNext]_bytesVars => BytesInv'
  <2> SUFFICES ASSUME BytesInv, [BytesNext]_bytesVars PROVE BytesInv'
    OBVIOUS
  <2>1. CASE UNCHANGED bytesVars
    BY <2>1 DEF bytesVars, BytesInv, BytesTypeOK, FlagsMatchCount, AddressesMatchCount
  <2>2. CASE Reset
    BY <2>2, ResetBytesInv
  <2>3. ASSUME NEW push \in BOOLEAN, NEW pop \in BOOLEAN, NEW d \in Bytes,
               BytesClock(push, pop, d)
        PROVE  BytesInv'
    BY <2>3, ClockBytesInv
  <2> QED BY <2>1, <2>2, <2>3 DEF BytesNext
<1> QED BY <1>1, <1>2, PTL DEF BytesSpec, BytesInv

\* The level flags and the full and empty bits are those of the count
\* (FIFO_sync_256x8.v:139-252).
THEOREM FlagsNeverDrift == BytesSpec => []FlagsMatchCount
  BY BytesInvariance, PTL

\* The addresses are as far apart as the count says (FIFO_sync_256x8.v:87-123).
THEOREM AddressesNeverDrift == BytesSpec => []AddressesMatchCount
  BY BytesInvariance, PTL

-----------------------------------------------------------------------------
(* Facts about the contents of the RAM between the two addresses. *)

BytesContentsOK == BytesInside \in Seq(Bytes) /\ Len(BytesInside) = fifo_cnt

LEMMA BytesContentsType == BytesInv => BytesContentsOK
<1> SUFFICES ASSUME BytesInv PROVE BytesContentsOK
  OBVIOUS
<1>1. ASSUME NEW i \in 1 .. fifo_cnt PROVE ram[AddrOf(i)] \in Bytes
  BY DEF BytesInv, BytesTypeOK, Addr, AddrOf, FIFO_DEPTH
<1> QED BY <1>1 DEF BytesInv, BytesTypeOK, BytesInside, BytesContentsOK

LEMMA BytesContentsTypeNext == BytesInv' => BytesContentsOK'
  BY BytesContentsType, PTL

LEMMA BytesClockShifts ==
  ASSUME BytesInv, BytesInv', NEW push \in BOOLEAN, NEW pop \in BOOLEAN,
         NEW d \in Bytes, BytesClock(push, pop, d)
  PROVE  Shifted(BytesInside, BytesInside', push /\ ~full_reg, pop /\ ~empty_reg, d)
<1> DEFINE pushes == push /\ ~full_reg
           pops   == pop /\ ~empty_reg
           drop   == IF pops THEN 1 ELSE 0
           add    == IF pushes THEN 1 ELSE 0
<1> USE DEF BytesInv, BytesTypeOK, FlagsMatchCount, AddressesMatchCount, Addr, FIFO_DEPTH
<1>1. /\ fifo_cnt' = fifo_cnt - drop + add
      /\ ram_rd_addr' = IF pops THEN Succ(ram_rd_addr) ELSE ram_rd_addr
      /\ ram' = IF pushes THEN [ram EXCEPT ![ram_wr_addr] = d] ELSE ram
  BY BytesCountStep DEF BytesClock, NextRdAddr
<1>2. ASSUME NEW i \in 1 .. fifo_cnt - drop
      PROVE  BytesInside'[i] = BytesInside[i + drop]
  <2>1. i \in 1 .. fifo_cnt' /\ i + drop \in 1 .. fifo_cnt
    BY <1>1
  <2>2. AddrOf(i)' = AddrOf(i + drop)
    BY <1>1, <2>1 DEF AddrOf, Succ
  <2>3. AddrOf(i + drop) \in Addr
    BY <2>1 DEF AddrOf
  <2>4. pushes => AddrOf(i + drop) # ram_wr_addr
    BY <2>1 DEF AddrOf
  <2>5. ram'[AddrOf(i + drop)] = ram[AddrOf(i + drop)]
    BY <1>1, <2>3, <2>4
  <2> QED BY <2>1, <2>2, <2>5 DEF BytesInside
<1>3. ASSUME pushes PROVE BytesInside'[fifo_cnt'] = d
  <2>1. fifo_cnt' \in 1 .. fifo_cnt'
    BY <1>1, <1>3
  <2>2. AddrOf(fifo_cnt)' = ram_wr_addr
    BY <1>1, <1>3 DEF AddrOf, Succ
  <2>3. ram' = [ram EXCEPT ![ram_wr_addr] = d]
    BY <1>1, <1>3
  <2>4. ram'[ram_wr_addr] = d
    BY <2>3
  <2>5. BytesInside'[fifo_cnt'] = ram'[AddrOf(fifo_cnt)']
    <3> HIDE DEF BytesInv, BytesTypeOK, FlagsMatchCount, AddressesMatchCount, pushes
    <3> QED BY <2>1 DEF BytesInside
  <2> QED BY <2>2, <2>4, <2>5
<1>4. Len(BytesInside) = fifo_cnt /\ Len(BytesInside') = fifo_cnt'
  BY BytesContentsType, BytesContentsTypeNext DEF BytesContentsOK
<1> QED BY <1>1, <1>2, <1>3, <1>4 DEF Shifted

(***************************************************************************)
(* The FIFO and the queue move together, cycle for cycle and with the same *)
(* requests, and the data output of FIFO_sync_256x8.v is the oldest byte.  *)
(***************************************************************************)
THEOREM BytesCycleForCycle ==
  ASSUME BytesInv, BytesInv', NEW push \in BOOLEAN, NEW pop \in BOOLEAN, NEW d \in Bytes,
         BytesClock(push, pop, d)
  PROVE  /\ ByteQueue!Cycle(push, pop, d)
         /\ ByteQueue!HasData => rd_data_o = Head(BytesInside)
<1> DEFINE pushes == push /\ ~full_reg
           pops   == pop /\ ~empty_reg
<1>0. /\ BytesInside \in Seq(Bytes) /\ BytesInside' \in Seq(Bytes)
      /\ Len(BytesInside) = fifo_cnt
  BY BytesContentsType, BytesContentsTypeNext DEF BytesContentsOK
<1>1. /\ full_reg <=> ~(Len(BytesInside) < FIFO_DEPTH)
      /\ empty_reg <=> BytesInside = << >>
  BY <1>0, EmptySeq DEF BytesInv, BytesTypeOK, FlagsMatchCount, FIFO_DEPTH
<1>2. Shifted(BytesInside, BytesInside', pushes, pops, d)
  BY BytesClockShifts
<1>3. pushes \in BOOLEAN /\ pops \in BOOLEAN /\ (pops => BytesInside # << >>)
  BY <1>1
<1>4. ASSUME BytesInside # << >> PROVE rd_data_o = Head(BytesInside)
  <2>1. 1 \in 1 .. fifo_cnt /\ AddrOf(1) = ram_rd_addr
    <3>1. fifo_cnt # 0 /\ fifo_cnt \in Nat
      BY <1>0, <1>4, EmptySeq DEF BytesInv, BytesTypeOK, FIFO_DEPTH
    <3>2. ram_rd_addr \in 0 .. 255
      BY DEF BytesInv, BytesTypeOK, Addr, FIFO_DEPTH
    <3> QED BY <3>1, <3>2 DEF AddrOf, FIFO_DEPTH
  <2>2. BytesInside[1] = ram[ram_rd_addr]
    BY <2>1 DEF BytesInside
  <2> QED BY <1>0, <1>4, <2>1, <2>2 DEF rd_data_o
<1> HIDE DEF pushes, pops
<1>5. BytesInside' = LET rest == IF pops THEN Tail(BytesInside) ELSE BytesInside
                  IN  IF pushes THEN Append(rest, d) ELSE rest
  <2>1. BytesInside \in Seq(Bytes) /\ BytesInside' \in Seq(Bytes)
    BY <1>0
  <2> QED BY <1>2, <1>3, <2>1, ShiftedIsCycle
<1>6. ByteQueue!Cycle(push, pop, d)
  BY <1>1, <1>5
     DEF pushes, pops, ByteQueue!Cycle, ByteQueue!HasData, ByteQueue!Accepts
<1> QED BY <1>4, <1>6 DEF ByteQueue!HasData

(***************************************************************************)
(* FIFO_sync_256x8.v refines the flushable bounded queue: bytes leave in   *)
(* the order they were accepted, once each, whatever the requests.         *)
(***************************************************************************)
THEOREM BytesRefinement == BytesSpec => ImplementsByteQueue
<1>1. BytesInit => ByteQueue!Init
  <2> SUFFICES ASSUME BytesInit PROVE BytesInside = << >>
    BY DEF ByteQueue!Init
  <2> QED BY InitBytesInv, BytesContentsType, EmptySeq DEF BytesContentsOK, BytesInit
<1>2. BytesInv /\ BytesInv' /\ [BytesNext]_bytesVars => [ByteQueue!Next \/ ByteQueue!Flush]_BytesInside
  <2> SUFFICES ASSUME BytesInv, BytesInv', [BytesNext]_bytesVars
               PROVE  [ByteQueue!Next \/ ByteQueue!Flush]_BytesInside
    OBVIOUS
  <2>0. /\ BytesInside \in Seq(Bytes) /\ BytesInside' \in Seq(Bytes)
        /\ Len(BytesInside) = fifo_cnt /\ Len(BytesInside') = fifo_cnt'
    BY BytesContentsType, BytesContentsTypeNext DEF BytesContentsOK
  <2>1. CASE UNCHANGED bytesVars
    BY <2>1 DEF bytesVars, BytesInside, AddrOf
  <2>2. CASE Reset
    <3>1. BytesInside' = << >>
      BY <2>0, <2>2, EmptySeq DEF Reset
    <3> QED BY <3>1 DEF ByteQueue!Flush
  <2>3. ASSUME NEW push \in BOOLEAN, NEW pop \in BOOLEAN, NEW d \in Bytes,
               BytesClock(push, pop, d)
        PROVE  ByteQueue!Next
    <3>1. ByteQueue!Cycle(push, pop, d)
      BY <2>3, BytesCycleForCycle
    <3> QED BY <3>1 DEF ByteQueue!Next
  <2> QED BY <2>1, <2>2, <2>3 DEF BytesNext
<1>3. BytesSpec => []BytesInv
  BY BytesInvariance, PTL DEF BytesInv
<1> QED BY <1>1, <1>2, <1>3, PTL
       DEF BytesSpec, ImplementsByteQueue, ByteQueue!FlushableSpec

-----------------------------------------------------------------------------
(* generic_fifo *)

IInv == TypeOK /\ StateMatchesPointers

USE DepthAssumption, ZeroAssumption

LEMMA InitIInv == Init => IInv
  BY DEF Init, IInv, TypeOK, StateMatchesPointers, Slots

LEMMA NextIInv == IInv /\ [Next]_vars => IInv'
<1> SUFFICES ASSUME IInv, [Next]_vars PROVE IInv'
  OBVIOUS
<1> USE DEF IInv, TypeOK, StateMatchesPointers, Slots
<1>1. CASE UNCHANGED vars
  BY <1>1 DEF vars
<1>2. CASE Next
  <2> PICK valid_i \in BOOLEAN, grant_i \in BOOLEAN, d \in Data :
        Clock(valid_i, grant_i, d)
    BY <1>2 DEF Next
  <2>1. FIFO_REGISTERS' \in [Slots -> Data]
    BY DEF Clock, WriteRegister
  <2>2. CASE InEmpty(valid_i)
    BY <2>1, <2>2 DEF InEmpty, Bump
  <2>3. CASE InMiddle(valid_i, grant_i)
    BY <2>1, <2>3 DEF InMiddle, Wrap, LastWord, LastSlot
  <2>4. CASE InFull(grant_i)
    BY <2>1, <2>4 DEF InFull, Wrap
  <2> QED BY <2>2, <2>3, <2>4 DEF Clock
<1> QED BY <1>1, <1>2

\* generic_fifo.sv keeps its pointers in the ring and its state in step with
\* them, at every depth that is a power of two.
THEOREM Invariance == Spec => [](TypeOK /\ StateMatchesPointers)
<1>1. Init => IInv
  BY InitIInv
<1>2. IInv /\ [Next]_vars => IInv'
  BY NextIInv
<1> QED BY <1>1, <1>2, PTL DEF Spec, IInv

\* The pointers never leave the ring (generic_fifo.sv:59-70).
THEOREM PointersTyped == Spec => []TypeOK
  BY Invariance, PTL

-----------------------------------------------------------------------------
(* Facts about the contents of the ring. *)

LEMMA OccupancyType == IInv => /\ Occupancy \in 0 .. DATA_DEPTH
                               /\ (CS = "EMPTY") <=> (Occupancy = 0)
                               /\ (CS = "FULL") <=> (Occupancy = DATA_DEPTH)
  BY DEF IInv, TypeOK, StateMatchesPointers, Slots, Occupancy

ContentsOK == /\ Contents \in Seq(Data)
              /\ Len(Contents) = Occupancy

LEMMA ContentsType == IInv => ContentsOK
<1> SUFFICES ASSUME IInv PROVE ContentsOK
  OBVIOUS
<1>1. Occupancy \in 0 .. DATA_DEPTH
  BY OccupancyType
<1>2. ASSUME NEW i \in 1 .. Occupancy PROVE FIFO_REGISTERS[SlotOf(i)] \in Data
  BY <1>1, <1>2 DEF IInv, TypeOK, Slots, SlotOf
<1> QED BY <1>1, <1>2 DEF Contents, ContentsOK

LEMMA ContentsTypeNext == IInv' => ContentsOK'
  BY ContentsType, PTL

(***************************************************************************)
(* Every clock edge shifts the contents the way the abstract queue does.   *)
(***************************************************************************)
LEMMA ClockShifts ==
  ASSUME IInv, IInv', NEW valid_i \in BOOLEAN, NEW grant_i \in BOOLEAN,
         NEW d \in Data, Clock(valid_i, grant_i, d)
  PROVE  Shifted(Contents, Contents',
                 valid_i /\ Occupancy < DATA_DEPTH,
                 grant_i /\ Occupancy > 0, d)
<1> DEFINE pushes == valid_i /\ Occupancy < DATA_DEPTH
           pops   == grant_i /\ Occupancy > 0
           drop   == IF pops THEN 1 ELSE 0
           add    == IF pushes THEN 1 ELSE 0
<1> USE DEF IInv, TypeOK, StateMatchesPointers, Slots
<1>1. /\ Occupancy \in 0 .. DATA_DEPTH
      /\ (CS = "EMPTY") <=> (Occupancy = 0)
      /\ (CS = "FULL") <=> (Occupancy = DATA_DEPTH)
  BY OccupancyType
<1>2. /\ Occupancy' = Occupancy - drop + add
      /\ Pop_Pointer_CS' = IF pops THEN Wrap(Pop_Pointer_CS) ELSE Pop_Pointer_CS
  <2>1. CASE InEmpty(valid_i)
    BY <2>1, <1>1 DEF InEmpty, Bump, Occupancy
  <2>2. CASE InMiddle(valid_i, grant_i)
    <3>1. CASE valid_i /\ grant_i
      <4>1. /\ CS = "MIDDLE" /\ CS' = "MIDDLE"
            /\ Push_Pointer_CS' = Wrap(Push_Pointer_CS)
            /\ Pop_Pointer_CS' = Wrap(Pop_Pointer_CS)
        BY <2>2, <3>1 DEF InMiddle
      <4>2. Occupancy' = Occupancy
        BY <4>1 DEF Wrap, Occupancy
      <4> QED BY <3>1, <4>1, <4>2, <1>1
    <3>2. CASE valid_i /\ ~grant_i
      BY <2>2, <3>2, <1>1 DEF InMiddle, Wrap, LastSlot, Occupancy
    <3>3. CASE ~valid_i /\ grant_i
      BY <2>2, <3>3, <1>1 DEF InMiddle, Wrap, LastWord, Occupancy
    <3>4. CASE ~valid_i /\ ~grant_i
      BY <2>2, <3>4, <1>1 DEF InMiddle, Occupancy
    <3> QED BY <3>1, <3>2, <3>3, <3>4
  <2>3. CASE InFull(grant_i)
    BY <2>3, <1>1 DEF InFull, Wrap, Occupancy
  <2> QED BY <2>1, <2>2, <2>3 DEF Clock
<1>3. FIFO_REGISTERS' = IF pushes
                          THEN [FIFO_REGISTERS EXCEPT ![Push_Pointer_CS] = d]
                          ELSE FIFO_REGISTERS
  BY <1>1 DEF Clock, WriteRegister, grant_o
<1>4. ASSUME NEW i \in 1 .. Occupancy - drop
      PROVE  Contents'[i] = Contents[i + drop]
  <2>1. i \in 1 .. Occupancy' /\ i + drop \in 1 .. Occupancy
    BY <1>1, <1>2
  <2>2. SlotOf(i)' = SlotOf(i + drop)
    BY <1>1, <1>2, <2>1 DEF SlotOf, Wrap
  <2>3. SlotOf(i + drop) \in Slots
    BY <1>1, <2>1 DEF SlotOf
  <2>4. pushes => SlotOf(i + drop) # Push_Pointer_CS
    BY <1>1, <2>1 DEF SlotOf, Occupancy
  <2>5. FIFO_REGISTERS'[SlotOf(i + drop)] = FIFO_REGISTERS[SlotOf(i + drop)]
    BY <1>3, <2>3, <2>4
  <2> QED BY <2>1, <2>2, <2>5 DEF Contents
<1>5. ASSUME pushes PROVE Contents'[Occupancy'] = d
  <2>1. Occupancy' \in 1 .. Occupancy'
    BY <1>1, <1>2, <1>5
  <2>2. SlotOf(Occupancy)' = Push_Pointer_CS
    <3>1. /\ SlotOf(Occupancy)' = LET s == Pop_Pointer_CS' + Occupancy' - 1
                                  IN IF s >= DATA_DEPTH THEN s - DATA_DEPTH ELSE s
          /\ Occupancy' = Occupancy - drop + 1
          /\ CS # "FULL"
      BY <1>1, <1>2, <1>5 DEF SlotOf
    <3>2. CASE pops
      <4>1. SlotOf(Occupancy)' = LET s == Wrap(Pop_Pointer_CS) + Occupancy - 1
                                 IN IF s >= DATA_DEPTH THEN s - DATA_DEPTH ELSE s
        BY <1>1, <1>2, <3>1, <3>2
      <4>2. Occupancy = IF Push_Pointer_CS < Pop_Pointer_CS
                          THEN Push_Pointer_CS - Pop_Pointer_CS + DATA_DEPTH
                          ELSE Push_Pointer_CS - Pop_Pointer_CS
        BY <1>1, <3>1, <3>2 DEF Occupancy
      <4> QED BY <3>2, <4>1, <4>2 DEF Wrap
    <3>3. CASE ~pops
      BY <1>1, <1>2, <3>1, <3>3 DEF Occupancy
    <3> QED BY <3>2, <3>3
  <2> QED BY <1>3, <1>5, <2>1, <2>2 DEF Contents
<1>6. Len(Contents) = Occupancy /\ Len(Contents') = Occupancy'
  BY ContentsType, ContentsTypeNext DEF ContentsOK
<1> QED BY <1>2, <1>4, <1>5, <1>6 DEF Shifted

(***************************************************************************)
(* The FIFO and the queue move together, cycle for cycle and with the same *)
(* requests, and the outputs of generic_fifo.sv are those of the queue.    *)
(* This is what lets the model of the event generator use the queue in the *)
(* place of its FIFO.                                                      *)
(***************************************************************************)
THEOREM CycleForCycle ==
  ASSUME IInv, IInv', NEW valid_i \in BOOLEAN, NEW grant_i \in BOOLEAN,
         NEW d \in Data, Clock(valid_i, grant_i, d)
  PROVE  /\ Abstract!Cycle(valid_i, grant_i, d)
         /\ grant_o <=> Abstract!Accepts
         /\ valid_o <=> Abstract!HasData
         /\ valid_o => data_o = Head(Contents)
<1> DEFINE pushes == valid_i /\ Occupancy < DATA_DEPTH
           pops   == grant_i /\ Occupancy > 0
<1>1. /\ Contents \in Seq(Data) /\ Contents' \in Seq(Data)
      /\ Len(Contents) = Occupancy
  BY ContentsType, ContentsTypeNext DEF ContentsOK
<1>2. Occupancy \in Nat /\ (Occupancy > 0 <=> Contents # << >>)
  BY <1>1, OccupancyType, EmptySeq
<1>3. Shifted(Contents, Contents', pushes, pops, d)
  BY ClockShifts
<1>4. pushes \in BOOLEAN /\ pops \in BOOLEAN /\ (pops => Contents # << >>)
  BY <1>2
<1> HIDE DEF pushes, pops
<1>5. Contents' = LET rest == IF pops THEN Tail(Contents) ELSE Contents
                  IN  IF pushes THEN Append(rest, d) ELSE rest
  BY <1>1, <1>3, <1>4, ShiftedIsCycle
<1>6. Abstract!Cycle(valid_i, grant_i, d)
  BY <1>1, <1>2, <1>5
     DEF pushes, pops, Abstract!Cycle, Abstract!HasData, Abstract!Accepts
<1>7. /\ CS = "EMPTY" <=> Occupancy = 0
      /\ CS = "FULL" <=> Occupancy = DATA_DEPTH
      /\ Occupancy <= DATA_DEPTH
  BY DepthAssumption DEF IInv, TypeOK, StateMatchesPointers, Occupancy, Slots
<1>8. /\ grant_o <=> Abstract!Accepts
      /\ valid_o <=> Abstract!HasData
  BY <1>1, <1>2, <1>7, DepthAssumption
     DEF grant_o, valid_o, Abstract!Accepts, Abstract!HasData, IInv, TypeOK
<1>9. ASSUME valid_o PROVE data_o = Head(Contents)
  <2>1. 1 \in 1 .. Occupancy /\ SlotOf(1) = Pop_Pointer_CS
    BY <1>2, <1>7, <1>9, DepthAssumption DEF valid_o, SlotOf, IInv, TypeOK, Slots
  <2>2. Contents[1] = FIFO_REGISTERS[Pop_Pointer_CS]
    BY <2>1 DEF Contents
  <2> QED BY <1>1, <1>2, <2>1, <2>2 DEF data_o
<1> QED BY <1>6, <1>8, <1>9

(***************************************************************************)
(* generic_fifo.sv refines the bounded queue: for every power-of-two depth *)
(* and every pattern of push and pop requests, words leave in the order    *)
(* they were accepted, once each.                                          *)
(***************************************************************************)
THEOREM Refinement == Spec => ImplementsQueue
<1>1. Init => Abstract!Init
  <2> SUFFICES ASSUME Init PROVE Contents = << >>
    BY DEF Abstract!Init
  <2>1. IInv /\ Occupancy = 0
    BY InitIInv DEF Init, Occupancy
  <2> QED BY <2>1, ContentsType, EmptySeq DEF ContentsOK
<1>2. IInv /\ IInv' /\ [Next]_vars => [Abstract!Next]_Contents
  <2> SUFFICES ASSUME IInv, IInv', [Next]_vars
               PROVE  [Abstract!Next]_Contents
    OBVIOUS
  <2>1. CASE UNCHANGED vars
    BY <2>1 DEF vars, Contents, Occupancy, SlotOf
  <2>2. CASE Next
    <3> PICK valid_i \in BOOLEAN, grant_i \in BOOLEAN, d \in Data :
          Clock(valid_i, grant_i, d)
      BY <2>2 DEF Next
    <3>1. Abstract!Cycle(valid_i, grant_i, d)
      BY CycleForCycle
    <3> QED BY <3>1 DEF Abstract!Next
  <2> QED BY <2>1, <2>2
<1>3. Spec => []IInv
  BY Invariance, PTL DEF IInv
<1> QED BY <1>1, <1>2, <1>3, PTL DEF Spec, ImplementsQueue, Abstract!Spec
=============================================================================

--------------------------- MODULE FlashBootProofs ---------------------------
(***************************************************************************)
(* The flash loader, for every area table, every block and memory size:    *)
(* findDataFit finds a free place, no read is cut short, a JTAG boot waits *)
(* for its program, the loader never destroys itself, and at the jump      *)
(* every byte of every area is in its place.                               *)
(***************************************************************************)
EXTENDS FlashBoot, TLAPS

End(k) == memArea(k).ptr + memArea(k).size

\* What the table is, and that the loaders' index stays in it.
TableOK == /\ nbAreas \in Nat
           /\ \A k \in 0 .. MAX_NB_AREA - 1 : memArea(k).ptr \in Nat /\ memArea(k).size \in Nat

\* DATA_SIZE bytes at a do not meet area k.
Clear(a, k) == a >= End(k) \/ a + DATA_SIZE <= memArea(k).ptr

\* The loop invariant of findDataFit.
Passed == Sorted => /\ i \in Nat /\ addr \in Nat
                    /\ addr + DATA_SIZE < WORD
                    /\ \A k \in Listed : k < i => Clear(addr, k)

Placed == Sorted => data \in Nat /\ \A k \in Listed : Clear(data, k)

Loading == {"load", "block", "advance"}
Waiting == {"wait", "wfi"}

\* Where the program can be before and after the move.
Phase == /\ after \in {"none", "getMemAreas", "pollJtag"}
         /\ ~moved => pc \notin Loading /\ ret \notin Loading
         /\ moved => pc # "fit" /\ (pc \in Waiting => ret # "fit")

PlaceInv == /\ TableOK /\ Phase /\ moved \in BOOLEAN
            /\ ~moved => Passed
            /\ moved => Placed

\* A number below WORD is its own unsigned value.
LEMMA UintIsIdentity ==
    ASSUME NEW n \in Nat, n < WORD
    PROVE  Uint(n) = n
BY FlashSizes DEF Uint

\* Rounding up to a block stays at or above the number and below the next block.
LEMMA RoundUpBounds ==
    ASSUME NEW n \in Nat, n + BLOCK < WORD
    PROVE  RoundUp(n) \in Nat /\ RoundUp(n) >= n /\ RoundUp(n) < n + BLOCK
<1> DEFINE u == n + BLOCK - 1
<1>1. u \in Nat /\ u < WORD
  BY FlashSizes
<1>2. Uint(u) = u
  BY <1>1, UintIsIdentity
<1>3. u % BLOCK \in 0 .. BLOCK - 1
  BY <1>1, FlashSizes
<1>4. RoundUp(n) = u - (u % BLOCK)
  BY <1>2 DEF RoundUp
<1>5. QED
  BY <1>1, <1>3, <1>4, FlashSizes

(***************************************************************************)
(* One iteration of findDataFit keeps the loop invariant: if the candidate *)
(* meets area i, the new one lies behind it and so, in a sorted table,     *)
(* behind all areas before it.                                             *)
(***************************************************************************)
LEMMA OneIteration ==
    ASSUME TableOK, Passed, findDataFit, UNCHANGED table
    PROVE  Passed'
<1> SUFFICES ASSUME Sorted PROVE
        /\ i' \in Nat /\ addr' \in Nat
        /\ addr' + DATA_SIZE < WORD
        /\ \A k \in Listed : k < i' => addr' >= End(k) \/ addr' + DATA_SIZE <= memArea(k).ptr
  BY DEF Passed, Sorted, Listed, nbAreas, memArea, Clear, End
<1> DEFINE a == memArea(i)
<1>1. /\ i \in Nat /\ addr \in Nat /\ addr + DATA_SIZE < WORD
      /\ \A k \in Listed : k < i => Clear(addr, k)
  BY DEF Passed
<1>2. i \in Listed /\ i \in 0 .. MAX_NB_AREA - 1 /\ i' = i + 1
  BY <1>1, FlashSizes DEF findDataFit, TableOK, Listed
<1>3. a.ptr \in Nat /\ a.size \in Nat /\ End(i) \in Nat
  BY <1>2 DEF TableOK, End
<1>4. End(i) + BLOCK + DATA_SIZE < WORD
  BY <1>2 DEF Sorted, End
<1>5. \A k \in Listed : memArea(k).ptr \in Nat /\ memArea(k).size \in Nat /\ End(k) \in Nat
  BY FlashSizes DEF Sorted, TableOK, Listed, End
<1>6. \A k \in Listed : k < i => End(k) <= a.ptr
  BY <1>2 DEF Sorted, End
<1>7. Uint(a.ptr + a.size) = End(i) /\ Uint(addr + DATA_SIZE) = addr + DATA_SIZE
  <2>1. End(i) < WORD
    BY <1>3, <1>4, FlashSizes
  <2>2. addr + DATA_SIZE \in Nat
    BY <1>1, FlashSizes
  <2>3. QED
    BY <1>1, <1>3, <2>1, <2>2, UintIsIdentity DEF End
<1>8. CASE Conflict(a)
  <2>1. addr' = RoundUp(End(i))
    BY <1>8 DEF findDataFit, End
  <2>2. RoundUp(End(i)) \in Nat /\ RoundUp(End(i)) >= End(i) /\ RoundUp(End(i)) < End(i) + BLOCK
    <3>1. End(i) + BLOCK < WORD
      BY <1>3, <1>4, FlashSizes
    <3>2. QED
      BY <1>3, <3>1, RoundUpBounds
  <2>3. addr' + DATA_SIZE < WORD
    BY <1>3, <1>4, <2>1, <2>2, FlashSizes
  <2>4. ASSUME NEW k \in Listed, k < i' PROVE addr' >= End(k)
    <3>1. CASE k = i
      BY <2>1, <2>2, <3>1
    <3>2. CASE k < i
      BY <1>3, <1>5, <1>6, <2>1, <2>2, <3>2 DEF End
    <3>3. QED
      BY <1>1, <1>2, <2>4, <3>1, <3>2, FlashSizes DEF Listed, TableOK
  <2>5. QED
    BY <1>1, <1>2, <2>1, <2>2, <2>3, <2>4
<1>9. CASE ~Conflict(a)
  <2>1. addr' = addr
    BY <1>9 DEF findDataFit
  <2>2. Clear(addr, i)
    BY <1>1, <1>3, <1>7, <1>9, FlashSizes DEF Conflict, Clear
  <2>3. ASSUME NEW k \in Listed, k < i' PROVE Clear(addr, k)
    <3>1. k = i \/ k < i
      BY <1>1, <1>2, <2>3 DEF Listed, TableOK
    <3>2. QED
      BY <1>1, <2>2, <3>1
  <2>4. QED
    BY <1>1, <1>2, <2>1, <2>3 DEF Clear
<1>10. QED
  BY <1>8, <1>9

\* Initially the candidate is the start of L2 and no area has been passed.
LEMMA PlaceInit == Init => PlaceInv
<1> SUFFICES ASSUME Init PROVE PlaceInv
  OBVIOUS
<1>1. TableOK
  BY BootsAssumption DEF Init, TableOK, nbAreas, memArea
<1>2. Phase /\ moved = FALSE
  BY DEF Init, LoaderInit, Phase, Loading
<1>3. Passed
  <2>1. i = 0 /\ addr = L2_BASE
    BY DEF Init, LoaderInit
  <2>2. \A k \in Listed : ~(k < i)
    BY <1>1, <2>1 DEF Listed, TableOK
  <2>3. QED
    BY <2>1, <2>2, FlashSizes DEF Passed
<1>4. QED
  BY <1>1, <1>2, <1>3 DEF PlaceInv

\* Steps that keep the table, the counters and the data keep what was found.
LEMMA FrameStep ==
    ASSUME PlaceInv, UNCHANGED <<table, i, addr, data, moved>>, Phase'
    PROVE  PlaceInv'
<1>1. TableOK'
  BY DEF PlaceInv, TableOK, nbAreas, memArea
<1>2. Passed => Passed'
  BY DEF Passed, Sorted, Listed, nbAreas, memArea, Clear, End
<1>3. Placed => Placed'
  BY DEF Placed, Sorted, Listed, nbAreas, memArea, Clear, End
<1>4. QED
  BY <1>1, <1>2, <1>3 DEF PlaceInv

\* So do the steps of the loading phase, which reuse the counter.
LEMMA LoadStep ==
    ASSUME PlaceInv, moved, UNCHANGED <<table, data, moved>>, Phase'
    PROVE  PlaceInv'
<1>1. TableOK'
  BY DEF PlaceInv, TableOK, nbAreas, memArea
<1>2. Placed => Placed'
  BY DEF Placed, Sorted, Listed, nbAreas, memArea, Clear, End
<1>3. QED
  BY <1>1, <1>2 DEF PlaceInv

\* The move takes the candidate once the whole table has been passed.
LEMMA MoveStep ==
    ASSUME PlaceInv, newStack, UNCHANGED <<table, after>>
    PROVE  PlaceInv'
<1>1. ~moved /\ moved' = TRUE /\ data' = addr
  BY DEF PlaceInv, Phase, newStack, Moved
<1>2. Passed
  BY <1>1 DEF PlaceInv
<1>3. TableOK'
  BY DEF PlaceInv, TableOK, nbAreas, memArea
<1>4. Sorted => addr \in Nat /\ \A k \in Listed : Clear(addr, k)
  <2> SUFFICES ASSUME Sorted PROVE addr \in Nat /\ \A k \in Listed : Clear(addr, k)
    OBVIOUS
  <2>1. \A k \in Listed : k < i
    BY <1>2 DEF newStack, Passed, Listed, PlaceInv, TableOK
  <2>2. QED
    BY <1>2, <2>1 DEF Passed
<1>5. Placed'
  BY <1>1, <1>4 DEF Placed, Sorted, Listed, nbAreas, memArea, Clear, End
<1>6. Phase'
  BY <1>1 DEF PlaceInv, Phase, newStack, Waiting
<1>7. QED
  BY <1>1, <1>3, <1>5, <1>6 DEF PlaceInv

\* Every step of either ROM, the channel and the environment.
LEMMA PlaceNext == PlaceInv /\ [Next]_vars => PlaceInv'
<1> SUFFICES ASSUME PlaceInv, [Next]_vars PROVE PlaceInv'
  OBVIOUS
<1> USE DEF PlaceInv
<1>1. CASE UNCHANGED vars
  <2>1. Phase'
    BY <1>1 DEF vars, Phase, Waiting, loaderVars, frontVars
  <2>2. QED
    BY <1>1, <2>1, FrameStep DEF vars, loaderVars, bootVars
<1>2. CASE Next
  <2> USE <1>2
  <2>0. UNCHANGED table
    BY DEF Next, bootVars
  <2>1. CASE findDataFit /\ UNCHANGED <<frontVars, itcVars>>
    <3>1. ~moved /\ Passed
      BY <2>1 DEF findDataFit, Phase
    <3>2. Passed'
      BY <2>0, <2>1, <3>1, OneIteration
    <3>3. Phase' /\ ~moved'
      BY <2>1, <3>1 DEF findDataFit, Phase, frontVars
    <3>4. TableOK'
      BY <2>0 DEF TableOK, nbAreas, memArea
    <3>5. QED
      BY <3>2, <3>3, <3>4, <2>1 DEF findDataFit
  <2>2. CASE newStack /\ UNCHANGED <<frontVars, itcVars>>
    BY <2>0, <2>2, MoveStep DEF frontVars
  <2>3. CASE sectionDone /\ UNCHANGED <<frontVars, itcVars>>
    <3>1. moved
      BY <2>3 DEF sectionDone, Phase, Loading
    <3>2. Phase' /\ UNCHANGED <<data, moved>>
      BY <2>3, <3>1 DEF sectionDone, Phase, Waiting, frontVars
    <3>3. QED
      BY <2>0, <3>1, <3>2, LoadStep
  <2>4. CASE (load_section \/ readBlock \/ advance) /\ UNCHANGED <<frontVars, itcVars>>
    <3>1. moved
      BY <2>4 DEF load_section, readBlock, advance, Phase, Loading
    <3>2. Phase' /\ UNCHANGED <<data, moved>>
      BY <2>4, <3>1 DEF load_section, readBlock, advance, FlashRead, Phase, Waiting,
                        frontVars, loaderVars
    <3>3. QED
      BY <2>0, <3>1, <3>2, LoadStep
  <2>5. CASE (getHeader \/ getAreas \/ PastTable \/ jump_to_entry \/ WaitRx)
             /\ UNCHANGED <<frontVars, itcVars>>
    <3>1. UNCHANGED <<i, addr, data, moved, after>>
      BY <2>5 DEF getHeader, getAreas, PastTable, jump_to_entry, WaitRx, loaderVars, frontVars
    <3>2. CASE getHeader \/ PastTable \/ jump_to_entry
      <4>1. Phase'
        BY <3>1, <3>2 DEF getHeader, PastTable, jump_to_entry, FlashRead,
                          Phase, Loading, Waiting
      <4>2. QED
        BY <2>0, <3>1, <4>1, FrameStep
    <3>3. CASE getAreas
      <4>1. Phase'
        BY <3>1, <3>3 DEF getAreas, FlashRead, AfterAreas, Phase, Loading, Waiting
      <4>2. QED
        BY <2>0, <3>1, <4>1, FrameStep
    <3>4. CASE WaitRx
      <4>1. Phase'
        BY <3>1, <3>4 DEF WaitRx, Phase, Loading, Waiting
      <4>2. QED
        BY <2>0, <3>1, <4>1, FrameStep
    <3>5. QED
      BY <2>5, <3>2, <3>3, <3>4
  <2>6. CASE EnableWait \/ wait_soc_event \/ wfi \/ wait_clock_ref
    <3>1. UNCHANGED <<i, addr, data, moved, after, ret>>
      BY <2>6 DEF EnableWait, wait_soc_event, wfi, wait_clock_ref, loaderVars, frontVars
    <3>2. Phase'
      BY <2>6, <3>1 DEF EnableWait, wait_soc_event, wfi, wait_clock_ref, Phase, Loading, Waiting
    <3>3. QED
      BY <2>0, <3>1, <3>2, FrameStep
  <2>7. CASE bootFromOther \/ boot_abort \/ init \/ bootFromJtag \/ pollJtag
    <3>1. UNCHANGED <<i, addr, data, moved, ret>>
      BY <2>7 DEF bootFromOther, boot_abort, init, bootFromJtag, pollJtag, loaderVars
    <3>2. Phase'
      BY <2>7, <3>1 DEF bootFromOther, Chosen, boot_abort, init, bootFromJtag, pollJtag,
                        StartTicks, Phase, Loading, Waiting, frontVars
    <3>3. QED
      BY <2>0, <3>1, <3>2, FrameStep
  <2>8. CASE Channel
    <3>1. UNCHANGED <<i, addr, data, moved, after, ret>>
      BY <2>8 DEF Channel, Transfer, frontVars
    <3>2. pc' \in {pc, "lost"}
      BY <2>8 DEF Channel, Transfer
    <3>3. Phase'
      BY <3>1, <3>2 DEF Phase, Loading, Waiting
    <3>4. QED
      BY <2>0, <3>1, <3>3, FrameStep
  <2>9. CASE ClockRef \/ DebuggerLoads \/ DebuggerNotifies
    <3>1. UNCHANGED <<i, addr, data, moved, after, ret, pc>>
      BY <2>9 DEF ClockRef, DebuggerLoads, DebuggerNotifies, loaderVars, frontVars
    <3>2. Phase'
      BY <3>1 DEF Phase
    <3>3. QED
      BY <2>0, <3>1, <3>2, FrameStep
  <2>10. QED
    BY <2>1, <2>2, <2>3, <2>4, <2>5, <2>6, <2>7, <2>8, <2>9 DEF Next, Rom, Loader
<1>3. QED
  BY <1>1, <1>2

\* What was found is disjoint from every area.
LEMMA PlacedIsFree == PlaceInv => PlaceIsFree
<1> SUFFICES ASSUME PlaceInv, moved, Sorted, NEW k \in Listed
             PROVE  (data .. data + DATA_SIZE - 1) \cap Area(k) = {}
  BY DEF PlaceIsFree
<1>1. data \in Nat /\ Clear(data, k)
  BY DEF PlaceInv, Placed
<1>2. memArea(k).ptr \in Nat /\ memArea(k).size \in Nat
  BY FlashSizes DEF PlaceInv, TableOK, Sorted, Listed
<1>3. QED
  BY <1>1, <1>2, FlashSizes DEF Clear, End, Area

(***************************************************************************)
(* For every sorted area table, block size and data size, the place to     *)
(* which the loader moves its data and stack meets no area (main.c:150).   *)
(***************************************************************************)
THEOREM PlaceIsAlwaysFree == Spec => []PlaceIsFree
<1>1. PlaceInv /\ [Next]_vars => PlaceInv'
  BY PlaceNext
<1>2. QED
  BY PlaceInit, <1>1, PlacedIsFree, PTL DEF Spec

-----------------------------------------------------------------------------
\* An event is in the status register only between the last word of a read
\* and the end of the wait for it.
ReadInv == /\ ReadsComplete
           /\ "SOC_EVT" \in status /\ pc # "lost" => pc \in Waiting /\ dma.len = 0
           /\ after \in {"none", "getMemAreas", "pollJtag"}
           /\ "SOC_EVT" \in status => rom = "pulp"

\* The steps of the loader start a read or leave the channel alone.
LEMMA LoaderReads ==
    ASSUME ReadInv, Loader, UNCHANGED <<status, after, rom>>
    PROVE  ReadInv'
<1>1. pc \notin Waiting \cup {"lost"}
  BY DEF Loader, getHeader, getAreas, findDataFit, PastTable, newStack, load_section,
         readBlock, advance, sectionDone, jump_to_entry, Waiting
<1>2. dma.len = 0 /\ "SOC_EVT" \notin status
  BY <1>1 DEF ReadInv, ReadsComplete, Waiting
<1>3. pc' \in {"wait", "lost"} \/ dma' = dma
  BY DEF Loader, getHeader, getAreas, findDataFit, PastTable, newStack, load_section,
         readBlock, advance, sectionDone, jump_to_entry, FlashRead
<1>4. QED
  BY <1>2, <1>3 DEF ReadInv, ReadsComplete, Waiting

\* Every step keeps ReadInv.
LEMMA ReadNext == ReadInv /\ [Next]_vars => ReadInv'
<1> SUFFICES ASSUME ReadInv, [Next]_vars PROVE ReadInv'
  OBVIOUS
<1> USE DEF ReadInv, ReadsComplete, Waiting
<1>1. CASE UNCHANGED vars
  BY <1>1 DEF vars, bootVars, frontVars, itcVars
<1>2. CASE Next
  <2>0. UNCHANGED rom
    BY <1>2 DEF Next, bootVars
  <2>1. CASE Loader /\ UNCHANGED <<frontVars, itcVars>>
    BY <2>0, <2>1, LoaderReads DEF frontVars, itcVars
  <2>2. CASE WaitRx /\ UNCHANGED <<frontVars, itcVars>>
    BY <2>0, <2>2 DEF WaitRx, frontVars, itcVars
  <2>3. CASE EnableWait \/ wait_soc_event \/ wfi
    BY <2>0, <2>3 DEF EnableWait, wait_soc_event, FinishWait, wfi, frontVars, itcVars
  <2>4. CASE wait_clock_ref
    BY <2>0, <2>4 DEF wait_clock_ref, ClearTick
  <2>5. CASE bootFromOther \/ boot_abort
    BY <2>0, <2>5 DEF bootFromOther, Chosen, boot_abort, frontVars, itcVars
  <2>6. CASE init \/ bootFromJtag \/ pollJtag
    BY <2>0, <2>6 DEF init, bootFromJtag, pollJtag, StartTicks, frontVars, itcVars
  <2>7. CASE Channel
    <3>1. /\ pc \in Waiting /\ dma.len > 0
          /\ pc' \in {pc, "lost"} /\ after' = after
      BY <2>7 DEF Channel, Transfer, frontVars
    <3>2. "SOC_EVT" \notin status
      <4>1. dma.len # 0
        BY <3>1
      <4>2. QED
        BY <3>1, <4>1
    <3>3. "SOC_EVT" \in status' => rom = "pulp" /\ dma'.len = 0
      BY <2>7, <3>2 DEF Channel
    <3>4. QED
      BY <2>0, <3>1, <3>3
  <2>8. CASE ClockRef \/ DebuggerLoads \/ DebuggerNotifies
    BY <2>0, <2>8 DEF ClockRef, DebuggerLoads, DebuggerNotifies, frontVars, itcVars
  <2>9. QED
    BY <1>2, <2>1, <2>2, <2>3, <2>4, <2>5, <2>6, <2>7, <2>8 DEF Next, Rom
<1>3. QED
  BY <1>1, <1>2

(***************************************************************************)
(* Neither ROM goes on after a flash read before the channel has moved its *)
(* last word, whenever the reference clock ticks (boot_code.c:97).         *)
(***************************************************************************)
THEOREM ReadsAreComplete == Spec => []ReadsComplete
<1>1. Init => ReadInv
  BY DEF Init, LoaderInit, ReadInv, ReadsComplete, Waiting
<1>2. ReadInv => ReadsComplete
  BY DEF ReadInv
<1>3. QED
  BY <1>1, <1>2, ReadNext, PTL DEF Spec

-----------------------------------------------------------------------------
\* In and on the way to the polling loop of a JTAG boot.
InJtag == \/ pc \in {"bootFromJtag", "pollJtag"}
          \/ pc = "tick" /\ after = "pollJtag"

\* Until the debugger has loaded its program nobody sets the first bit: the
\* polling loop is reached only with the request that has it clear.
JtagInv == /\ ret \in {"none", "getAreas", "fit", "load", "advance"}
           /\ after \in {"none", "getMemAreas", "pollJtag"}
           /\ ~loaded => /\ ext \in 0 .. 15 \ {3}
                         /\ InJtag => ext = 2
                         /\ pc # "jumpedJtag"

\* The loader and its reads never enter the JTAG boot.
LEMMA LoaderNotJtag ==
    ASSUME JtagInv, Loader \/ WaitRx, UNCHANGED frontVars
    PROVE  JtagInv'
<1>1. CASE getHeader \/ getAreas
  BY <1>1 DEF getHeader, getAreas, FlashRead, AfterAreas, JtagInv, InJtag, frontVars
<1>2. CASE findDataFit \/ PastTable \/ newStack
  BY <1>2 DEF findDataFit, PastTable, newStack, JtagInv, InJtag, frontVars
<1>3. CASE load_section \/ readBlock \/ advance
  BY <1>3 DEF load_section, readBlock, FlashRead, advance, JtagInv, InJtag, frontVars
<1>4. CASE sectionDone \/ jump_to_entry \/ WaitRx
  BY <1>4 DEF sectionDone, jump_to_entry, WaitRx, JtagInv, InJtag, frontVars
<1>5. QED
  BY <1>1, <1>2, <1>3, <1>4 DEF Loader

\* Every step keeps JtagInv.
LEMMA JtagNext == JtagInv /\ [Next]_vars => JtagInv'
<1> SUFFICES ASSUME JtagInv, [Next]_vars PROVE JtagInv'
  OBVIOUS
<1> USE DEF JtagInv, InJtag
<1>1. CASE UNCHANGED vars
  BY <1>1 DEF vars, frontVars
<1>2. CASE Next
  <2>1. CASE (Loader \/ WaitRx) /\ UNCHANGED <<frontVars, itcVars>>
    BY <2>1, LoaderNotJtag
  <2>2. CASE EnableWait \/ wait_soc_event \/ wfi
    BY <2>2 DEF EnableWait, wait_soc_event, wfi, frontVars
  <2>3. CASE wait_clock_ref
    BY <2>3 DEF wait_clock_ref
  <2>4. CASE bootFromOther
    <3>1. pc' # "jumpedJtag" /\ UNCHANGED <<ext, after, loaded, ret>>
      BY <2>4 DEF bootFromOther, Chosen, frontVars
    <3>2. ASSUME ~loaded, InJtag' PROVE ext = 2
      <4>1. pc' = "bootFromJtag"
        BY <2>4, <3>2 DEF bootFromOther, Chosen, frontVars
      <4>2. ext \div 2 = BOOT_JTAG
        BY <2>4, <4>1 DEF bootFromOther, Chosen
      <4>3. QED
        BY <3>2, <4>2 DEF BOOT_JTAG
    <3>3. QED
      BY <3>1, <3>2
  <2>5. CASE boot_abort \/ init \/ bootFromJtag
    BY <2>5 DEF boot_abort, init, bootFromJtag, StartTicks, frontVars
  <2>6. CASE pollJtag
    <3>1. ~loaded => ~Ready(ext)
      BY <2>6 DEF pollJtag, Ready
    <3>2. QED
      BY <2>6, <3>1 DEF pollJtag, StartTicks
  <2>7. CASE Channel
    BY <2>7 DEF Channel, Transfer, frontVars
  <2>8. CASE ClockRef \/ DebuggerLoads \/ DebuggerNotifies
    BY <2>8 DEF ClockRef, DebuggerLoads, DebuggerNotifies, frontVars
  <2>9. QED
    BY <1>2, <2>1, <2>2, <2>3, <2>4, <2>5, <2>6, <2>7, <2>8 DEF Next, Rom
<1>3. QED
  BY <1>1, <1>2

(***************************************************************************)
(* A JTAG boot never jumps before the debugger has loaded its program, for *)
(* every request but the one that already has the first bit set            *)
(* (boot_code.c:341-356, 377-387).                                         *)
(***************************************************************************)
THEOREM JtagBootRunsTheProgram == Spec => []JtagJumpMeansLoaded
<1>1. Init => JtagInv
  BY BootsAssumption DEF Init, LoaderInit, JtagInv, InJtag
<1>2. JtagInv => JtagJumpMeansLoaded
  BY DEF JtagInv, JtagJumpMeansLoaded
<1>3. QED
  BY <1>1, <1>2, JtagNext, PTL DEF Spec

-----------------------------------------------------------------------------
(* Loading a well-formed image *)

ROMs == {"a2", "pulp"}

\* The fields of the table that only load_section reads.
EntriesOK == /\ rom \in ROMs
             /\ \A k \in 0 .. MAX_NB_AREA - 1 : memArea(k).start \in Nat /\ memArea(k).blocks \in Nat

(* The inductive invariant of LoaderSurvives and ImageLoaded. *)

\* The second alternative of Room: nothing is in the way of the first place.
FirstPlaceFree == \A k \in Listed : memArea(k).ptr >= L2_BASE + DATA_SIZE

\* The data at a is in memory the loader may use.
Fits(a) == a \in Nat /\ L2_BASE <= a /\ a + DATA_SIZE <= TOP[rom]

\* findDataFit's candidate, and the place found.
FitInv == IF moved THEN Fits(data)
          ELSE Fits(addr) /\ addr % BLOCK = 0 /\ (FirstPlaceFree => addr = L2_BASE)

\* Area k is in its place up to address e.
LoadedTo(k, e) ==
    \A x \in Area(k) : x < e => mem[x] = memArea(k).start + x - memArea(k).ptr

AreasDone == moved => i \in Nat /\ \A k \in Listed : k < i => LoadedTo(k, End(k))

\* A block of a section is being read, or has been read and waits for advance.
Reading == pc = "advance" \/ (pc \in Waiting /\ ret = "advance")

\* Blocks that n bytes take.
CeilDiv(n) == (n + BLOCK - 1) \div BLOCK

\* The running addresses agree with the bytes and blocks that are left.
Running == /\ size \in Nat \ {0} /\ size <= memArea(i).size
           /\ (memArea(i).size - size) % 4 = 0
           /\ memArea(i).blocks = blk + CeilDiv(size)
           /\ area_addr = End(i) - size
           /\ flash_addr = memArea(i).start + memArea(i).size - size
           /\ LoadedTo(i, area_addr)
AllBlocks == blk >= memArea(i).blocks /\ LoadedTo(i, End(i))

SectionInv == /\ Reading \/ pc = "block" => moved /\ i \in Listed /\ blk \in Nat
              /\ Reading => Running
              /\ pc = "block" => Running \/ AllBlocks

\* How far the channel is: what it has moved is in its place, in the area or
\* in flashBuffer.
Target == IF isL2Section(i) THEN area_addr ELSE data
Fetched == iterSize - dma.len
ChannelInv ==
    /\ pc \in Waiting /\ ret # "advance" => dma.own
    /\ Reading => /\ ~dma.own
                  /\ dma.len \in Nat /\ dma.len <= iterSize /\ dma.len % 4 = 0
                  /\ dma.to = Target + Fetched
                  /\ dma.len > 0 => dma.flash = flash_addr + Fetched
                  /\ \A k \in 0 .. Fetched - 1 : k < size => mem[Target + k] = flash_addr + k
    /\ pc = "advance" => dma.len = 0

LoadInv == /\ pc # "lost"
           /\ FitInv /\ AreasDone /\ SectionInv /\ ChannelInv
           /\ pc = "jumped" => moved /\ i >= nbAreas

\* The fields of a transfer.
DmaRecord == dma = [flash |-> dma.flash, to |-> dma.to, len |-> dma.len, own |-> dma.own]

ImageInv == /\ DmaRecord
            /\ PlaceInv /\ ReadInv /\ JtagInv /\ EntriesOK
            /\ WellFormed => LoadInv

-----------------------------------------------------------------------------
(* Arithmetic of the rounding and of the block counts *)

\* Rounding up to a word, in the range where it does not wrap.
LEMMA Word4Bounds ==
    ASSUME NEW n \in Nat, n + 3 < WORD
    PROVE  /\ Word4(n) \in Nat /\ Word4(n) % 4 = 0
           /\ n <= Word4(n) /\ Word4(n) <= n + 3
<1>1. Uint(n + 3) = n + 3
  BY UintIsIdentity
<1>2. Word4(n) = (n + 3) - ((n + 3) % 4)
  BY <1>1 DEF Word4
<1>3. QED
  BY <1>2

\* A multiple leaves no remainder.
LEMMA MultipleMod ==
    ASSUME NEW b \in Nat \ {0}, NEW q \in Nat
    PROVE  (b * q) % b = 0
<1> DEFINE r == (b * q) % b
           d == (b * q) \div b
<1>1. d \in Int /\ r \in 0 .. b - 1 /\ b * q = b * d + r
  OBVIOUS
<1> HIDE DEF r, d
<1>2. CASE q - d >= 1
  <2>1. b * (q - d) >= b * 1
    BY <1>1, <1>2
  <2>2. QED
    BY <1>1, <2>1
<1>3. CASE q - d <= -1
  <2>1. b * (q - d) <= b * (-1)
    BY <1>1, <1>3
  <2>2. QED
    BY <1>1, <2>1
<1>4. CASE q = d
  <2>1. b * q = b * d /\ b * d \in Int
    BY <1>1, <1>4
  <2>2. r = 0
    BY <1>1, <2>1
  <2>3. QED
    BY <2>2 DEF r
<1>5. q - d >= 1 \/ q - d <= -1 \/ q = d
  BY <1>1
<1>6. QED
  BY <1>2, <1>3, <1>4, <1>5

\* What is rounded up to a block is a multiple of a block.
LEMMA RoundUpAligned ==
    ASSUME NEW n \in Nat, n + BLOCK < WORD
    PROVE  RoundUp(n) % BLOCK = 0
<1> DEFINE u == n + BLOCK - 1
<1>1. u \in Nat /\ u < WORD
  BY FlashSizes
<1>2. RoundUp(n) = u - (u % BLOCK)
  BY <1>1, UintIsIdentity DEF RoundUp
<1> DEFINE q == u \div BLOCK
<1>3. q \in Nat /\ u = BLOCK * q + (u % BLOCK)
  BY <1>1, FlashSizes
<1> HIDE DEF q, u
<1>4. u - (u % BLOCK) = BLOCK * q
  BY <1>1, <1>3, FlashSizes
<1>5. (BLOCK * q) % BLOCK = 0
  BY <1>3, FlashSizes, MultipleMod
<1>6. QED
  BY <1>2, <1>4, <1>5

\* Blocks of a positive number of bytes, and after one block less.
LEMMA CeilDivPositive ==
    ASSUME NEW n \in Nat, n > 0
    PROVE  CeilDiv(n) \in Nat \ {0}
BY FlashSizes DEF CeilDiv

LEMMA CeilDivZero == CeilDiv(0) = 0
BY FlashSizes DEF CeilDiv

LEMMA CeilDivLast ==
    ASSUME NEW n \in Nat, n > 0, n <= BLOCK
    PROVE  CeilDiv(n) = 1
BY FlashSizes DEF CeilDiv

LEMMA CeilDivStep ==
    ASSUME NEW n \in Nat, n > BLOCK
    PROVE  CeilDiv(n) = CeilDiv(n - BLOCK) + 1
BY FlashSizes DEF CeilDiv

-----------------------------------------------------------------------------
(* What a well-formed table promises, and where the loader's writes fall *)

\* The entry of a listed area.
LEMMA EntryFacts ==
    ASSUME TableOK, EntriesOK, WellFormed, NEW k \in Listed
    PROVE  /\ k \in Nat /\ k < nbAreas /\ k < MAX_NB_AREA
           /\ memArea(k).ptr \in Nat /\ memArea(k).size \in Nat
           /\ memArea(k).start \in Nat /\ memArea(k).blocks \in Nat
           /\ End(k) = memArea(k).ptr + memArea(k).size
           /\ End(k) + BLOCK + DATA_SIZE < WORD
           /\ memArea(k).blocks = CeilDiv(memArea(k).size)
           /\ memArea(k).start + memArea(k).size <= FLASH_SPAN
<1>1. k \in Nat /\ k < nbAreas /\ nbAreas <= MAX_NB_AREA
  BY DEF TableOK, Listed, WellFormed, Sorted
<1>2. k \in 0 .. MAX_NB_AREA - 1 /\ k < MAX_NB_AREA
  BY <1>1, FlashSizes DEF TableOK
<1>3. memArea(k).ptr \in Nat /\ memArea(k).size \in Nat
  BY <1>2 DEF TableOK
<1>4. memArea(k).start \in Nat /\ memArea(k).blocks \in Nat
  BY <1>2 DEF EntriesOK
<1>5. End(k) + BLOCK + DATA_SIZE < WORD
  BY DEF WellFormed, Sorted, End
<1>6. Consistent(memArea(k))
  BY DEF WellFormed
<1>7. QED
  BY <1>1, <1>2, <1>3, <1>4, <1>5, <1>6 DEF Consistent, CeilDiv, End

(***************************************************************************)
(* A block: a positive number of words, at most a whole block, reaching at *)
(* most to the end of the rounded-up area; only the last one is rounded.   *)
(***************************************************************************)
LEMMA BlockSize ==
    ASSUME TableOK, EntriesOK, WellFormed, i \in Listed, Running
    PROVE  /\ iterSize \in Nat /\ iterSize >= 4 /\ iterSize % 4 = 0 /\ iterSize <= BLOCK
           /\ iterSize <= size + 3
           /\ IF size > BLOCK THEN iterSize = BLOCK ELSE iterSize >= size
           /\ memArea(i).size - size + iterSize <= Word4(memArea(i).size)
           /\ Word4(memArea(i).size) <= memArea(i).size + 3
<1> DEFINE S == memArea(i).size
<1>1. S \in Nat /\ S + 3 < WORD
  BY EntryFacts, FlashSizes
<1>2. size \in Nat \ {0} /\ size <= S /\ (S - size) % 4 = 0
  BY DEF Running
<1>3. size + 3 < WORD
  BY <1>1, <1>2, FlashSizes
<1>4. Word4(S) = (S + 3) - ((S + 3) % 4) /\ Word4(size) = (size + 3) - ((size + 3) % 4)
  <2>1. Uint(S + 3) = S + 3 /\ Uint(size + 3) = size + 3
    BY <1>1, <1>2, <1>3, UintIsIdentity
  <2>2. QED
    BY <2>1 DEF Word4
<1>5. CASE BLOCK > size
  <2>1. iterSize = Word4(size)
    BY <1>5 DEF iterSize
  <2>2. QED
    BY <1>1, <1>2, <1>4, <1>5, <2>1, FlashSizes
<1>6. CASE ~(BLOCK > size)
  <2>1. iterSize = BLOCK
    BY <1>6 DEF iterSize
  <2>2. QED
    BY <1>1, <1>2, <1>4, <1>6, <2>1, FlashSizes
<1>7. QED
  BY <1>5, <1>6

\* A write inside a rounded-up area meets memory and nothing the loader needs:
\* the bytes past the end can only be those of flashBuffer.
LEMMA AreaWrite ==
    ASSUME TableOK, EntriesOK, WellFormed, Placed, moved, Fits(data),
           NEW k \in Listed, NEW lo \in Nat, NEW n \in Nat,
           memArea(k).ptr <= lo, lo + n <= memArea(k).ptr + Word4(memArea(k).size),
           Word4(memArea(k).size) <= memArea(k).size + 3, Word4(memArea(k).size) \in Nat
    PROVE  lo .. lo + n - 1 \subseteq RAM /\ ~Overwritten(lo, n)
<1>1. /\ memArea(k).ptr \in Nat /\ memArea(k).size \in Nat
      /\ End(k) = memArea(k).ptr + memArea(k).size
  BY EntryFacts
<1>2. lo .. lo + n - 1 \subseteq Written(k)
  BY <1>1 DEF Written
<1>3. Written(k) \subseteq RAM /\ (rom = "a2" => Written(k) \cap Driver = {})
  BY DEF WellFormed, Room
<1>4. data \in Nat /\ (data >= End(k) \/ data + DATA_SIZE <= memArea(k).ptr)
  BY DEF Placed, WellFormed, Clear
<1>5. ASSUME NEW x \in lo .. lo + n - 1 PROVE x \notin Fields(data)
  BY <1>1, <1>4, FlashSizes DEF Fields
<1>6. QED
  BY <1>2, <1>3, <1>5 DEF Overwritten, Live

\* So does a write into flashBuffer, and it meets no area.
LEMMA BufferWrite ==
    ASSUME TableOK, EntriesOK, WellFormed, Placed, moved, Fits(data),
           NEW lo \in Nat, NEW n \in Nat, data <= lo, lo + n <= data + BLOCK
    PROVE  /\ lo .. lo + n - 1 \subseteq RAM /\ ~Overwritten(lo, n)
           /\ \A k \in Listed : (lo .. lo + n - 1) \cap Area(k) = {}
<1>1. data \in Nat /\ L2_BASE <= data /\ data + DATA_SIZE <= TOP[rom]
  BY DEF Fits
<1>2. rom \in ROMs /\ TOP[rom] \in Nat /\ L2_BASE .. TOP[rom] - 1 \subseteq RAM
  BY MemoryMap DEF EntriesOK, ROMs
<1>3. \A x \in lo .. lo + n - 1 : x \in L2_BASE .. TOP[rom] - 1 /\ x \notin Fields(data)
  BY <1>1, <1>2, FlashSizes DEF Fields
<1>4. rom = "a2" => (lo .. lo + n - 1) \cap Driver = {}
  BY <1>3, MemoryMap
<1>5. ASSUME NEW k \in Listed PROVE (lo .. lo + n - 1) \cap Area(k) = {}
  <2>1. memArea(k).ptr \in Nat /\ memArea(k).size \in Nat
    BY EntryFacts
  <2>2. data >= End(k) \/ data + DATA_SIZE <= memArea(k).ptr
    BY DEF Placed, WellFormed, Clear
  <2>3. QED
    BY <1>1, <2>1, <2>2, FlashSizes DEF Area, End
<1>6. QED
  BY <1>2, <1>3, <1>4, <1>5 DEF Overwritten, Live

-----------------------------------------------------------------------------
(* The steps *)

\* What holds of the table and of the place in every state of a good boot.
Good == TableOK /\ EntriesOK /\ DmaRecord /\ WellFormed /\ PlaceInv /\ ReadInv /\ JtagInv /\ LoadInv

\* The table and the ROM do not change, so nor does what is promised of them.
LEMMA SameTable ==
    ASSUME UNCHANGED <<rom, table>>
    PROVE  /\ WellFormed' = WellFormed /\ Listed' = Listed /\ nbAreas' = nbAreas
           /\ FirstPlaceFree' = FirstPlaceFree
           /\ \A k : /\ memArea(k)' = memArea(k) /\ End(k)' = End(k) /\ Area(k)' = Area(k)
                     /\ isL2Section(k)' = isL2Section(k)
           /\ \A a : Fits(a)' = Fits(a)
BY DEF WellFormed, Sorted, Room, Consistent, Written, Listed, nbAreas, memArea, End, Area,
       FirstPlaceFree, Fits, isL2Section

\* Steps that leave the loader's variables alone keep what it has done.
LEMMA SameLoader ==
    ASSUME UNCHANGED <<rom, table, loaderVars>>
    PROVE  /\ FitInv' = FitInv /\ AreasDone' = AreasDone
           /\ Running' = Running /\ AllBlocks' = AllBlocks
           /\ iterSize' = iterSize /\ Target' = Target
<1>1. UNCHANGED <<i, blk, data, moved, addr, flash_addr, area_addr, size, mem>>
  BY DEF loaderVars
<1>2. UNCHANGED <<WellFormed, Listed, nbAreas, FirstPlaceFree>>
  BY SameTable
<1>3. \A k : /\ memArea(k)' = memArea(k) /\ End(k)' = End(k) /\ Area(k)' = Area(k)
             /\ isL2Section(k)' = isL2Section(k)
  BY SameTable
<1>4. UNCHANGED FitInv
  BY <1>1, <1>2 DEF FitInv, Fits
<1>5. \A k, e : LoadedTo(k, e)' = LoadedTo(k, e)
  BY <1>1, <1>3 DEF LoadedTo
<1>6. UNCHANGED AreasDone
  BY <1>1, <1>2, <1>3, <1>5 DEF AreasDone
<1>7. UNCHANGED <<Running, AllBlocks>>
  BY <1>1, <1>3, <1>5 DEF Running, AllBlocks, CeilDiv
<1>8. UNCHANGED <<iterSize, Target>>
  BY <1>1, <1>3 DEF iterSize, Target, Word4, Uint
<1>9. QED
  BY <1>4, <1>6, <1>7, <1>8

\* Steps of the front end, of the interrupt controller and of the environment.
LEMMA QuietStep ==
    ASSUME Good, UNCHANGED <<rom, table, loaderVars, dma, ret>>,
           \/ pc' = pc
           \/ /\ pc' \notin {"lost", "advance", "block", "jumped"}
              /\ pc' \in Waiting => pc \in Waiting
    PROVE  LoadInv'
<1>1. LoadInv
  BY DEF Good
<1>2. UNCHANGED <<nbAreas, Listed>> /\ UNCHANGED <<i, blk, data, moved, size, mem, flash_addr>>
  BY SameTable DEF loaderVars
<1>3. FitInv' /\ AreasDone' /\ Running' = Running /\ AllBlocks' = AllBlocks
  BY <1>1, SameLoader DEF LoadInv
<1>4. Reading' => Reading
  BY DEF Reading
<1>5. SectionInv'
  BY <1>1, <1>2, <1>3, <1>4 DEF LoadInv, SectionInv
<1>6. iterSize' = iterSize /\ Target' = Target
  BY SameLoader
<1>7. ChannelInv'
  BY <1>1, <1>2, <1>4, <1>6 DEF LoadInv, ChannelInv, Fetched
<1>8. QED
  BY <1>1, <1>2, <1>3, <1>5, <1>7 DEF LoadInv

\* The end of a wait: the channel is done and the ROM goes on where it asked to.
LEMMA ReturnStep ==
    ASSUME Good, UNCHANGED <<rom, table, loaderVars, dma, ret>>,
           pc \in Waiting, dma.len = 0, pc' = ret
    PROVE  LoadInv'
<1>1. LoadInv /\ ret \in {"none", "getAreas", "fit", "load", "advance"}
  BY DEF Good, JtagInv
<1>2. UNCHANGED <<nbAreas, Listed>> /\ UNCHANGED <<i, blk, data, moved, size, mem, flash_addr>>
  BY SameTable DEF loaderVars
<1>3. FitInv' /\ AreasDone' /\ Running' = Running /\ AllBlocks' = AllBlocks
  BY <1>1, SameLoader DEF LoadInv
<1>4. Reading' => Reading
  BY <1>1 DEF Reading, Waiting
<1>5. SectionInv'
  BY <1>1, <1>2, <1>3, <1>4 DEF LoadInv, SectionInv
<1>6. iterSize' = iterSize /\ Target' = Target
  BY SameLoader
<1>7. ChannelInv'
  BY <1>1, <1>2, <1>4, <1>6 DEF LoadInv, ChannelInv, Fetched, Waiting
<1>8. QED
  BY <1>1, <1>2, <1>3, <1>5, <1>7 DEF LoadInv

\* getMemAreas: reads into the loader's own fields, none of them empty, or the
\* way past the second read.
LEMMA TableReads ==
    ASSUME Good, getHeader \/ getAreas, UNCHANGED <<rom, table>>
    PROVE  LoadInv'
<1>1. LoadInv
  BY DEF Good
<1>2. UNCHANGED loaderVars
  BY DEF getHeader, getAreas
<1>3. FitInv' /\ AreasDone'
  BY <1>1, <1>2, SameLoader DEF LoadInv
<1>4. \/ pc' = "wait" /\ ret' \in {"getAreas", "fit", "load"} /\ dma'.own
      \/ pc' \in {"fit", "load"}
  <2>1. CASE getHeader
    BY <2>1 DEF getHeader, FlashRead, Header
  <2>2. CASE getAreas /\ nbAreas = 0
    BY <2>2 DEF getAreas, AfterAreas
  <2>3. CASE getAreas /\ nbAreas # 0
    <3>1. Min2(nbAreas, MAX_NB_AREA) # 0
      BY <2>3, FlashSizes DEF Good, TableOK, WellFormed, Sorted, Min2
    <3>2. QED
      BY <2>3, <3>1 DEF getAreas, FlashRead, AfterAreas
  <2>4. QED
    BY <2>1, <2>2, <2>3
<1>5. SectionInv' /\ ChannelInv'
  BY <1>4 DEF SectionInv, ChannelInv, Reading, Waiting
<1>6. QED
  BY <1>3, <1>4, <1>5 DEF LoadInv

\* The loops never leave the table of a well-formed image.
LEMMA NotPastTable ==
    ASSUME Good
    PROVE  ~PastTable
<1> SUFFICES ASSUME PastTable PROVE FALSE
  OBVIOUS
<1>1. i \in Nat
  BY DEF Good, PlaceInv, Passed, LoadInv, AreasDone, WellFormed
<1>2. QED
  BY <1>1, FlashSizes DEF PastTable, Good, TableOK, WellFormed, Sorted

(***************************************************************************)
(* findDataFit keeps the candidate in L2 and below TOP: a move only goes   *)
(* up, to a place behind an area that leaves room; if instead the start of *)
(* L2 is free, there is no move.                                           *)
(***************************************************************************)
LEMMA FitStep ==
    ASSUME Good, findDataFit, UNCHANGED <<rom, table>>
    PROVE  LoadInv'
<1> DEFINE a == memArea(i)
<1>1. LoadInv /\ ~moved /\ Passed
  BY DEF Good, PlaceInv, Phase, findDataFit
<1>2. UNCHANGED <<pc, ret, data, moved>> /\ pc = "fit"
  BY DEF findDataFit
<1>3. /\ i \in Nat /\ addr \in Nat /\ addr + DATA_SIZE < WORD
  BY <1>1 DEF Passed, Good, WellFormed
<1>4. i \in Listed
  BY <1>3 DEF findDataFit, Listed, Good, TableOK
<1>5. /\ a.ptr \in Nat /\ a.size \in Nat /\ End(i) = a.ptr + a.size
      /\ End(i) + BLOCK + DATA_SIZE < WORD
  BY <1>4, EntryFacts DEF Good
<1>6. Fits(addr) /\ addr % BLOCK = 0 /\ (FirstPlaceFree => addr = L2_BASE)
  BY <1>1 DEF LoadInv, FitInv
<1>7. Uint(a.ptr + a.size) = a.ptr + a.size /\ Uint(addr + DATA_SIZE) = addr + DATA_SIZE
  <2>1. a.ptr + a.size \in Nat /\ a.ptr + a.size < WORD
    BY <1>5, FlashSizes
  <2>2. addr + DATA_SIZE \in Nat
    BY <1>3, FlashSizes
  <2>3. QED
    BY <1>3, <2>1, <2>2, UintIsIdentity
<1>8. Fits(addr') /\ addr' % BLOCK = 0 /\ (FirstPlaceFree => addr' = L2_BASE)
  <2>1. CASE ~Conflict(a)
    BY <1>6, <2>1 DEF findDataFit
  <2>2. CASE Conflict(a)
    <3>1. addr' = RoundUp(End(i))
      BY <1>5, <2>2 DEF findDataFit
    <3>2. End(i) \in Nat /\ End(i) + BLOCK < WORD
      BY <1>5, FlashSizes
    <3>3. RoundUp(End(i)) \in Nat /\ RoundUp(End(i)) >= End(i) /\ RoundUp(End(i)) % BLOCK = 0
      BY <3>2, RoundUpBounds, RoundUpAligned
    <3>4. addr < End(i) \/ (addr < a.ptr /\ addr + DATA_SIZE > a.ptr)
      BY <1>5, <1>7, <2>2 DEF Conflict
    <3>5. ~FirstPlaceFree
      <4>1. SUFFICES ASSUME a.ptr >= L2_BASE + DATA_SIZE, addr = L2_BASE PROVE FALSE
        BY <1>4, <1>6 DEF FirstPlaceFree
      <4>2. QED
        BY <1>5, <1>7, <2>2, <4>1, FlashSizes DEF Conflict
    <3>6. RoundUp(End(i)) + DATA_SIZE <= TOP[rom]
      BY <1>4, <1>5, <3>5 DEF Good, WellFormed, Room, FirstPlaceFree
    <3>7. QED
      BY <1>3, <1>5, <1>6, <3>1, <3>3, <3>4, <3>5, <3>6, FlashSizes DEF Fits
  <2>3. QED
    BY <2>1, <2>2
<1>9. FitInv'
  BY <1>1, <1>2, <1>8, SameTable DEF FitInv, Fits
<1>10. AreasDone' /\ SectionInv' /\ ChannelInv'
  BY <1>1, <1>2 DEF AreasDone, SectionInv, ChannelInv, Reading, Waiting
<1>11. QED
  BY <1>2, <1>9, <1>10 DEF LoadInv

\* The move: the fields at the new place are in memory and apart from what is
\* still in use.
LEMMA NewStackStep ==
    ASSUME Good, newStack, UNCHANGED <<rom, table>>
    PROVE  LoadInv'
<1>1. LoadInv /\ ~moved /\ moved' = TRUE /\ data' = addr /\ i' = 0
  BY DEF Good, PlaceInv, Phase, newStack, Moved
<1>2. addr \in Nat /\ L2_BASE <= addr /\ addr + DATA_SIZE <= TOP[rom] /\ addr % BLOCK = 0
  BY <1>1 DEF LoadInv, FitInv, Fits
<1>3. /\ TOP[rom] \in Nat /\ L2_BASE .. TOP[rom] - 1 \subseteq RAM
      /\ \A a \in L2_BASE .. TOP[rom] - DATA_SIZE :
            a % BLOCK = 0 => Fields(a) \cap Stack[rom] = {}
      /\ rom = "a2" => Driver \cap (L2_BASE .. TOP[rom] - 1) = {}
  BY MemoryMap DEF Good, EntriesOK, ROMs
<1>4. Fields(addr) \subseteq L2_BASE .. TOP[rom] - 1
  BY <1>2, <1>3, FlashSizes DEF Fields
<1>5. Fields(addr) \cap Stack[rom] = {}
  BY <1>2, <1>3, FlashSizes
<1>6. Fields(addr) \subseteq RAM /\ Fields(addr) \cap (Live \ Fields(data)) = {}
  BY <1>3, <1>4, <1>5 DEF Live
<1>7. pc' = "getMemAreas"
  BY <1>6 DEF newStack
<1>8. FitInv'
  BY <1>1, SameTable DEF LoadInv, FitInv, Fits
<1>9. AreasDone'
  BY <1>1, SameTable DEF AreasDone, Listed, Good, TableOK
<1>10. SectionInv' /\ ChannelInv'
  BY <1>7 DEF SectionInv, ChannelInv, Reading, Waiting
<1>11. QED
  BY <1>7, <1>8, <1>9, <1>10 DEF LoadInv

\* The start of a section: all of its bytes and blocks are left, or there are none.
LEMMA SectionStart ==
    ASSUME Good, load_section, UNCHANGED <<rom, table>>
    PROVE  LoadInv'
<1> DEFINE a == memArea(i)
<1>1. LoadInv /\ moved /\ i \in Nat
  BY DEF Good, PlaceInv, Phase, Loading, load_section, LoadInv, AreasDone
<1>2. i \in Listed
  BY <1>1 DEF load_section, Listed, Good, TableOK
<1>3. /\ a.ptr \in Nat /\ a.size \in Nat /\ a.start \in Nat /\ a.blocks \in Nat
      /\ End(i) = a.ptr + a.size /\ a.blocks = CeilDiv(a.size)
  BY <1>2, EntryFacts DEF Good
<1>4. /\ UNCHANGED <<i, data, moved, addr, mem, ret, dma>>
      /\ pc' = "block" /\ flash_addr' = a.start /\ area_addr' = a.ptr /\ size' = a.size /\ blk' = 0
  BY DEF load_section, LoadSectionStart
<1>5. /\ memArea(i)' = a /\ Area(i)' = Area(i) /\ End(i)' = End(i) /\ Listed' = Listed
      /\ \A k, e : LoadedTo(k, e)' = LoadedTo(k, e)
  BY <1>4, SameTable DEF LoadedTo
<1>6. FitInv' /\ AreasDone'
  <2>1. FitInv'
    BY <1>1, <1>4, SameTable DEF LoadInv, FitInv, Fits
  <2>2. \A k : End(k)' = End(k)
    BY SameTable
  <2>3. AreasDone'
    BY <1>1, <1>4, <1>5, <2>2 DEF LoadInv, AreasDone
  <2>4. QED
    BY <2>1, <2>3
<1>7. CASE a.size = 0
  <2>1. a.blocks = 0
    BY <1>3, <1>7, CeilDivZero
  <2>2. \A x \in Area(i) : FALSE
    BY <1>3, <1>7 DEF Area
  <2>3. AllBlocks'
    BY <1>4, <1>5, <2>1, <2>2 DEF AllBlocks, LoadedTo
  <2>4. SectionInv' /\ ChannelInv'
    BY <1>1, <1>2, <1>4, <1>5, <2>3 DEF SectionInv, ChannelInv, Reading, Waiting
  <2>5. QED
    BY <1>4, <1>6, <2>4 DEF LoadInv
<1>8. CASE a.size # 0
  <2>1. \A x \in Area(i) : ~(x < a.ptr)
    BY <1>3 DEF Area
  <2>2. LoadedTo(i, area_addr)'
    BY <1>4, <1>5, <2>1 DEF LoadedTo
  <2>3. Running'
    <3>1. /\ size' \in Nat \ {0} /\ size' <= a.size
          /\ (a.size - size') % 4 = 0 
          /\ area_addr' = End(i) - size' /\ flash_addr' = a.start + a.size - size'
      BY <1>3, <1>4, <1>8
    <3>2. a.blocks = blk' + CeilDiv(size')
      BY <1>3, <1>4
    <3>3. QED
      BY <1>4, <1>5, <2>2, <3>1, <3>2 DEF Running, CeilDiv
  <2>4. SectionInv' /\ ChannelInv'
    BY <1>1, <1>2, <1>4, <1>5, <2>3 DEF SectionInv, ChannelInv, Reading, Waiting
  <2>5. QED
    BY <1>4, <1>6, <2>4 DEF LoadInv
<1>9. QED
  BY <1>7, <1>8

\* A section whose blocks have all been read is complete.
LEMMA SectionEnd ==
    ASSUME Good, sectionDone, UNCHANGED <<rom, table>>
    PROVE  LoadInv'
<1>1. LoadInv /\ moved /\ i \in Listed /\ blk \in Nat /\ (Running \/ AllBlocks)
  BY DEF Good, sectionDone, LoadInv, SectionInv
<1>2. i \in Nat /\ memArea(i).blocks \in Nat
  BY <1>1, EntryFacts DEF Good
<1>3. AllBlocks
  <2>1. Running => CeilDiv(size) \in Nat \ {0} /\ memArea(i).blocks = blk + CeilDiv(size)
    BY CeilDivPositive DEF Running
  <2>2. ~Running
    BY <1>1, <1>2, <2>1 DEF sectionDone
  <2>3. QED
    BY <1>1, <2>2
<1>4. UNCHANGED <<data, moved, addr, mem>> /\ i' = i + 1 /\ pc' = "load"
  BY DEF sectionDone
<1>5. Listed' = Listed /\ \A k : End(k)' = End(k) /\ \A e : LoadedTo(k, e)' = LoadedTo(k, e)
  BY <1>4, SameTable DEF LoadedTo
<1>6. FitInv'
  BY <1>1, <1>4, SameTable DEF LoadInv, FitInv, Fits
<1>7. AreasDone'
  <2>1. \A k \in Listed : k < i + 1 => LoadedTo(k, End(k))
    <3> SUFFICES ASSUME NEW k \in Listed, k < i + 1 PROVE LoadedTo(k, End(k))
      OBVIOUS
    <3>1. k = i \/ k < i
      BY <1>2 DEF Listed, Good, TableOK
    <3>2. QED
      BY <1>1, <1>3, <3>1 DEF AllBlocks, LoadInv, AreasDone
  <2>2. QED
    BY <1>2, <1>4, <1>5, <2>1 DEF AreasDone
<1>8. SectionInv' /\ ChannelInv'
  BY <1>4 DEF SectionInv, ChannelInv, Reading, Waiting
<1>9. QED
  BY <1>4, <1>6, <1>7, <1>8 DEF LoadInv

\* Before the jump all sections have been loaded.
LEMMA JumpStep ==
    ASSUME Good, jump_to_entry, UNCHANGED <<rom, table>>
    PROVE  LoadInv'
<1>1. LoadInv /\ moved
  BY DEF Good, PlaceInv, Phase, Loading, jump_to_entry
<1>2. FitInv' /\ AreasDone'
  BY <1>1, SameLoader DEF LoadInv, jump_to_entry
<1>3. pc' = "jumped" /\ UNCHANGED <<moved, i>> /\ i >= nbAreas
  BY DEF jump_to_entry, loaderVars
<1>4. SectionInv' /\ ChannelInv'
  BY <1>3 DEF SectionInv, ChannelInv, Reading, Waiting
<1>5. QED
  BY <1>1, <1>2, <1>3, <1>4, SameTable DEF LoadInv

\* The start of a block's read: a positive length, an address the command can carry.
LEMMA BlockRead ==
    ASSUME Good, readBlock, UNCHANGED <<rom, table>>
    PROVE  LoadInv'
<1>1. LoadInv /\ moved /\ i \in Listed /\ blk \in Nat /\ (Running \/ AllBlocks)
  BY DEF Good, readBlock, LoadInv, SectionInv
<1>2. memArea(i).blocks \in Nat /\ memArea(i).start \in Nat /\ memArea(i).size \in Nat
      /\ memArea(i).start + memArea(i).size <= FLASH_SPAN
  BY <1>1, EntryFacts DEF Good
<1>3. Running
  BY <1>1, <1>2 DEF readBlock, AllBlocks
<1>4. iterSize \in Nat /\ iterSize >= 4 /\ iterSize % 4 = 0
  BY <1>1, <1>3, BlockSize DEF Good
<1>5. flash_addr \in Nat /\ flash_addr < FLASH_SPAN
  BY <1>2, <1>3, FlashSizes DEF Running
<1>6. flash_addr % FLASH_SPAN = flash_addr
  BY <1>5, FlashSizes
<1>7. /\ UNCHANGED loaderVars /\ pc' = "wait" /\ ret' = "advance"
      /\ dma' = [flash |-> flash_addr, to |-> Target, len |-> iterSize, own |-> FALSE]
  <2>1. iterSize # 0
    BY <1>4
  <2>2. QED
    BY <1>6, <2>1 DEF readBlock, FlashRead, Target
<1>8. /\ FitInv' /\ AreasDone' /\ Running'
      /\ iterSize' = iterSize /\ Target' = Target /\ Listed' = Listed
      /\ UNCHANGED <<i, blk, moved, flash_addr, size, mem>>
  <2>1. FitInv' = FitInv /\ AreasDone' = AreasDone /\ Running' = Running
        /\ iterSize' = iterSize /\ Target' = Target
    BY <1>7, SameLoader
  <2>2. Listed' = Listed
    BY SameTable
  <2>3. QED
    BY <1>1, <1>3, <1>7, <2>1, <2>2 DEF LoadInv, loaderVars
<1>9. SectionInv'
  BY <1>1, <1>7, <1>8 DEF SectionInv, Reading, Waiting
<1>10. Target \in Nat
  <2>1. area_addr \in Nat
    BY <1>1, <1>3, EntryFacts DEF Good, Running
  <2>2. data \in Nat
    BY <1>1 DEF LoadInv, FitInv, Fits
  <2>3. QED
    BY <2>1, <2>2 DEF Target
<1>11. ChannelInv'
  <2>1. Fetched' = 0
    BY <1>4, <1>7, <1>8 DEF Fetched
  <2>2. QED
    BY <1>4, <1>5, <1>7, <1>8, <1>10, <2>1 DEF ChannelInv, Reading, Waiting
<1>12. QED
  BY <1>7, <1>8, <1>9, <1>11 DEF LoadInv

(***************************************************************************)
(* Where the n bytes at offset f of the block being read go: into memory,  *)
(* on nothing the loader needs and on no byte that is already in place.    *)
(***************************************************************************)
LEMMA TargetWrite ==
    ASSUME Good, i \in Listed, moved, Running,
           NEW f \in Nat, NEW n \in Nat, f + n <= iterSize
    PROVE  /\ Target \in Nat /\ Target + f + n < WORD
           /\ (Target + f) .. (Target + f) + n - 1 \subseteq RAM
           /\ ~Overwritten(Target + f, n)
           /\ \A k \in Listed, x \in (Target + f) .. (Target + f) + n - 1 :
                 k < i \/ (k = i /\ x < area_addr) => x \notin Area(k)
<1> DEFINE a == memArea(i)
<1>1. /\ TableOK /\ EntriesOK /\ WellFormed /\ Placed /\ Fits(data)
  BY DEF Good, PlaceInv, LoadInv, FitInv
<1>2. /\ i \in Nat /\ a.ptr \in Nat /\ a.size \in Nat /\ End(i) = a.ptr + a.size
      /\ End(i) + BLOCK + DATA_SIZE < WORD
  BY <1>1, EntryFacts
<1>3. /\ iterSize \in Nat /\ iterSize <= BLOCK
      /\ a.size - size + iterSize <= Word4(a.size) /\ Word4(a.size) <= a.size + 3
  BY <1>1, BlockSize
<1>4. Word4(a.size) \in Nat
  <2>1. a.size + 3 < WORD
    BY <1>2, FlashSizes
  <2>2. QED
    BY <1>2, <2>1, Word4Bounds
<1>5. size \in Nat /\ size <= a.size /\ area_addr = End(i) - size /\ area_addr \in Nat
  BY <1>2 DEF Running
<1>6. CASE isL2Section(i)
  <2>1. Target = area_addr
    BY <1>6 DEF Target
  <2>2. /\ Target + f \in Nat /\ a.ptr <= Target + f
        /\ (Target + f) + n <= a.ptr + Word4(a.size)
    BY <1>2, <1>3, <1>4, <1>5, <2>1
  <2>3. (Target + f) .. (Target + f) + n - 1 \subseteq RAM /\ ~Overwritten(Target + f, n)
    BY <1>1, <1>3, <1>4, <2>2, AreaWrite
  <2>4. ASSUME NEW k \in Listed, NEW x \in (Target + f) .. (Target + f) + n - 1,
               k < i \/ (k = i /\ x < area_addr)
        PROVE  x \notin Area(k)
    <3>1. CASE k = i
      <4>1. x < area_addr
        BY <1>2, <2>4, <3>1
      <4>2. QED
        BY <1>5, <2>1, <4>1
    <3>2. CASE k < i
      <4>1. memArea(k).ptr + memArea(k).size <= a.ptr
        BY <1>1, <3>2 DEF WellFormed, Sorted
      <4>2. memArea(k).ptr \in Nat /\ memArea(k).size \in Nat
        BY <1>1, EntryFacts
      <4>3. QED
        BY <1>2, <2>2, <4>1, <4>2 DEF Area
    <3>3. QED
      BY <2>4, <3>1, <3>2
  <2>5. Target \in Nat /\ Target + f + n < WORD
    BY <1>2, <1>3, <1>5, <2>1, FlashSizes
  <2>6. QED
    BY <2>3, <2>4, <2>5
<1>7. CASE ~isL2Section(i)
  <2>1. Target = data
    BY <1>7 DEF Target
  <2>2. /\ data \in Nat /\ data + DATA_SIZE <= TOP[rom] /\ TOP[rom] \in Nat /\ TOP[rom] < WORD
    BY <1>1, MemoryMap DEF Fits, EntriesOK, ROMs
  <2>3. Target + f \in Nat /\ data <= Target + f /\ (Target + f) + n <= data + BLOCK
    BY <1>3, <2>1, <2>2, FlashSizes
  <2>4. /\ (Target + f) .. (Target + f) + n - 1 \subseteq RAM /\ ~Overwritten(Target + f, n)
        /\ \A k \in Listed : ((Target + f) .. (Target + f) + n - 1) \cap Area(k) = {}
    BY <1>1, <2>3, BufferWrite
  <2>5. Target \in Nat /\ Target + f + n < WORD
    BY <1>3, <2>1, <2>2, FlashSizes
  <2>6. QED
    BY <2>4, <2>5
<1>8. QED
  BY <1>6, <1>7

\* The areas are in memory.
LEMMA AreaInRam ==
    ASSUME Good, NEW k \in Listed
    PROVE  Area(k) \subseteq RAM
<1>1. /\ memArea(k).ptr \in Nat /\ memArea(k).size \in Nat
      /\ memArea(k).size + 3 < WORD
  BY EntryFacts, FlashSizes DEF Good
<1>2. Word4(memArea(k).size) \in Nat /\ memArea(k).size <= Word4(memArea(k).size)
  BY <1>1, Word4Bounds
<1>3. Area(k) \subseteq Written(k)
  BY <1>1, <1>2 DEF Area, Written
<1>4. Written(k) \subseteq RAM
  BY DEF Good, WellFormed, Room
<1>5. QED
  BY <1>3, <1>4

\* A store that meets no byte already in place keeps all of them.
LEMMA StoreKeeps ==
    ASSUME Good, i \in Listed, LoadedTo(i, area_addr), moved,
           NEW lo, NEW hi,
           \A x \in RAM : x \notin lo .. hi => mem'[x] = mem[x],
           \A k \in Listed, x \in lo .. hi :
                 k < i \/ (k = i /\ x < area_addr) => x \notin Area(k)
    PROVE  /\ \A k \in Listed : k < i => \A x \in Area(k) : x < End(k) =>
                 mem'[x] = memArea(k).start + x - memArea(k).ptr
           /\ \A x \in Area(i) : x < area_addr =>
                 mem'[x] = memArea(i).start + x - memArea(i).ptr
<1>1. ASSUME NEW k \in Listed, k < i, NEW x \in Area(k), x < End(k)
      PROVE  mem'[x] = memArea(k).start + x - memArea(k).ptr
  <2>1. x \in RAM /\ x \notin lo .. hi
    BY <1>1, AreaInRam
  <2>2. mem[x] = memArea(k).start + x - memArea(k).ptr
    BY <1>1 DEF Good, LoadInv, AreasDone, LoadedTo
  <2>3. QED
    BY <2>1, <2>2
<1>2. ASSUME NEW x \in Area(i), x < area_addr
      PROVE  mem'[x] = memArea(i).start + x - memArea(i).ptr
  <2>1. x \in RAM /\ x \notin lo .. hi
    BY <1>2, AreaInRam
  <2>2. QED
    BY <1>2, <2>1 DEF LoadedTo
<1>3. QED
  BY <1>1, <1>2

(***************************************************************************)
(* One word of the channel.  It lies in the block, its bytes are the next  *)
(* ones of the area (past the end of the area anything), and it meets      *)
(* nothing that is already in place.                                       *)
(***************************************************************************)
LEMMA TransferStep ==
    ASSUME Good, Transfer, UNCHANGED <<rom, table>>
    PROVE  LoadInv'
<1>1. /\ LoadInv /\ pc \in Waiting /\ dma.len > 0
      /\ UNCHANGED <<ret, i, blk, data, moved, addr, flash_addr, area_addr, size>>
  BY DEF Good, Transfer, Waiting
<1>2. /\ Listed' = Listed /\ nbAreas' = nbAreas
      /\ \A k : memArea(k)' = memArea(k) /\ Area(k)' = Area(k) /\ End(k)' = End(k)
      /\ isL2Section(i)' = isL2Section(i)
  BY <1>1, SameTable
<1>3. FitInv'
  BY <1>1, SameTable DEF LoadInv, FitInv, Fits
<1>4. iterSize' = iterSize /\ Target' = Target
  BY <1>1, <1>2 DEF iterSize, Word4, Uint, Target
<1>5. CASE dma.own
  <2>1. UNCHANGED <<mem, pc>> /\ dma'.own
    <3>1. dma = [flash |-> dma.flash, to |-> dma.to, len |-> dma.len, own |-> dma.own]
      BY DEF Good, DmaRecord
    <3>2. QED
      BY <1>5, <3>1 DEF Transfer
  <2>2. ~Reading
    BY <1>1, <1>5 DEF LoadInv, ChannelInv
  <2>3. ~Reading' /\ pc' \in Waiting
    BY <1>1, <2>1, <2>2 DEF Reading, Waiting
  <2>4. AreasDone'
    BY <1>1, <1>2, <2>1 DEF LoadInv, AreasDone, LoadedTo
  <2>5. SectionInv' /\ ChannelInv'
    BY <2>1, <2>3 DEF SectionInv, ChannelInv, Waiting
  <2>6. QED
    BY <1>3, <2>3, <2>4, <2>5 DEF LoadInv, Waiting
<1>6. CASE ~dma.own
  <2> DEFINE f == Fetched
             a == memArea(i)
  <2>1. ret = "advance" /\ Reading
    BY <1>1, <1>6 DEF LoadInv, ChannelInv, Reading
  <2>2. moved /\ i \in Listed /\ blk \in Nat /\ Running
    BY <1>1, <2>1 DEF LoadInv, SectionInv
  <2>3. /\ iterSize \in Nat /\ iterSize >= 4 /\ iterSize % 4 = 0 /\ iterSize <= size + 3
    BY <2>2, BlockSize DEF Good
  <2>4. /\ dma.len \in Nat /\ dma.len <= iterSize /\ dma.len % 4 = 0
        /\ dma.to = Target + f /\ dma.flash = flash_addr + f
        /\ \A k \in 0 .. f - 1 : k < size => mem[Target + k] = flash_addr + k
    BY <1>1, <2>1 DEF LoadInv, ChannelInv
  <2>5. /\ dma.len >= 4 /\ f \in Nat /\ f = iterSize - dma.len /\ f % 4 = 0
        /\ f + 4 <= iterSize /\ f < size
    <3>1. dma.len >= 4 /\ f = iterSize - dma.len
      BY <1>1, <2>4 DEF Fetched
    <3>2. size \in Nat
      BY <2>2 DEF Running
    <3>3. QED
      BY <2>3, <2>4, <3>1, <3>2
  <2>6. Min2(4, dma.len) = 4
    BY <2>4, <2>5 DEF Min2
  <2>7. /\ Target \in Nat /\ Target + f + 4 < WORD
        /\ (Target + f) .. (Target + f) + 4 - 1 \subseteq RAM
        /\ ~Overwritten(Target + f, 4)
        /\ \A k \in Listed, x \in (Target + f) .. (Target + f) + 4 - 1 :
              k < i \/ (k = i /\ x < area_addr) => x \notin Area(k)
    BY <2>2, <2>5, TargetWrite
  <2>8. /\ pc' = pc
        /\ dma' = [dma EXCEPT !.flash = (dma.flash + 4) % FLASH_SPAN, !.to = Uint(dma.to + 4),
                              !.len = dma.len - 4]
        /\ mem' = [x \in RAM |-> IF x \in dma.to .. dma.to + 4 - 1
                                 THEN (dma.flash + (x - dma.to)) % FLASH_SPAN ELSE mem[x]]
    BY <1>6, <2>4, <2>6, <2>7 DEF Transfer, Store
  <2>9. /\ dma' = [flash |-> (dma.flash + 4) % FLASH_SPAN, to |-> Uint(dma.to + 4),
                    len |-> dma.len - 4, own |-> dma.own]
    <3>1. dma = [flash |-> dma.flash, to |-> dma.to, len |-> dma.len, own |-> dma.own]
      BY DEF Good, DmaRecord
    <3>2. QED
      BY <2>8, <3>1
  <2>10. /\ \A x \in RAM : x \notin (Target + f) .. (Target + f) + 3 => mem'[x] = mem[x]
         /\ \A x \in (Target + f) .. (Target + f) + 3 :
               mem'[x] = (flash_addr + f + (x - (Target + f))) % FLASH_SPAN
    BY <2>4, <2>7, <2>8
  <2>11. /\ \A k \in Listed : k < i => \A x \in Area(k) : x < End(k) =>
               mem'[x] = memArea(k).start + x - memArea(k).ptr
         /\ \A x \in Area(i) : x < area_addr =>
               mem'[x] = memArea(i).start + x - memArea(i).ptr
    BY <2>2, <2>7, <2>10, StoreKeeps DEF Running
  <2>12. AreasDone'
    BY <1>1, <1>2, <2>11 DEF LoadInv, AreasDone, LoadedTo
  <2>13. SectionInv'
    <3>1. LoadedTo(i, area_addr)'
      BY <1>1, <1>2, <2>11 DEF LoadedTo
    <3>2. Running'
      BY <1>1, <1>2, <2>2, <3>1 DEF Running, CeilDiv
    <3>3. QED
      BY <1>1, <1>2, <2>2, <2>8, <3>2 DEF SectionInv, Reading, Waiting
  <2>14. /\ flash_addr \in Nat /\ flash_addr + size <= FLASH_SPAN /\ size \in Nat
    <3>1. a.start \in Nat /\ a.size \in Nat /\ a.start + a.size <= FLASH_SPAN
      BY <2>2, EntryFacts DEF Good
    <3>2. QED
      BY <2>2, <3>1, FlashSizes DEF Running
  <2>15. Fetched' = f + 4
    <3>1. dma'.len = dma.len - 4 /\ Fetched' = iterSize' - dma'.len
      BY <2>9 DEF Fetched
    <3>2. QED
      BY <1>4, <2>3, <2>4, <2>5, <3>1
  <2>16. \A k \in 0 .. f + 4 - 1 : k < size => mem'[Target + k] = flash_addr + k
    <3> SUFFICES ASSUME NEW k \in 0 .. f + 4 - 1, k < size
                 PROVE  mem'[Target + k] = flash_addr + k
      OBVIOUS
    <3> HIDE DEF f
    <3>1. CASE k < f
      <4>1. k \in 0 .. f - 1 /\ Target + k \notin (Target + f) .. (Target + f) + 3
        BY <2>5, <2>7, <3>1
      <4>2. Target + k \in RAM
        <5>1. (Target + 0) .. (Target + 0) + iterSize - 1 \subseteq RAM
          BY <2>2, <2>3, TargetWrite
        <5>2. Target + k \in (Target + 0) .. (Target + 0) + iterSize - 1
          BY <2>3, <2>5, <2>7, <3>1
        <5>3. QED
          BY <5>1, <5>2
      <4>3. QED
        BY <2>4, <2>10, <4>1, <4>2
    <3>2. CASE ~(k < f)
      <4>1. Target + k \in (Target + f) .. (Target + f) + 3
        BY <2>5, <2>7, <3>2
      <4>2. flash_addr + f + ((Target + k) - (Target + f)) = flash_addr + k
        BY <2>5, <2>7, <2>14, <3>2
      <4>3. (flash_addr + k) % FLASH_SPAN = flash_addr + k
        BY <2>14, FlashSizes
      <4>4. QED
        BY <2>10, <4>1, <4>2, <4>3
    <3>3. QED
      BY <3>1, <3>2
  <2>17. dma'.to = Target + (f + 4)
    <3>1. Target + f + 4 \in Nat
      BY <2>5, <2>7
    <3>2. Uint(Target + f + 4) = Target + f + 4
      BY <2>7, <3>1, UintIsIdentity
    <3>3. QED
      BY <2>4, <2>5, <2>7, <2>9, <3>2
  <2>18. dma'.len > 0 => dma'.flash = flash_addr + (f + 4)
    <3>1. SUFFICES ASSUME dma.len - 4 > 0 PROVE (flash_addr + f + 4) % FLASH_SPAN = flash_addr + (f + 4)
      BY <2>4, <2>9
    <3>2. dma.len >= 8
      BY <2>4, <3>1
    <3> HIDE DEF f
    <3>3. f + 4 < size
      BY <2>3, <2>4, <2>5, <2>14, <3>2
    <3>4. flash_addr + f + 4 \in Nat /\ flash_addr + f + 4 < FLASH_SPAN
      BY <2>5, <2>14, <3>3, FlashSizes
    <3>5. QED
      BY <2>5, <2>14, <3>4, FlashSizes
  <2>19. dma'.len \in Nat /\ dma'.len <= iterSize /\ dma'.len % 4 = 0 /\ ~dma'.own
    BY <1>6, <2>3, <2>4, <2>5, <2>9
  <2>20. ChannelInv'
    <3> HIDE DEF f
    <3>1. size' = size /\ flash_addr' = flash_addr /\ Target' = Target
      BY <1>1, <1>4
    <3>2. \A k \in 0 .. Fetched' - 1 : k < size' => mem'[Target' + k] = flash_addr' + k
      BY <2>5, <2>7, <2>14, <2>15, <2>16, <3>1
    <3>3. pc' \in Waiting /\ ret' = "advance"
      BY <1>1, <2>1, <2>8
    <3>4. QED
      BY <1>1, <1>4, <2>15, <2>17, <2>18, <2>19, <3>2, <3>3 DEF ChannelInv, Reading, Waiting
  <2>21. QED
    BY <1>1, <1>3, <2>8, <2>12, <2>13, <2>20 DEF LoadInv, Waiting
<1>7. QED
  BY <1>5, <1>6

\* After a block's read its bytes are, or are copied, where they belong.
LEMMA BlockInPlace ==
    ASSUME Good, advance
    PROVE  /\ pc' = "block"
           /\ \A k \in Listed : k < i => \A x \in Area(k) : x < End(k) =>
                 mem'[x] = memArea(k).start + x - memArea(k).ptr
           /\ \A x \in Area(i) : x < area_addr + iterSize =>
                 mem'[x] = memArea(i).start + x - memArea(i).ptr
<1> DEFINE a == memArea(i)
<1>1. LoadInv /\ pc = "advance" /\ Reading
  BY DEF Good, advance, Reading
<1>2. moved /\ i \in Listed /\ blk \in Nat /\ Running /\ dma.len = 0
  BY <1>1 DEF LoadInv, SectionInv, ChannelInv
<1>3. /\ iterSize \in Nat
      /\ a.size - size + iterSize <= Word4(a.size) /\ Word4(a.size) <= a.size + 3
  BY <1>2, BlockSize DEF Good
<1>4. /\ a.ptr \in Nat /\ a.size \in Nat /\ a.start \in Nat
      /\ End(i) = a.ptr + a.size /\ a.size + 3 < WORD
  BY <1>2, EntryFacts, FlashSizes DEF Good
<1>5. /\ size \in Nat /\ size <= a.size
      /\ area_addr = a.ptr + a.size - size /\ area_addr \in Nat
      /\ flash_addr = a.start + a.size - size /\ flash_addr \in Nat
      /\ LoadedTo(i, area_addr)
  BY <1>2, <1>4 DEF Running
<1>6. \A k \in 0 .. iterSize - 1 : k < size => mem[Target + k] = flash_addr + k
  <2>1. Fetched = iterSize
    BY <1>2, <1>3 DEF Fetched
  <2>2. \A k \in 0 .. Fetched - 1 : k < size => mem[Target + k] = flash_addr + k
    BY <1>1 DEF LoadInv, ChannelInv
  <2>3. QED
    BY <2>1, <2>2
<1>7. CASE isL2Section(i)
  <2>1. mem' = mem /\ pc' = "block" /\ Target = area_addr
    BY <1>7 DEF advance, Target
  <2>2. ASSUME NEW x \in Area(i), x < area_addr + iterSize
        PROVE  mem[x] = a.start + x - a.ptr
    <3>1. x \in Int /\ a.ptr <= x /\ x < a.ptr + a.size
      BY <1>4 DEF Area
    <3>2. CASE x < area_addr
      BY <1>5, <3>2 DEF LoadedTo
    <3>3. CASE ~(x < area_addr)
      <4> DEFINE k == x - area_addr
      <4>1. k \in 0 .. iterSize - 1 /\ k < size /\ Target + k = x
        BY <1>3, <1>4, <1>5, <2>1, <2>2, <3>1, <3>3
      <4>2. mem[x] = flash_addr + k
        BY <1>6, <4>1
      <4>3. QED
        BY <1>4, <1>5, <3>1, <4>2
    <3>4. QED
      BY <3>2, <3>3
  <2>3. \A k \in Listed : k < i => LoadedTo(k, End(k))
    BY <1>1, <1>2 DEF LoadInv, AreasDone
  <2>4. QED
    BY <2>1, <2>2, <2>3 DEF LoadedTo
<1>8. CASE ~isL2Section(i)
  <2>1. Target = data /\ data \in Nat
    BY <1>1, <1>2, <1>8 DEF Target, LoadInv, FitInv, Fits
  <2>2. Word4(a.size) \in Nat
    BY <1>4, Word4Bounds
  <2>3. a.ptr <= area_addr /\ area_addr + iterSize <= a.ptr + Word4(a.size)
    BY <1>3, <1>4, <1>5, <2>2
  <2>4. /\ area_addr .. area_addr + iterSize - 1 \subseteq RAM
        /\ ~Overwritten(area_addr, iterSize)
    BY <1>1, <1>2, <1>3, <1>5, <2>2, <2>3, AreaWrite DEF Good, PlaceInv, LoadInv, FitInv
  <2>5. /\ pc' = "block"
        /\ mem' = [x \in RAM |-> IF x \in area_addr .. area_addr + iterSize - 1
                                 THEN mem[data + (x - area_addr)] ELSE mem[x]]
    BY <1>8, <2>4 DEF advance, Store
  <2>6. /\ \A x \in RAM : x \notin area_addr .. area_addr + iterSize - 1 => mem'[x] = mem[x]
        /\ \A x \in area_addr .. area_addr + iterSize - 1 : mem'[x] = mem[data + (x - area_addr)]
    BY <2>4, <2>5
  <2>7. \A k \in Listed, x \in area_addr .. area_addr + iterSize - 1 :
          k < i \/ (k = i /\ x < area_addr) => x \notin Area(k)
    <3> SUFFICES ASSUME NEW k \in Listed, NEW x \in area_addr .. area_addr + iterSize - 1, k < i
                 PROVE  x \notin Area(k)
      BY <1>3, <1>5
    <3>1. memArea(k).ptr + memArea(k).size <= a.ptr
      BY <1>2 DEF Good, WellFormed, Sorted
    <3>2. memArea(k).ptr \in Nat /\ memArea(k).size \in Nat
      BY EntryFacts DEF Good
    <3>3. QED
      BY <1>3, <1>4, <1>5, <2>3, <3>1, <3>2 DEF Area
  <2>8. /\ \A k \in Listed : k < i => \A x \in Area(k) : x < End(k) =>
              mem'[x] = memArea(k).start + x - memArea(k).ptr
        /\ \A x \in Area(i) : x < area_addr => mem'[x] = a.start + x - a.ptr
    BY <1>2, <1>5, <2>6, <2>7, StoreKeeps
  <2>9. ASSUME NEW x \in Area(i), x < area_addr + iterSize
        PROVE  mem'[x] = a.start + x - a.ptr
    <3>1. x \in Int /\ a.ptr <= x /\ x < a.ptr + a.size
      BY <1>4 DEF Area
    <3>2. CASE x < area_addr
      BY <2>8, <3>2
    <3>3. CASE ~(x < area_addr)
      <4> DEFINE k == x - area_addr
      <4>1. k \in 0 .. iterSize - 1 /\ k < size /\ x \in area_addr .. area_addr + iterSize - 1
        BY <1>3, <1>4, <1>5, <2>9, <3>1, <3>3
      <4>2. mem'[x] = mem[data + k]
        BY <2>6, <4>1
      <4>3. mem[data + k] = flash_addr + k
        BY <1>6, <2>1, <4>1
      <4>4. QED
        BY <1>4, <1>5, <3>1, <4>2, <4>3
    <3>4. QED
      BY <3>2, <3>3
  <2>10. QED
    BY <2>5, <2>8, <2>9
<1>9. QED
  BY <1>7, <1>8

(***************************************************************************)
(* The end of a block: the running addresses move on, or it was the last   *)
(* one and the whole area is in its place.                                 *)
(***************************************************************************)
LEMMA AdvanceStep ==
    ASSUME Good, advance, UNCHANGED <<rom, table>>
    PROVE  LoadInv'
<1> DEFINE a == memArea(i)
<1>1. LoadInv /\ Reading
  BY DEF Good, advance, Reading
<1>2. moved /\ i \in Listed /\ blk \in Nat /\ Running
  BY <1>1 DEF LoadInv, SectionInv
<1>3. /\ UNCHANGED <<ret, i, data, moved, addr, dma>> /\ pc' = "block"
      /\ area_addr' = Uint(area_addr + iterSize) /\ flash_addr' = Uint(flash_addr + iterSize)
      /\ size' = Uint(size - iterSize) /\ blk' = blk + 1
  BY BlockInPlace DEF advance
<1>4. /\ Listed' = Listed
      /\ \A k : memArea(k)' = memArea(k) /\ Area(k)' = Area(k) /\ End(k)' = End(k)
  BY SameTable
<1>5. FitInv'
  BY <1>1, <1>3, SameTable DEF LoadInv, FitInv, Fits
<1>6. AreasDone'
  BY <1>1, <1>3, <1>4, BlockInPlace DEF LoadInv, AreasDone, LoadedTo
<1>7. /\ a.ptr \in Nat /\ a.size \in Nat /\ a.start \in Nat /\ a.blocks \in Nat
      /\ End(i) = a.ptr + a.size /\ End(i) + BLOCK + DATA_SIZE < WORD
      /\ a.start + a.size <= FLASH_SPAN
  BY <1>2, EntryFacts DEF Good
<1>8. /\ size \in Nat \ {0} /\ size <= a.size /\ (a.size - size) % 4 = 0
      /\ a.blocks = blk + CeilDiv(size)
      /\ area_addr = End(i) - size /\ flash_addr = a.start + a.size - size
  BY <1>2 DEF Running
<1>9. iterSize \in Nat /\ (IF size > BLOCK THEN iterSize = BLOCK ELSE iterSize >= size)
  BY <1>2, BlockSize DEF Good
<1>10. Running' \/ AllBlocks'
  <2>1. CASE size > BLOCK
    <3>1. iterSize = BLOCK
      BY <1>9, <2>1
    <3>2. /\ area_addr + BLOCK \in Nat /\ area_addr + BLOCK < WORD
          /\ flash_addr + BLOCK \in Nat /\ flash_addr + BLOCK < WORD
          /\ size - BLOCK \in Nat /\ size - BLOCK < WORD
      BY <1>7, <1>8, <2>1, FlashSizes
    <3>3. /\ area_addr' = area_addr + BLOCK /\ flash_addr' = flash_addr + BLOCK
          /\ size' = size - BLOCK
      BY <1>3, <3>1, <3>2, UintIsIdentity
    <3>4. a.blocks = blk' + CeilDiv(size')
      <4>1. CeilDiv(size) = CeilDiv(size') + 1
        BY <1>8, <2>1, <3>3, CeilDivStep
      <4>2. CeilDiv(size') \in Nat
        BY <1>8, <2>1, <3>2, <3>3, CeilDivPositive, FlashSizes
      <4>3. QED
        BY <1>2, <1>3, <1>8, <4>1, <4>2
    <3>5. /\ size' \in Nat \ {0} /\ size' <= a.size /\ (a.size - size') % 4 = 0
          /\ area_addr' = End(i) - size' /\ flash_addr' = a.start + a.size - size'
      <4>1. BLOCK \in Nat \ {0} /\ BLOCK % 4 = 0
        BY FlashSizes
      <4>2. a.size - size' = (a.size - size) + BLOCK /\ a.size - size \in Nat
        BY <1>7, <1>8, <3>3, <4>1
      <4>3. (a.size - size') % 4 = 0
        BY <1>8, <4>1, <4>2
      <4>4. size' \in Nat \ {0} /\ size' <= a.size
        BY <1>7, <1>8, <2>1, <3>3, <4>1
      <4>5. area_addr' = End(i) - size'
        BY <1>7, <1>8, <3>3, <4>1
      <4>6. flash_addr' = a.start + a.size - size'
        BY <1>7, <1>8, <3>3, <4>1
      <4>7. QED
        BY <4>3, <4>4, <4>5, <4>6
    <3>6. LoadedTo(i, area_addr)'
      <4>1. \A x \in Area(i) : x < area_addr' => mem'[x] = a.start + x - a.ptr
        BY <3>1, <3>3, BlockInPlace
      <4>2. QED
        BY <1>3, <1>4, <4>1 DEF LoadedTo
    <3>7. QED
      BY <1>3, <1>4, <3>4, <3>5, <3>6 DEF Running, CeilDiv
  <2>2. CASE ~(size > BLOCK)
    <3>1. iterSize >= size
      BY <1>9, <2>2
    <3>2. CeilDiv(size) = 1
      BY <1>8, <2>2, CeilDivLast, FlashSizes
    <3>3. \A x \in Area(i) : x < area_addr + iterSize
      BY <1>7, <1>8, <1>9, <3>1 DEF Area
    <3>4. LoadedTo(i, End(i))'
      <4>1. \A x \in Area(i) : mem'[x] = a.start + x - a.ptr
        BY <3>3, BlockInPlace
      <4>2. QED
        BY <1>3, <1>4, <4>1 DEF LoadedTo
    <3>5. blk' >= a.blocks
      BY <1>2, <1>3, <1>8, <3>2
    <3>6. QED
      BY <1>3, <1>4, <3>4, <3>5 DEF AllBlocks
  <2>3. QED
    BY <2>1, <2>2
<1>11. SectionInv' /\ ChannelInv'
  BY <1>2, <1>3, <1>4, <1>10 DEF SectionInv, ChannelInv, Reading, Waiting
<1>12. QED
  BY <1>3, <1>5, <1>6, <1>11 DEF LoadInv

-----------------------------------------------------------------------------
(* The theorems *)

\* Initially the candidate is the start of L2 and nothing is loaded.
LEMMA ImageInit == Init => ImageInv
<1> SUFFICES ASSUME Init PROVE ImageInv
  OBVIOUS
<1>1. PlaceInv
  BY PlaceInit
<1>2. ReadInv
  BY DEF Init, LoaderInit, ReadInv, ReadsComplete, Waiting
<1>3. JtagInv
  BY BootsAssumption DEF Init, LoaderInit, JtagInv, InJtag
<1>4. EntriesOK /\ DmaRecord
  BY BootsAssumption DEF Init, LoaderInit, EntriesOK, ROMs, memArea, DmaRecord
<1>5. pc \in {"getMemAreas", "bootFromOther"} /\ moved = FALSE /\ addr = L2_BASE
  BY DEF Init, LoaderInit
<1>6. FitInv
  BY <1>4, <1>5, MemoryMap, FlashSizes DEF FitInv, Fits, EntriesOK, ROMs
<1>7. AreasDone /\ SectionInv /\ ChannelInv
  BY <1>5 DEF AreasDone, SectionInv, ChannelInv, Reading, Waiting
<1>8. LoadInv
  BY <1>5, <1>6, <1>7 DEF LoadInv
<1>9. QED
  BY <1>1, <1>2, <1>3, <1>4, <1>8 DEF ImageInv

\* A transfer keeps its fields.
LEMMA DmaNext ==
    ASSUME DmaRecord, [Next]_vars
    PROVE  DmaRecord'
<1>1. CASE UNCHANGED dma
  BY <1>1 DEF DmaRecord
<1>2. CASE getHeader \/ getAreas \/ readBlock
  BY <1>1, <1>2 DEF getHeader, getAreas, readBlock, FlashRead, DmaRecord
<1>3. CASE Channel
  BY <1>3 DEF Channel, Transfer, DmaRecord
<1>4. QED
  BY <1>1, <1>2, <1>3
     DEF Next, Rom, Loader, vars, findDataFit, PastTable, newStack, load_section, advance,
         sectionDone, jump_to_entry, WaitRx, EnableWait, wait_soc_event, wfi, wait_clock_ref,
         bootFromOther, boot_abort, init, bootFromJtag, pollJtag, ClockRef, DebuggerLoads,
         DebuggerNotifies

\* Every step of a boot with a well-formed image.
LEMMA LoadNext ==
    ASSUME Good, [Next]_vars
    PROVE  LoadInv'
<1>0. UNCHANGED <<rom, table>>
  BY DEF Next, vars, bootVars
<1>1. CASE UNCHANGED vars
  BY <1>1, QuietStep DEF vars, bootVars
<1>2. CASE Next
  <2>1. CASE Loader
    BY <1>0, <2>1, TableReads, NotPastTable, FitStep, NewStackStep, SectionStart, BlockRead,
       AdvanceStep, SectionEnd, JumpStep DEF Loader
  <2>2. CASE WaitRx
    BY <1>0, <2>2, ReturnStep DEF WaitRx, Waiting
  <2>3. CASE EnableWait \/ wfi
    BY <1>0, <2>3, QuietStep DEF EnableWait, wfi, Waiting
  <2>4. CASE wait_soc_event
    <3>1. UNCHANGED <<loaderVars, dma, ret>> /\ pc \in Waiting
      BY <2>4 DEF wait_soc_event, Waiting
    <3>2. CASE "SOC_EVT" \in status
      <4>1. pc' = ret /\ dma.len = 0
        BY <2>4, <3>2 DEF wait_soc_event, Good, ReadInv
      <4>2. QED
        BY <1>0, <3>1, <4>1, ReturnStep
    <3>3. CASE "SOC_EVT" \notin status
      <4>1. pc' = "wfi"
        BY <2>4, <3>3 DEF wait_soc_event
      <4>2. QED
        BY <1>0, <3>1, <4>1, QuietStep
    <3>4. QED
      BY <3>2, <3>3
  <2>5. CASE wait_clock_ref
    <3>1. UNCHANGED <<loaderVars, dma, ret>>
      BY <2>5 DEF wait_clock_ref
    <3>2. pc' \in {"tick", "none", "getMemAreas", "pollJtag"}
      BY <2>5 DEF wait_clock_ref, Good, JtagInv
    <3>3. QED
      BY <1>0, <3>1, <3>2, QuietStep DEF Waiting
  <2>6. CASE bootFromOther \/ boot_abort \/ init \/ bootFromJtag \/ pollJtag
    <3>1. UNCHANGED <<loaderVars, dma, ret>>
      BY <2>6 DEF bootFromOther, boot_abort, init, bootFromJtag, pollJtag
    <3>2. pc' \in {"init", "bootFromJtag", "bootFromOther", "hang", "abort", "stopped",
                   "tick", "pollJtag", "jumpedJtag"}
      BY <2>6 DEF bootFromOther, Chosen, boot_abort, init, bootFromJtag, pollJtag, StartTicks
    <3>3. QED
      BY <1>0, <3>1, <3>2, QuietStep DEF Waiting
  <2>7. CASE Channel
    BY <1>0, <2>7, TransferStep DEF Channel
  <2>8. CASE ClockRef \/ DebuggerLoads \/ DebuggerNotifies
    BY <1>0, <2>8, QuietStep DEF ClockRef, DebuggerLoads, DebuggerNotifies
  <2>9. QED
    BY <1>2, <2>1, <2>2, <2>3, <2>4, <2>5, <2>6, <2>7, <2>8 DEF Next, Rom
<1>3. QED
  BY <1>1, <1>2

\* Every step keeps the invariant.
LEMMA ImageNext == ImageInv /\ [Next]_vars => ImageInv'
<1> SUFFICES ASSUME ImageInv, [Next]_vars PROVE ImageInv'
  OBVIOUS
<1>1. PlaceInv' /\ ReadInv' /\ JtagInv'
  BY PlaceNext, ReadNext, JtagNext DEF ImageInv
<1>2. DmaRecord'
  BY DmaNext DEF ImageInv
<1>3. UNCHANGED <<rom, table>>
  BY DEF Next, vars, bootVars
<1>4. EntriesOK'
  BY <1>3 DEF ImageInv, EntriesOK, memArea
<1>5. WellFormed' => LoadInv'
  <2>1. SUFFICES ASSUME WellFormed PROVE LoadInv'
    BY <1>3, SameTable
  <2>2. Good
    BY <2>1 DEF ImageInv, Good, PlaceInv
  <2>3. QED
    BY <2>2, LoadNext
<1>6. QED
  BY <1>1, <1>2, <1>4, <1>5 DEF ImageInv

(***************************************************************************)
(* Loading a well-formed image never overwrites what the loader runs on,   *)
(* never reads past its table and never asks the flash for nothing, for    *)
(* every table, block size and memory map (main.c:67-97, 124-193).         *)
(***************************************************************************)
THEOREM LoaderAlwaysSurvives == Spec => []LoaderSurvives
<1>1. ImageInv => LoaderSurvives
  BY DEF ImageInv, LoadInv, LoaderSurvives
<1>2. QED
  BY ImageInit, ImageNext, <1>1, PTL DEF Spec

(***************************************************************************)
(* At the jump every byte of every area of a well-formed image is in its   *)
(* place, in L2 and outside, whatever the rounded-up last block of an area *)
(* writes past its end (main.c:67-97).                                     *)
(***************************************************************************)
THEOREM ImageIsComplete == Spec => []ImageLoaded
<1>1. ImageInv => ImageLoaded
  <2> SUFFICES ASSUME ImageInv, WellFormed, pc = "jumped", NEW k \in Listed, NEW x \in Area(k)
               PROVE  mem[x] = memArea(k).start + x - memArea(k).ptr
    BY DEF ImageLoaded
  <2>1. LoadInv /\ TableOK /\ EntriesOK
    BY DEF ImageInv, PlaceInv
  <2>2. moved /\ i >= nbAreas /\ i \in Nat
    BY <2>1 DEF LoadInv, AreasDone
  <2>3. /\ k \in Nat /\ k < nbAreas /\ nbAreas \in Nat
        /\ memArea(k).ptr \in Nat /\ memArea(k).size \in Nat
    BY <2>1, EntryFacts DEF TableOK
  <2>4. LoadedTo(k, End(k))
    BY <2>1, <2>2, <2>3 DEF LoadInv, AreasDone
  <2>5. x < End(k)
    BY <2>3 DEF Area, End
  <2>6. QED
    BY <2>4, <2>5 DEF LoadedTo
<1>2. QED
  BY ImageInit, ImageNext, <1>1, PTL DEF Spec
=============================================================================

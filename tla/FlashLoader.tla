----------------------------- MODULE FlashLoader -----------------------------
(***************************************************************************)
(* The flash loader that both boot ROMs share line by line (main.c of      *)
(* a2_boot, boot_code.c of boot_code): read the area table, find a place   *)
(* in L2 that no area covers, move the loader's data and stack there, read *)
(* the table again, load every area block by block, jump.                  *)
(*                                                                         *)
(* Memory is modelled byte by byte: mem[x] is the flash address of the     *)
(* byte loaded to x, or NONE.  The loader's own fields are not kept in     *)
(* mem: Live is the set of addresses the running loader depends on, and a  *)
(* store into Live makes everything after it undefined (pc = "lost").      *)
(***************************************************************************)
EXTENDS Integers, Sequences

CONSTANTS BLOCK,        \* FLASH_BLOCK_SIZE (4096)
          DATA_SIZE,    \* sizeof(boot_code_t) (6440)
          LIVE_OFFSET,  \* offset of header, memArea, stack, blockSize in it
          MAX_NB_AREA,  \* 16
          WORD,         \* 2^32, the range of unsigned int
          FLASH_SPAN,   \* 2^24, the address range of the read command
          L2_BASE, L2_SIZE,
          STATIC,       \* address of bootCode, for each ROM
          Stack,        \* addresses of the stack in use until the move, likewise
          TOP,          \* end of the memory the data may move to, likewise
          Driver,       \* addresses of aucclkdiv and auccmd (a2_boot only)
          RAM           \* all addresses that hold memory

\* flashBuffer, one block, is the first field of boot_code_t.
ASSUME FlashSizes == /\ BLOCK \in Nat \ {0} /\ BLOCK % 4 = 0
                     /\ DATA_SIZE \in Nat /\ LIVE_OFFSET \in Nat
                     /\ BLOCK <= LIVE_OFFSET /\ LIVE_OFFSET < DATA_SIZE
                     /\ MAX_NB_AREA \in Nat
                     /\ WORD \in Nat \ {0}
                     /\ FLASH_SPAN \in Nat \ {0} /\ FLASH_SPAN <= WORD
                     /\ L2_BASE \in Nat /\ L2_BASE % BLOCK = 0
                     /\ L2_BASE + DATA_SIZE < WORD

NONE == -1

VARIABLES rom,          \* "a2" or "pulp"
          table,        \* what the flash holds: nbAreas and the areas
          pc, ret,      \* where the ROM is, and where a flash read returns to
          i, blk,       \* the loop counters
          data,         \* the boot_code_t in use
          moved,        \* the loader runs on the data it placed
          addr,         \* findDataFit's candidate
          flash_addr, area_addr, size,
          dma,          \* the transfer the QSPI channel works on
          mem

loaderVars == <<i, blk, data, moved, addr, flash_addr, area_addr, size, mem>>

LoaderInit == /\ ret = "none"
              /\ i = 0 /\ blk = 0
              /\ data = STATIC[rom] /\ moved = FALSE
              /\ addr = L2_BASE
              /\ flash_addr = 0 /\ area_addr = 0 /\ size = 0
              /\ dma = [flash |-> 0, to |-> 0, len |-> 0, own |-> TRUE]
              /\ mem = [x \in RAM |-> NONE]

nbAreas == table.nbAreas
memArea(k) == table.memArea[k + 1]
Listed == 0 .. nbAreas - 1
Area(k) == memArea(k).ptr .. memArea(k).ptr + memArea(k).size - 1

Min2(a, b) == IF a < b THEN a ELSE b
Uint(n) == n % WORD
\* (n + 3) & 0xfffffffc and (n + BLOCK - 1) & ~(BLOCK - 1)
Word4(n) == LET u == Uint(n + 3) IN u - (u % 4)
RoundUp(n) == LET u == Uint(n + BLOCK - 1) IN u - (u % BLOCK)
isL2Section(k) == memArea(k).ptr \in L2_BASE .. L2_BASE + L2_SIZE - 1

\* What the running loader cannot do without: its fields and stack; the SPI
\* driver of a2_boot keeps its clock divider and commands in static memory.
Fields(d) == d + LIVE_OFFSET .. d + DATA_SIZE - 1
Live == Fields(data) \cup (IF rom = "a2" THEN Driver ELSE {})
                     \cup (IF moved THEN {} ELSE Stack[rom])

\* The linker scripts: a2_boot's static memory, with the driver's state and the
\* stack behind bootCode, is the end of L2; boot_code has bootCode at the start
\* of L2 and the stack behind it, where at most a flashBuffer can come to lie.
ASSUME MemoryMap ==
    /\ Driver \cap (L2_BASE .. TOP["a2"] - 1) = {}
    /\ \A r \in {"a2", "pulp"} :
        /\ TOP[r] \in Nat /\ TOP[r] < WORD
        /\ L2_BASE + DATA_SIZE <= TOP[r]
        /\ L2_BASE .. TOP[r] - 1 \subseteq RAM
        /\ \A a \in L2_BASE .. TOP[r] - DATA_SIZE :
              a % BLOCK = 0 => Fields(a) \cap Stack[r] = {}

-----------------------------------------------------------------------------
(* Mutated forms, for the mutation runs only. *)
MutConflict(a) == addr >= a.ptr /\ addr < Uint(a.ptr + a.size)
MutLoadSectionStart(k) == /\ flash_addr' = memArea(k).start
                          /\ area_addr' = memArea(k).ptr
                          /\ size' = memArea(k).size
                          /\ UNCHANGED blk
MutMoved == moved' = TRUE /\ UNCHANGED data

-----------------------------------------------------------------------------
(***************************************************************************)
(* udma_flash_read and flash_read: command words and channel registers are *)
(* set up, then the ROM waits for the channel.  A length of 0 gives the    *)
(* SPI master a receive command of length -1: what follows is undefined.   *)
(***************************************************************************)
FlashRead(from, to, len, own, next) ==
    /\ dma' = [flash |-> from % FLASH_SPAN, to |-> to, len |-> len, own |-> own]
    /\ ret' = next
    /\ pc' = IF len = 0 THEN "lost" ELSE "wait"

\* n bytes stored at to: bytes of the flash, or copied from elsewhere.
Store(to, n, Byte(_)) ==
    mem' = [x \in RAM |-> IF x \in to .. to + n - 1 THEN Byte(x - to) ELSE mem[x]]
Overwritten(to, n) == (to .. to + n - 1) \cap Live # {}

\* The channel moves one word of an area.  Reads into the loader's own
\* header and memArea fields leave mem alone.
Transfer ==
    /\ pc \in {"wait", "wfi"} /\ dma.len > 0
    /\ LET n == Min2(4, dma.len) IN
       /\ dma' = [dma EXCEPT !.flash = (@ + n) % FLASH_SPAN, !.to = Uint(@ + n),
                             !.len = @ - n]
       /\ IF dma.own THEN UNCHANGED <<mem, pc>>
          ELSE /\ Store(dma.to, n, LAMBDA k : (dma.flash + k) % FLASH_SPAN)
               /\ pc' = IF Overwritten(dma.to, n) THEN "lost" ELSE pc
    /\ UNCHANGED <<ret, i, blk, data, moved, addr, flash_addr, area_addr, size>>

\* while (pqspim_regs->rx_size != 0) {}
WaitRx ==
    /\ rom = "a2" /\ pc = "wait" /\ dma.len = 0
    /\ pc' = ret
    /\ UNCHANGED <<ret, dma, loaderVars>>

-----------------------------------------------------------------------------
\* getMemAreas: the header, then at most MAX_NB_AREA areas.
Header == 1
getHeader ==
    /\ pc = "getMemAreas"
    /\ FlashRead(0, data + LIVE_OFFSET, Header, TRUE, "getAreas")
    /\ UNCHANGED loaderVars

AfterAreas == IF moved THEN "load" ELSE "fit"
getAreas ==
    /\ pc = "getAreas"
    /\ IF nbAreas = 0
         THEN pc' = AfterAreas /\ UNCHANGED <<ret, dma>>
         ELSE FlashRead(Header, data + LIVE_OFFSET, Min2(nbAreas, MAX_NB_AREA),
                        TRUE, AfterAreas)
    /\ UNCHANGED loaderVars

(***************************************************************************)
(* findDataFit: one pass over the table.  The loops run up to nbAreas, not *)
(* up to the number of areas that were read: behind memArea lie other      *)
(* fields of boot_code_t.                                                  *)
(***************************************************************************)
Conflict(a) ==
    \/ addr >= a.ptr /\ addr < Uint(a.ptr + a.size)
    \/ addr < a.ptr /\ Uint(addr + DATA_SIZE) > a.ptr

findDataFit ==
    /\ pc = "fit" /\ i < nbAreas /\ i < MAX_NB_AREA
    /\ addr' = IF Conflict(memArea(i)) THEN RoundUp(memArea(i).ptr + memArea(i).size)
                                       ELSE addr
    /\ i' = i + 1
    /\ UNCHANGED <<pc, ret, blk, data, moved, flash_addr, area_addr, size, dma, mem>>

PastTable ==
    /\ pc \in {"fit", "load"} /\ i < nbAreas /\ i >= MAX_NB_AREA
    /\ pc' = "lost"
    /\ UNCHANGED <<ret, dma, loaderVars>>

\* The rest of bootFromRom: newData's fields are set and the stack is changed.
Moved == moved' = TRUE /\ data' = addr
newStack ==
    /\ pc = "fit" /\ i >= nbAreas
    /\ Moved
    /\ i' = 0
    /\ pc' = IF Fields(addr) \subseteq RAM /\ Fields(addr) \cap (Live \ Fields(data)) = {}
               THEN "getMemAreas" ELSE "lost"
    /\ UNCHANGED <<ret, blk, addr, flash_addr, area_addr, size, dma, mem>>

-----------------------------------------------------------------------------
\* loadBinaryAndStart calls load_section for area i.
LoadSectionStart(k) == /\ flash_addr' = memArea(k).start
                       /\ area_addr' = memArea(k).ptr
                       /\ size' = memArea(k).size
                       /\ blk' = 0
load_section ==
    /\ pc = "load" /\ i < nbAreas /\ i < MAX_NB_AREA
    /\ LoadSectionStart(i)
    /\ pc' = "block"
    /\ UNCHANGED <<ret, i, data, moved, addr, dma, mem>>

\* The last block is rounded up to a word, past the end of the area.
iterSize == IF BLOCK > size THEN Word4(size) ELSE BLOCK

readBlock ==
    /\ pc = "block" /\ blk < memArea(i).blocks
    /\ FlashRead(flash_addr, IF isL2Section(i) THEN area_addr ELSE data, iterSize,
                 FALSE, "advance")
    /\ UNCHANGED loaderVars

\* memcpy from flashBuffer for areas outside L2, then the running addresses.
advance ==
    /\ pc = "advance"
    /\ IF isL2Section(i) THEN UNCHANGED mem
       ELSE Store(area_addr, iterSize, LAMBDA k : mem[data + k])
    /\ pc' = IF ~isL2Section(i) /\ Overwritten(area_addr, iterSize) THEN "lost"
                                                                   ELSE "block"
    /\ area_addr' = Uint(area_addr + iterSize)
    /\ flash_addr' = Uint(flash_addr + iterSize)
    /\ size' = Uint(size - iterSize)
    /\ blk' = blk + 1
    /\ UNCHANGED <<ret, i, data, moved, addr, dma>>

sectionDone ==
    /\ pc = "block" /\ blk >= memArea(i).blocks
    /\ i' = i + 1
    /\ pc' = "load"
    /\ UNCHANGED <<ret, blk, data, moved, addr, flash_addr, area_addr, size, dma, mem>>

\* jump_to_entry, in boot_code.c after deinit.
jump_to_entry ==
    /\ pc = "load" /\ i >= nbAreas
    /\ pc' = "jumped"
    /\ UNCHANGED <<ret, dma, loaderVars>>

Loader == \/ getHeader \/ getAreas \/ findDataFit \/ PastTable \/ newStack
          \/ load_section \/ readBlock \/ advance \/ sectionDone \/ jump_to_entry

-----------------------------------------------------------------------------
(***************************************************************************)
(* The contract the loader has with whoever wrote the flash.  Nothing of   *)
(* it is checked by the code.                                              *)
(***************************************************************************)
Sorted ==
    /\ nbAreas <= MAX_NB_AREA
    /\ \A k \in Listed : memArea(k).ptr + memArea(k).size + BLOCK + DATA_SIZE < WORD
    /\ \A j, k \in Listed : j < k => memArea(j).ptr + memArea(j).size <= memArea(k).ptr

\* A block count that matches the size, and a flash range the read command
\* can address.
Consistent(a) == /\ a.blocks = (a.size + BLOCK - 1) \div BLOCK
                 /\ a.start + a.size <= FLASH_SPAN

\* The areas, with the last word rounded up, lie in memory and for a2_boot
\* outside the driver's state; the data fits between every area and TOP, or
\* before the first one.
Written(k) == memArea(k).ptr .. memArea(k).ptr + Word4(memArea(k).size) - 1
Room ==
    /\ \A k \in Listed : /\ Written(k) \subseteq RAM
                         /\ rom = "a2" => Written(k) \cap Driver = {}
    /\ \/ \A k \in Listed : RoundUp(memArea(k).ptr + memArea(k).size) + DATA_SIZE <= TOP[rom]
       \/ \A k \in Listed : memArea(k).ptr >= L2_BASE + DATA_SIZE

WellFormed == Sorted /\ Room /\ \A k \in Listed : Consistent(memArea(k))
=============================================================================

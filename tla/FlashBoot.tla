------------------------------ MODULE FlashBoot ------------------------------
(***************************************************************************)
(* Booting from flash with either ROM.  a2_boot enters the flash loader    *)
(* from main and polls the channel.  boot_code.c first decides from the    *)
(* JTAG register and the bootsel pad what to do, and waits for events with *)
(* the interrupt controller: status collects the events, mask enables      *)
(* them, wfi returns as soon as an enabled event is in status.             *)
(***************************************************************************)
EXTENDS FlashLoader

CONSTANTS Boots,        \* the initial choices: rom, table, ext and bootsel
          NB_TICKS      \* 20, the reference clock ticks init waits for

ASSUME BootsAssumption ==
    \A b \in Boots :
        /\ b.rom \in {"a2", "pulp"}
        /\ b.ext \in 0 .. 15 \ {3}
        /\ b.table.nbAreas \in Nat
        /\ \A k \in 0 .. MAX_NB_AREA - 1 :
              LET a == b.table.memArea[k + 1]
              IN  a.start \in Nat /\ a.ptr \in Nat /\ a.size \in Nat /\ a.blocks \in Nat

VARIABLES ext, loc,     \* the two fields of the JTAG register
          bootsel,
          status, mask, \* of the interrupt controller
          ticks,        \* ticks left in wait_clock_ref
          after,        \* where wait_clock_ref returns to
          loaded        \* the debugger has put its program into memory

frontVars == <<ext, loc, ticks, after, loaded>>
itcVars   == <<status, mask>>
bootVars  == <<rom, table, bootsel>>
vars == <<bootVars, pc, ret, dma, loaderVars, frontVars, itcVars>>

Init == /\ \E b \in Boots : /\ rom = b.rom /\ table = b.table
                            /\ ext = b.ext /\ bootsel = b.bootsel
        /\ pc = IF rom = "a2" THEN "getMemAreas" ELSE "bootFromOther"
        /\ LoaderInit
        /\ loc = 0
        /\ status = {} /\ mask = {}
        /\ ticks = 0 /\ after = "none"
        /\ loaded = FALSE

\* Mutated forms, for the mutation runs only.
MutFinishWait == UNCHANGED status /\ mask' = mask \ {"SOC_EVT"}
MutReady(value) == value # 0
MutClearTick == mask' = mask \ {"SOC_EVT", "CLK_REF"} /\ UNCHANGED status

-----------------------------------------------------------------------------
(* The interrupt controller *)

\* wait_soc_event: enable; while the event is not there: wfi; pop and clear.
EnableWait ==
    /\ rom = "pulp" /\ pc = "wait" /\ "SOC_EVT" \notin mask
    /\ mask' = mask \cup {"SOC_EVT"}
    /\ UNCHANGED <<status, pc, ret, dma, loaderVars, frontVars>>

FinishWait == status' = status \ {"SOC_EVT"} /\ mask' = mask \ {"SOC_EVT"}
wait_soc_event ==
    /\ rom = "pulp" /\ pc = "wait" /\ "SOC_EVT" \in mask
    /\ IF "SOC_EVT" \in status
         THEN FinishWait /\ pc' = ret
         ELSE pc' = "wfi" /\ UNCHANGED itcVars
    /\ UNCHANGED <<ret, dma, loaderVars, frontVars>>

wfi ==
    /\ pc = "wfi" /\ status \cap mask # {}
    /\ pc' = "wait"
    /\ UNCHANGED <<itcVars, ret, dma, loaderVars, frontVars>>

\* wait_clock_ref(n): wfi and clear the bit, n times.
StartTicks(n, next) == /\ mask' = mask \cup {"CLK_REF"}
                       /\ ticks' = n /\ after' = next
                       /\ pc' = "tick"
ClearTick == /\ status' = status \ {"CLK_REF"}
             /\ mask' = IF ticks = 1 THEN mask \ {"CLK_REF"} ELSE mask
wait_clock_ref ==
    /\ pc = "tick" /\ status \cap mask # {}
    /\ ClearTick
    /\ ticks' = ticks - 1
    /\ pc' = IF ticks = 1 THEN after ELSE "tick"
    /\ UNCHANGED <<ret, dma, loaderVars, ext, loc, after, loaded>>

-----------------------------------------------------------------------------
(* The front end of boot_code.c *)

BOOT_OTHER == 0
BOOT_JTAG  == 1
BOOT_SPIM  == 6

\* bootFromOther and choose_boot_mode: bits 3:1 of the external field name a
\* mode.  A mode choose_boot_mode does not know ends in while(1).
Chosen(mode) == CASE mode = BOOT_SPIM  -> "init"
                  [] mode = BOOT_JTAG  -> "bootFromJtag"
                  [] mode = BOOT_OTHER -> "bootFromOther"
                  [] OTHER             -> "hang"
bootFromOther ==
    /\ pc = "bootFromOther"
    /\ pc' = IF ext # 0 THEN Chosen(ext \div 2)
             ELSE IF bootsel = 1 THEN "abort" ELSE "init"
    /\ UNCHANGED <<itcVars, ret, dma, loaderVars, frontVars>>

\* boot_abort: no event is enabled any more, so wfi never returns.
boot_abort ==
    /\ pc = "abort"
    /\ mask' = {}
    /\ pc' = "stopped"
    /\ UNCHANGED <<status, ret, dma, loaderVars, frontVars>>

\* bootFromRom calls init: only the SPI and UART events are let through, and
\* the flash gets time to power up.
init ==
    /\ pc = "init"
    /\ StartTicks(NB_TICKS, "getMemAreas")
    /\ UNCHANGED <<status, ret, dma, loaderVars, ext, loc, loaded>>

bootFromJtag ==
    /\ pc = "bootFromJtag"
    /\ loc' = 1
    /\ pc' = "pollJtag"
    /\ UNCHANGED <<itcVars, ret, dma, loaderVars, ext, ticks, after, loaded>>

Ready(value) == value % 2 = 1
pollJtag ==
    /\ pc = "pollJtag"
    /\ IF Ready(ext)
         THEN pc' = "jumpedJtag" /\ UNCHANGED <<mask, ticks, after>>
         ELSE StartTicks(1, "pollJtag")
    /\ UNCHANGED <<status, ret, dma, loaderVars, ext, loc, loaded>>

-----------------------------------------------------------------------------
(* The environment *)

ClockRef ==
    /\ rom = "pulp" /\ "CLK_REF" \notin status
    /\ status' = status \cup {"CLK_REF"}
    /\ UNCHANGED <<mask, pc, ret, dma, loaderVars, frontVars>>

\* A debugger that asked for a JTAG boot waits for the ROM's notification,
\* loads its program, then sets the first bit.
DebuggerLoads ==
    /\ loc = 1 /\ ~loaded
    /\ loaded' = TRUE
    /\ UNCHANGED <<itcVars, pc, ret, dma, loaderVars, ext, loc, ticks, after>>

DebuggerNotifies ==
    /\ loaded /\ ext % 2 = 0
    /\ ext' = ext + 1
    /\ UNCHANGED <<itcVars, pc, ret, dma, loaderVars, loc, ticks, after, loaded>>

\* The channel works while the ROM waits; the SPI master's end-of-transfer
\* event comes after the last word: on its way over the event generator to
\* the core it is taken to be slower than the word on its way to L2.
Channel ==
    /\ Transfer
    /\ status' = IF rom = "pulp" /\ dma'.len = 0 THEN status \cup {"SOC_EVT"} ELSE status
    /\ UNCHANGED <<mask, frontVars>>

Rom == \/ (Loader \/ WaitRx) /\ UNCHANGED <<frontVars, itcVars>>
       \/ EnableWait \/ wait_soc_event \/ wfi \/ wait_clock_ref
       \/ bootFromOther \/ boot_abort \/ init \/ bootFromJtag \/ pollJtag

Next == /\ Rom \/ Channel \/ ClockRef \/ DebuggerLoads \/ DebuggerNotifies
        /\ UNCHANGED bootVars

Spec == Init /\ [][Next]_vars

(***************************************************************************)
(* The core and the channel keep running and the reference clock ticks.    *)
(* Nothing is assumed of a debugger.                                       *)
(***************************************************************************)
Fairness == WF_vars(Rom /\ UNCHANGED bootVars) /\ WF_vars(Channel /\ UNCHANGED bootVars)
            /\ WF_vars(ClockRef /\ UNCHANGED bootVars)

FairSpec == Spec /\ Fairness

-----------------------------------------------------------------------------
(* Properties *)

(***************************************************************************)
(* findDataFit's single pass finds a place that no area of a sorted table  *)
(* covers, whatever gaps the table leaves (main.c:150-165,                 *)
(* boot_code.c:301-314).                                                   *)
(***************************************************************************)
PlaceIsFree ==
    moved /\ Sorted =>
        \A k \in Listed : (data .. data + DATA_SIZE - 1) \cap Area(k) = {}

(***************************************************************************)
(* Loading a well-formed image never overwrites what the loader runs on    *)
(* nor reads past its table (main.c:67-97, 124-143, 167-193).              *)
(***************************************************************************)
LoaderSurvives == WellFormed => pc # "lost"

(***************************************************************************)
(* At the jump every byte of every area of a well-formed image is in its   *)
(* place, although the rounded-up last block of an area writes past its    *)
(* end, possibly into an area that is already loaded (main.c:81-95).       *)
(***************************************************************************)
ImageLoaded ==
    WellFormed /\ pc = "jumped" =>
        \A k \in Listed : \A x \in Area(k) :
            mem[x] = memArea(k).start + x - memArea(k).ptr

(***************************************************************************)
(* The ROM goes on after a flash read only when the channel has moved the  *)
(* last word: no event of an earlier read or of the clock is taken for it  *)
(* (boot_code.c:97-106, spi.c:164).                                        *)
(***************************************************************************)
ReadsComplete == pc \notin {"wait", "wfi", "lost"} => dma.len = 0

\* A JTAG boot that did not start with the first bit set runs the debugger's
\* program, not what was in memory (boot_code.c:341-356, 377-387).
JtagJumpMeansLoaded == pc = "jumpedJtag" => loaded

\* Every boot from flash reaches a jump, unless the loader is lost
\* (boot_code.c:175-182, 316-339).
FlashBootEnds == pc \in {"init", "getMemAreas"} ~> pc \in {"jumped", "lost"}
=============================================================================

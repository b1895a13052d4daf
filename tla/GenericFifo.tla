---------------------------- MODULE GenericFifo ----------------------------
(***************************************************************************)
(* generic_fifo.sv: the FIFO that holds the event IDs between the SoC      *)
(* event generator and the core.  A ring of DATA_DEPTH registers, a        *)
(* push and a pop pointer, and a three-valued state CS that tells the two  *)
(* cases of equal pointers apart.                                          *)
(*                                                                         *)
(* The pointers are ADDR_DEPTH = $clog2(DATA_DEPTH) bits wide, so they     *)
(* wrap at PTR_SPAN = 2^ADDR_DEPTH.  The comparisons "pointer - 1" are     *)
(* 32-bit expressions: for a pointer of 0 they match no pointer.           *)
(***************************************************************************)
EXTENDS Integers, Sequences

CONSTANTS Data,         \* the words (event IDs)
          ZERO,         \* the word all registers hold after reset
          DATA_DEPTH,   \* number of registers
          PTR_SPAN      \* 2^ADDR_DEPTH, the number of pointer values

(***************************************************************************)
(* The only instance in the SoC has DATA_DEPTH = 4.  A depth that is no    *)
(* power of two would make PTR_SPAN larger, and the EMPTY state advance    *)
(* the push pointer past the last register.                                *)
(***************************************************************************)
ASSUME DepthAssumption ==
    /\ DATA_DEPTH \in Nat /\ DATA_DEPTH >= 2
    /\ PTR_SPAN = DATA_DEPTH

ASSUME ZeroAssumption == ZERO \in Data

VARIABLES CS,               \* "EMPTY", "MIDDLE" or "FULL"
          Pop_Pointer_CS,
          Push_Pointer_CS,
          FIFO_REGISTERS

vars == <<CS, Pop_Pointer_CS, Push_Pointer_CS, FIFO_REGISTERS>>

Pointers == 0 .. PTR_SPAN - 1
Slots    == 0 .. DATA_DEPTH - 1

Init == /\ CS = "EMPTY"
        /\ Pop_Pointer_CS = 0
        /\ Push_Pointer_CS = 0
        /\ FIFO_REGISTERS = [s \in Slots |-> ZERO]

grant_o == CS \in {"EMPTY", "MIDDLE"}
valid_o == CS \in {"MIDDLE", "FULL"}
data_o  == FIFO_REGISTERS[Pop_Pointer_CS]

\* Mutated forms, for the mutation runs only.
MutWrap(ptr) == ptr + 1
MutLastWord == Pop_Pointer_CS = Push_Pointer_CS - 1
MutWriteRegister(valid_i, d) ==
    FIFO_REGISTERS' = IF valid_i
                        THEN [FIFO_REGISTERS EXCEPT ![Push_Pointer_CS] = d]
                        ELSE FIFO_REGISTERS

\* The increment with the explicit wrap that every state but EMPTY uses.
Wrap(ptr) == IF ptr = DATA_DEPTH - 1 THEN 0 ELSE ptr + 1

\* The bare increment: only the width of the pointer makes it wrap.
Bump(ptr) == IF ptr = PTR_SPAN - 1 THEN 0 ELSE ptr + 1

\* A pop now leaves nothing behind / a push now fills the last register.
LastWord == \/ Pop_Pointer_CS = Push_Pointer_CS - 1
            \/ Pop_Pointer_CS = DATA_DEPTH - 1 /\ Push_Pointer_CS = 0
LastSlot == \/ Push_Pointer_CS = Pop_Pointer_CS - 1
            \/ Push_Pointer_CS = DATA_DEPTH - 1 /\ Pop_Pointer_CS = 0

\* The data registers are clocked whenever a push is accepted.
WriteRegister(valid_i, d) ==
    FIFO_REGISTERS' = IF grant_o /\ valid_i
                        THEN [FIFO_REGISTERS EXCEPT ![Push_Pointer_CS] = d]
                        ELSE FIFO_REGISTERS

InEmpty(valid_i) ==
    /\ CS = "EMPTY"
    /\ CS' = IF valid_i THEN "MIDDLE" ELSE "EMPTY"
    /\ Push_Pointer_CS' = IF valid_i THEN Bump(Push_Pointer_CS)
                                     ELSE Push_Pointer_CS
    /\ UNCHANGED Pop_Pointer_CS

InMiddle(valid_i, grant_i) ==
    /\ CS = "MIDDLE"
    /\ CS' = CASE grant_i /\ ~valid_i /\ LastWord -> "EMPTY"
               [] valid_i /\ ~grant_i /\ LastSlot -> "FULL"
               [] OTHER -> "MIDDLE"
    /\ Push_Pointer_CS' = IF valid_i THEN Wrap(Push_Pointer_CS)
                                     ELSE Push_Pointer_CS
    /\ Pop_Pointer_CS'  = IF grant_i THEN Wrap(Pop_Pointer_CS)
                                     ELSE Pop_Pointer_CS

InFull(grant_i) ==
    /\ CS = "FULL"
    /\ CS' = IF grant_i THEN "MIDDLE" ELSE "FULL"
    /\ Pop_Pointer_CS' = IF grant_i THEN Wrap(Pop_Pointer_CS)
                                    ELSE Pop_Pointer_CS
    /\ UNCHANGED Push_Pointer_CS

(***************************************************************************)
(* One clock edge with push request valid_i, pop request grant_i and the   *)
(* word d at the input.                                                    *)
(***************************************************************************)
Clock(valid_i, grant_i, d) ==
    /\ \/ InEmpty(valid_i)
       \/ InMiddle(valid_i, grant_i)
       \/ InFull(grant_i)
    /\ WriteRegister(valid_i, d)

Next == \E valid_i, grant_i \in BOOLEAN, d \in Data : Clock(valid_i, grant_i, d)

Spec == Init /\ [][Next]_vars

-----------------------------------------------------------------------------
(* Properties *)

\* Pointers stay inside the ring, registers hold words (generic_fifo.sv:59-70).
TypeOK == /\ CS \in {"EMPTY", "MIDDLE", "FULL"}
          /\ Pop_Pointer_CS \in Slots
          /\ Push_Pointer_CS \in Slots
          /\ FIFO_REGISTERS \in [Slots -> Data]

\* How many words the pointers and the state say are inside.
Occupancy ==
    IF CS = "EMPTY" THEN 0
    ELSE IF Push_Pointer_CS <= Pop_Pointer_CS
      THEN Push_Pointer_CS - Pop_Pointer_CS + DATA_DEPTH
      ELSE Push_Pointer_CS - Pop_Pointer_CS

(***************************************************************************)
(* The state and the pointers agree: EMPTY and FULL only with equal        *)
(* pointers, MIDDLE only with different ones.  The next-state logic of     *)
(* generic_fifo.sv:121-256 computes the state and the pointers separately. *)
(***************************************************************************)
StateMatchesPointers ==
    (CS = "MIDDLE") <=> (Push_Pointer_CS # Pop_Pointer_CS)

\* Ring position of the i-th oldest word.
SlotOf(i) == LET s == Pop_Pointer_CS + i - 1
             IN  IF s >= DATA_DEPTH THEN s - DATA_DEPTH ELSE s

Contents == [i \in 1 .. Occupancy |-> FIFO_REGISTERS[SlotOf(i)]]

Abstract == INSTANCE BoundedFifo WITH Depth <- DATA_DEPTH, q <- Contents

(***************************************************************************)
(* generic_fifo implements the bounded queue: no word is lost, duplicated  *)
(* or reordered for any pattern of requests, including a push and a pop in *)
(* the same cycle at any fill level.                                       *)
(***************************************************************************)
ImplementsQueue == Abstract!Spec

=============================================================================

---------------------------- MODULE MC_FlashBoot ----------------------------
(***************************************************************************)
(* A small memory map with the proportions of the real one: the loader's   *)
(* data is one and a half blocks long; L2 is 16..79, below it lies other   *)
(* memory.  The static data, driver state and stack of a2_boot are at the  *)
(* end of L2, the static data and stack of boot_code at its start.         *)
(***************************************************************************)
EXTENDS FlashBoot

Driver4 == 68 .. 71
Statics == [a2 |-> 56, pulp |-> 16]
Stacks  == [a2 |-> 72 .. 79, pulp |-> 28 .. 31]
Tops    == [a2 |-> 56, pulp |-> 80]
Bytes80 == 0 .. 79

Blocks(n) == (n + BLOCK - 1) \div BLOCK

\* Areas at the start of memory and of L2, unaligned, after a gap the data
\* does or does not fit into, over the static data; the block count may be
\* one too large.
Areas(start, ptrs, sizes, more) ==
    { [start |-> start, ptr |-> p, size |-> n, blocks |-> Blocks(n) + m] :
        p \in ptrs, n \in sizes, m \in more }

Tables ==
    { [nbAreas |-> 2, memArea |-> <<a, b, a>>] :
        a \in Areas(8, {0, 16, 22, 32, 60}, {0, 3, 8, 13}, {0}),
        b \in Areas(40, {16, 19, 24, 36, 55, 64}, {3, 8, 13}, {0}) }
    \cup
    { [nbAreas |-> 3, memArea |-> <<a, b, c>>] :
        a \in Areas(8, {16, 20}, {3, 8}, {0}),
        b \in Areas(24, {23, 28, 36}, {1, 8}, {0}),
        c \in Areas(40, {13, 31, 44}, {5, 12}, {0}) }
    \cup
    { [nbAreas |-> 1, memArea |-> <<a, a, a>>] :
        a \in Areas(8, {3, 16, 30}, {3, 12, 16}, {0, 1}) }
    \cup
    { [nbAreas |-> n, memArea |-> <<a, a, a>>] : n \in {0, 4}, a \in Areas(8, {16}, {8}, {0}) }

OneArea == [nbAreas |-> 1, memArea |-> [k \in 1 .. 3 |->
              [start |-> 8, ptr |-> 16, size |-> 5, blocks |-> 1]]]

\* Every table with both ROMs, and every decision of boot_code.c.  The
\* debugger sets the first bit only after its request, so 3 is no request.
SmallBoots ==
    [rom : {"a2", "pulp"}, table : Tables, ext : {0}, bootsel : {0}]
    \cup
    [rom : {"pulp"}, table : {OneArea}, ext : 0 .. 15 \ {3}, bootsel : {0, 1}]
=============================================================================

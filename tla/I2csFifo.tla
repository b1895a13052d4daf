------------------------------ MODULE I2csFifo ------------------------------
(***************************************************************************)
(* FIFO_sync_256x8.v with its RAM: the two byte FIFOs between the I2C      *)
(* slave and the APB bus.  The count, the two addresses, the full and      *)
(* empty bits and the two 3-bit level flags are separate registers, each   *)
(* with an incremental update of its own; none is derived from another.    *)
(***************************************************************************)
EXTENDS Integers, Sequences

CONSTANT Bytes      \* the bytes

VARIABLES ram,              \* RAM_256x8_behavioral, read combinationally
          ram_wr_addr, ram_rd_addr,
          fifo_cnt,
          full_reg, empty_reg,
          wr_flags_reg,     \* how many spaces are left, 0 = many .. 7 = none
          rd_flags_reg      \* how many bytes are inside, 0 = none .. 7 = many

bytesVars == <<ram, ram_wr_addr, ram_rd_addr, fifo_cnt, full_reg, empty_reg,
               wr_flags_reg, rd_flags_reg>>

FIFO_DEPTH == 256
Addr       == 0 .. FIFO_DEPTH - 1       \* 8-bit addresses

BytesInit == /\ ram \in [Addr -> Bytes]       \* the RAM has no reset
             /\ ram_wr_addr = 0 /\ ram_rd_addr = 0
             /\ fifo_cnt = 0
             /\ full_reg = FALSE /\ empty_reg = TRUE
             /\ wr_flags_reg = 0 /\ rd_flags_reg = 0

rd_data_o == ram[ram_rd_addr]

(***************************************************************************)
(* The thresholds of the flag state machines.  Level l of wr_flags is      *)
(* left upwards when SpacesLow(l) spaces are left, downwards when          *)
(* SpacesHigh(l) are; level l of rd_flags upwards at ItemsHigh(l) bytes,   *)
(* downwards at ItemsLow(l).                                               *)
(***************************************************************************)
SpacesLow(l)  == CASE l = 0 -> 128 [] l = 1 -> 64 [] l = 2 -> 32
                   [] l = 3 -> 8 [] l = 4 -> 4 [] l = 5 -> 2
SpacesHigh(l) == CASE l = 1 -> 127 [] l = 2 -> 63 [] l = 3 -> 31
                   [] l = 4 -> 7 [] l = 5 -> 3
ItemsHigh(l)  == CASE l = 2 -> 3 [] l = 3 -> 7 [] l = 4 -> 31
                   [] l = 5 -> 63 [] l = 6 -> 127
\* Mutated forms, for the mutation runs only.
MutNextWrAddr(push) == (ram_wr_addr + (IF push THEN 1 ELSE 0)) % FIFO_DEPTH
MutItemsLow(l) == CASE l = 2 -> 2 [] l = 3 -> 3 [] l = 4 -> 8
                    [] l = 5 -> 32 [] l = 6 -> 64 [] l = 7 -> 128

ItemsLow(l)   == CASE l = 2 -> 2 [] l = 3 -> 4 [] l = 4 -> 8
                   [] l = 5 -> 32 [] l = 6 -> 64 [] l = 7 -> 128

NextWrFlags(push, pop) ==
    LET l == wr_flags_reg
    IN  IF l = 7 THEN (IF pop THEN 6 ELSE 7)
        ELSE IF push /\ ~pop
           /\ (l = 6 \/ fifo_cnt = FIFO_DEPTH - SpacesLow(l)) THEN l + 1
        ELSE IF pop /\ ~push /\ l > 0
           /\ (l = 6 \/ fifo_cnt = FIFO_DEPTH - SpacesHigh(l)) THEN l - 1
        ELSE l

NextFull(push, pop) ==
    IF full_reg THEN ~pop ELSE wr_flags_reg = 6 /\ push /\ ~pop

NextRdFlags(push, pop) ==
    LET l == rd_flags_reg
    IN  IF l = 0 THEN (IF push THEN 1 ELSE 0)
        ELSE IF push /\ ~pop /\ l < 7
           /\ (l = 1 \/ fifo_cnt = ItemsHigh(l)) THEN l + 1
        ELSE IF pop /\ ~push
           /\ (l = 1 \/ fifo_cnt = ItemsLow(l)) THEN l - 1
        ELSE l

NextEmpty(push, pop) ==
    IF empty_reg THEN ~push ELSE rd_flags_reg = 1 /\ ~push /\ pop

NextCnt(push, pop) ==
    CASE push /\ pop   -> IF empty_reg THEN fifo_cnt + 1
                          ELSE IF full_reg THEN fifo_cnt - 1
                          ELSE fifo_cnt
      [] push /\ ~pop  -> IF full_reg THEN fifo_cnt ELSE fifo_cnt + 1
      [] ~push /\ pop  -> IF empty_reg THEN fifo_cnt ELSE fifo_cnt - 1
      [] ~push /\ ~pop -> fifo_cnt

Succ(a) == IF a = FIFO_DEPTH - 1 THEN 0 ELSE a + 1

NextWrAddr(push) == IF push /\ ~full_reg THEN Succ(ram_wr_addr) ELSE ram_wr_addr
NextRdAddr(pop)  == IF pop /\ ~empty_reg THEN Succ(ram_rd_addr) ELSE ram_rd_addr

(***************************************************************************)
(* One clock edge: every register is updated from the values before it.    *)
(***************************************************************************)
BytesClock(push, pop, d) ==
    /\ ram_wr_addr' = NextWrAddr(push)
    /\ ram_rd_addr' = NextRdAddr(pop)
    /\ fifo_cnt' = NextCnt(push, pop)
    /\ wr_flags_reg' = NextWrFlags(push, pop)
    /\ full_reg' = NextFull(push, pop)
    /\ rd_flags_reg' = NextRdFlags(push, pop)
    /\ empty_reg' = NextEmpty(push, pop)
    /\ ram' = IF push /\ ~full_reg THEN [ram EXCEPT ![ram_wr_addr] = d] ELSE ram

(***************************************************************************)
(* rst_i is asynchronous and driven by the flush register (0x22, 0x32) of  *)
(* i2c_peripheral_registers.v: software may assert it at any time.         *)
(***************************************************************************)
Reset == /\ ram_wr_addr' = 0 /\ ram_rd_addr' = 0
         /\ fifo_cnt' = 0
         /\ full_reg' = FALSE /\ empty_reg' = TRUE
         /\ wr_flags_reg' = 0 /\ rd_flags_reg' = 0
         /\ UNCHANGED ram

BytesNext == \/ \E push, pop \in BOOLEAN, d \in Bytes : BytesClock(push, pop, d)
             \/ Reset

BytesSpec == BytesInit /\ [][BytesNext]_bytesVars

-----------------------------------------------------------------------------
(* Properties *)

\* The registers keep their width (FIFO_sync_256x8.v:63-72).
BytesTypeOK == /\ ram \in [Addr -> Bytes]
               /\ ram_wr_addr \in Addr /\ ram_rd_addr \in Addr
               /\ fifo_cnt \in 0 .. FIFO_DEPTH
               /\ full_reg \in BOOLEAN /\ empty_reg \in BOOLEAN
               /\ wr_flags_reg \in 0 .. 7 /\ rd_flags_reg \in 0 .. 7

\* The tables of the module's header (FIFO_sync_256x8.v:17-39).
RdLevel(n) == IF n < 2 THEN n
              ELSE IF n < 4 THEN 2 ELSE IF n < 8 THEN 3
              ELSE IF n < 32 THEN 4 ELSE IF n < 64 THEN 5
              ELSE IF n < 128 THEN 6 ELSE 7
WrLevel(spaces) == 7 - RdLevel(spaces)

(***************************************************************************)
(* The incrementally updated flags are the ones the header tables give     *)
(* for the number of bytes inside, and full/empty mean 256 and 0 bytes:    *)
(* no sequence of pushes, pops, both at once, ignored requests and flushes *)
(* makes a flag drift (FIFO_sync_256x8.v:139-252).                         *)
(***************************************************************************)
FlagsMatchCount ==
    /\ rd_flags_reg = RdLevel(fifo_cnt)
    /\ wr_flags_reg = WrLevel(FIFO_DEPTH - fifo_cnt)
    /\ empty_reg <=> (fifo_cnt = 0)
    /\ full_reg <=> (fifo_cnt = FIFO_DEPTH)

\* The address distance is the count (FIFO_sync_256x8.v:87-123).
AddressesMatchCount ==
    \/ ram_wr_addr = ram_rd_addr + fifo_cnt
    \/ ram_wr_addr = ram_rd_addr + fifo_cnt - FIFO_DEPTH

AddrOf(i) == LET a == ram_rd_addr + i - 1
             IN  IF a >= FIFO_DEPTH THEN a - FIFO_DEPTH ELSE a

BytesInside == [i \in 1 .. fifo_cnt |-> ram[AddrOf(i)]]

ByteQueue ==
    INSTANCE BoundedFifo WITH Data <- Bytes, Depth <- FIFO_DEPTH, q <- BytesInside

(***************************************************************************)
(* FIFO_sync_256x8 is a flushable queue of 256 bytes: a push on full and a *)
(* pop on empty are ignored, everything else comes out in order.           *)
(***************************************************************************)
ImplementsByteQueue == ByteQueue!FlushableSpec
=============================================================================

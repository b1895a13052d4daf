----------------------------- MODULE BootState -----------------------------
(***************************************************************************)
(* What the two serial loaders of the a2_boot ROM share: the global flags  *)
(* by which each silences the other, the memory they fill and the jump     *)
(* that ends the boot.                                                     *)
(***************************************************************************)
EXTENDS Integers, Sequences

VARIABLES gStopUartMsgFlg,          \* no more "A2 BOOTME"
          gStopUartBootLoaderFlg,   \* the UART loader is not polled any more
          gStopI2CBootLoaderFlg,    \* the I2C loader is not polled any more
          loaded,                   \* memcpy calls: <<address, bytes>> pairs
          entry                     \* where the ROM jumped to; << >> before

flags == <<gStopUartMsgFlg, gStopUartBootLoaderFlg, gStopI2CBootLoaderFlg>>
shared == <<flags, loaded, entry>>

\* An address is a sequence of bytes, the most significant first.
NoEntry == << >>
IsZero(address) == \A i \in DOMAIN address : address[i] = 0

\* crt0.S clears the data section.
BootInit ==
    /\ gStopUartMsgFlg = FALSE
    /\ gStopUartBootLoaderFlg = FALSE
    /\ gStopI2CBootLoaderFlg = FALSE
    /\ loaded = {}
    /\ entry = NoEntry

Running == entry = NoEntry

memcpy(address, bytes) == /\ loaded' = loaded \cup {<<address, bytes>>}
                          /\ UNCHANGED entry

jump_to_address(address) == /\ entry' = address
                            /\ UNCHANGED loaded
=============================================================================

---------------------------- MODULE MC_SocEvents ----------------------------
(***************************************************************************)
(* Small instances of SocEventGenerator: two peripheral lines, one         *)
(* software event and the reference clock, registers two bits wide so that *)
(* the four sources span two mask and two error registers.                 *)
(***************************************************************************)
EXTENDS SocEventGenerator

Idle         == [op |-> "IDLE"]
SwEvent      == [op |-> "EVENT", bits |-> {0}]
ReadErr(w)   == [op |-> "ERR", word |-> w]
Mask(c, w, b) == [op |-> "MASK", ch |-> c, word |-> w, bits |-> b]
SelectTimer  == [op |-> "TIMER_SEL", side |-> "lo", id |-> 1]

LiveOps == {Idle, Mask("fc", 0, {})}

\* One source, until the FC FIFO and then the queue overflow.
OverflowOps == {Idle, Mask("fc", 0, {}), SelectTimer, ReadErr(0)}

\* The FC and the uDMA both get source 0.
TwoChannelOps == {Idle, Mask("fc", 0, {}), Mask("pr", 0, {})}

\* All three channels: software unmasks sources, raises an event, and reads both
\* error registers.
AllOps == {Idle, SwEvent, Mask("fc", 0, {}), Mask("fc", 1, {3}), Mask("cl", 0, {1}),
           Mask("pr", 1, {3}), ReadErr(0), ReadErr(1)}
=============================================================================

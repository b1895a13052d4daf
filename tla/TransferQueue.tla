--------------------------- MODULE TransferQueue ---------------------------
(***************************************************************************)
(* What the uDMA promises to software about a receive channel: two         *)
(* transfers can be enqueued; the first one moves its data to consecutive  *)
(* addresses, one datum a step; when its last datum has been moved an      *)
(* event is raised and the second one takes its place.  No transfer is     *)
(* lost, repeated or mixed with another, on any channel.                   *)
(***************************************************************************)
EXTENDS Naturals

CONSTANTS Channels, Datasize, Transfers, None

VARIABLES ask,          \* per channel: the transfer enqueued in this cycle, or None
          cur, nxt,     \* per channel: the transfer that runs, the queued one
          wr,           \* the write that goes to L2 in this cycle, or None
          event         \* per channel: the end-of-transfer event of this cycle

vars == <<ask, cur, nxt, wr, event>>

Last(c) == cur[c].size <= Datasize[c]

Rest(c) == [addr |-> cur[c].addr + Datasize[c], size |-> cur[c].size - Datasize[c]]

Init == /\ ask = [c \in Channels |-> None]
        /\ cur = [c \in Channels |-> None]
        /\ nxt = [c \in Channels |-> None]
        /\ wr = None
        /\ event = [c \in Channels |-> FALSE]

\* Channel c moves a datum (m) or not and is given a transfer or none.
Channel(c, m) ==
  LET ends == m /\ Last(c)
      run  == IF ends THEN nxt[c] ELSE IF m THEN Rest(c) ELSE cur[c]
      wait == IF ends THEN None ELSE nxt[c]
  IN  /\ ask'[c] \in IF wait = None THEN Transfers \cup {None} ELSE {None}
      /\ cur'[c] = IF run = None THEN ask'[c] ELSE run
      /\ nxt'[c] = IF run # None /\ wait = None THEN ask'[c] ELSE wait
      /\ event'[c] = ends

\* At most one channel moves a datum in a cycle; any channel may get a transfer.
Next == \E mover \in {c \in Channels : cur[c] # None} \cup {None} :
          /\ wr' = IF mover = None THEN None
                   ELSE [ch |-> mover, addr |-> cur[mover].addr]
          /\ \A c \in Channels : Channel(c, mover = c)
          /\ ask' = [c \in Channels |-> ask'[c]]
          /\ cur' = [c \in Channels |-> cur'[c]]
          /\ nxt' = [c \in Channels |-> nxt'[c]]
          /\ event' = [c \in Channels |-> event'[c]]

Spec == Init /\ [][Next]_vars
=============================================================================

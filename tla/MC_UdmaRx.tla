----------------------------- MODULE MC_UdmaRx -----------------------------
(***************************************************************************)
(* Two receive channels, one of bytes and one of words.  A transfer of two *)
(* bytes (less than a word) and one of size 0, which moves a datum all the *)
(* same.                                                                   *)
(***************************************************************************)
EXTENDS UdmaRx

DatasizeDef == [c \in 0 .. N - 1 |-> IF c = 0 THEN 1 ELSE 4]

Short == {[addr |-> 8, size |-> 2]}
Mixed == {[addr |-> 8, size |-> 0], [addr |-> 16, size |-> 2]}
=============================================================================

----------------------------- MODULE MCKeyLoad -----------------------------
(***************************************************************************)
(* A small instance of KeyLoad: a key of two words, which both cores take; *)
(* key memories of three and two rows, of which des skips the first, and   *)
(* of two columns, of which des reads one.                                 *)
(***************************************************************************)
EXTENDS KeyLoad

PerCore(d, a) == [c \in Cores |-> IF c = "des" THEN d ELSE a]
MCKeyWords == PerCore(2, 2)
MCRows     == PerCore(3, 2)
MCCols     == PerCore(2, 2)
MCUsedCols == PerCore(1, 2)
=============================================================================

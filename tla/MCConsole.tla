------------------------------ MODULE MCConsole ------------------------------
(* One administrator at two batches' pages, however old, beside readers of *)
(* the list.                                                               *)
EXTENDS Console, TLC

Symm == Permutations(Batches)
=============================================================================

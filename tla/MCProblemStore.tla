---------------------------- MODULE MCProblemStore ----------------------------
(* Instances of ProblemStore for TLC.                                      *)
EXTENDS ProblemStore, TLC

Symmetry == Permutations(Admins) \cup Permutations(Names) \cup Permutations(Pods)
===============================================================================

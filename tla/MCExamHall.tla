----------------------------- MODULE MCExamHall -----------------------------
(* Instances of ExamHall for TLC.                                          *)
EXTENDS ExamHall, TLC

Symmetry == Permutations(Attempts) \cup Permutations(Requests)
===============================================================================

------------------------------ MODULE MCAccess ------------------------------
(* One browser with two requests at a time, two organizations and two      *)
(* users who may become staff of either.                                   *)
EXTENDS Access, TLC

Symm == Permutations(Requests) \cup Permutations(Orgs) \cup Permutations(Users)
=============================================================================

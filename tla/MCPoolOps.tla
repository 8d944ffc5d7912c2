------------------------------ MODULE MCPoolOps ------------------------------
EXTENDS PoolOps, TLC

CONSTANTS Spring, Autumn, Ada, Bo, Cleo

MCBatchOf == [a \in Attempts |-> IF a = Cleo THEN Autumn ELSE Spring]

Classmates == Permutations({Ada, Bo})
===============================================================================

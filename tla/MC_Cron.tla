------------------------------ MODULE MC_Cron ------------------------------
(* Instances of Cron for TLC.                                              *)
EXTENDS Cron, TLC

CONSTANTS n1, n2, a, b, MaxTime

Clock      == 0 .. MaxTime
EveryTick  == [s \in Slugs |-> Times \ {0}]
NodeSymmetry == Permutations(Nodes)
=============================================================================

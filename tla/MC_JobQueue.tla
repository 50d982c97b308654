---------------------------- MODULE MC_JobQueue ----------------------------
(* Instances of JobQueue for TLC.                                          *)
EXTENDS JobQueue, TLC

CONSTANTS j1, j2, j3, a, b, q, r, n1, n2, p1, p2, k

(* Rows j1 and j2 have slug a, the others b; j1 and j3 are in queue q; j2  *)
(* is the most urgent and j1 the only one that may be retried.             *)
SlugOf   == [j \in Jobs |-> IF j \in {j1, j2} THEN a ELSE b]
QueueOf  == [j \in Jobs |-> IF j \in {j1, j3} THEN q ELSE r]
PrioOf   == [j \in Jobs |-> IF j = j2 THEN 1 ELSE 0]
MaxOf    == [j \in Jobs |-> IF j = j1 THEN 2 ELSE 1]
Keyed    == [j \in Jobs |-> IF j = j3 THEN NoKey ELSE k]
Unkeyed  == [j \in Jobs |-> NoKey]
CapA     == [s \in {a} |-> 1]
CapQ     == [x \in {q} |-> 1]
NoCap    == [x \in {} |-> 0]
OneHome  == [p \in Pollers |-> n1]
TwoHomes == [p \in Pollers |-> IF p = p1 THEN n1 ELSE n2]
=============================================================================

---------------------------- MODULE MC_Versions ----------------------------
(* Instances of Versions for TLC.                                          *)
EXTENDS Versions, TLC

CONSTANTS s1, s2, s3

On(pg, n, global) == [pg |-> pg, max_versions |-> n, global |-> global]

(* SQLite with several caps, and Postgres with an unlimited log.           *)
Sound == {On(FALSE, 0, FALSE), On(FALSE, 1, FALSE), On(FALSE, 2, FALSE),
          On(FALSE, 2, TRUE), On(TRUE, 0, FALSE)}
Perms  == Permutations(Saves)
=============================================================================

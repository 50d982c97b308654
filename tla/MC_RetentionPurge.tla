------------------------- MODULE MC_RetentionPurge -------------------------
(* Model-checking instances of RetentionPurge.                             *)
EXTENDS RetentionPurge

CONSTANTS a, b, x

NoUses == {}
=============================================================================

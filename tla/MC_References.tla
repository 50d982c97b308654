--------------------------- MODULE MC_References ---------------------------
(* Model-checking instances of References.                                 *)
EXTENDS References, TLC

CONSTANTS a, b, c, x, y

AllUses == {"cli", "hook_ref", "lua_delete"}
NoUses == {}

DocSymmetry == Permutations(SoftDelete)
=============================================================================

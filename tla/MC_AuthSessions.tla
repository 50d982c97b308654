-------------------------- MODULE MC_AuthSessions --------------------------
(* Instance of AuthSessions for TLC.                                       *)
EXTENDS AuthSessions, TLC

CONSTANTS c1, c2

On(pg, mfa, max_age) == [pg |-> pg, mfa |-> mfa, max_age |-> max_age]

Deployed == {On(FALSE, FALSE, 2), On(FALSE, TRUE, 0), On(TRUE, FALSE, 2)}

(* Operations given by name, the others not at all.                        *)
Some(given) == [op \in Ops |-> IF op \in DOMAIN given THEN given[op] ELSE 0]

Planned ==
    {Some([login |-> 5]),                                      \* the limiter
     Some([login |-> 1, refresh |-> 3]),                       \* the age cap
     Some([login |-> 1, refresh |-> 1, lock |-> 1, unlock |-> 1, logout |-> 1]),
     Some([login |-> 1, refresh |-> 1, forgot |-> 1, reset |-> 1, password |-> 1]),
     Some([login |-> 1, refresh |-> 1, forgot |-> 1, reset |-> 1, lock |-> 1, unlock |-> 1]),
     Some([forgot |-> 2, reset |-> 2, lock |-> 1, unlock |-> 1])}

Perms == Permutations(Calls)
=============================================================================

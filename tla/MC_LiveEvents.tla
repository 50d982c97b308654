--------------------------- MODULE MC_LiveEvents ---------------------------
(* Instances of LiveEvents for TLC.                                        *)
EXTENDS LiveEvents

CONSTANTS w1, w2, s1, s2, u1

OneNested == [w \in Writers |-> IF w = w1 THEN 1 ELSE 0]
HearSome  == [s \in Streams |-> IF s = s1 THEN Writers ELSE {w2}]
Owners    == [s \in Streams |-> IF s = s1 THEN u1 ELSE Nobody]
Caps      == [c \in Channels |-> IF c = "events" THEN 1 ELSE MaxSignals]

(* In memory two writes and one stream, or one write and two streams; over *)
(* Redis one of each.  The others have been rolled back and refused before. *)
Start(kind, writers, streams) ==
    /\ transport = kind
    /\ tx = [w \in Writers |-> IF w \in writers THEN NoTx
                               ELSE [NoTx EXCEPT !.pc = "rolled_back"]]
    /\ sequence = 1
    /\ chan = [c \in Channels |-> <<>>]
    /\ user = [u \in Users |-> [stale |-> FALSE, gone |-> FALSE, op |-> "none"]]
    /\ slots = 0
    /\ sub = [s \in Streams |-> IF s \in streams THEN NoSub
                                ELSE [NoSub EXCEPT !.pc = "done"]]
    /\ rx = [s \in Streams |-> [c \in Channels |-> NoRx]]
    /\ got = [s \in Streams |-> <<>>]
    /\ breaks = 0

MCInit ==
    \/ Start("memory", {w1, w2}, {s1})
    \/ Start("memory", {w1}, {s1, s2})
    \/ Start("redis", {w1}, {s1})

MCSpec == MCInit /\ [][Next]_vars /\ Fairness
=============================================================================

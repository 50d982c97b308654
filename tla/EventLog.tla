------------------------------ MODULE EventLog ------------------------------
(***************************************************************************)
(* What live updates promise: the changes of committed writes form a log,  *)
(* and a stream hands its client the events of the log that the client may *)
(* hear, in order, from the place where the stream was opened.  With the   *)
(* in-process transport none is left out before the stream ends; over      *)
(* Redis some may be.                                                      *)
(***************************************************************************)
EXTENDS Integers, Sequences

CONSTANTS
    Writers,      \* writes of the service layer
    Streams,      \* subscriptions
    MaxNested,    \* the nested writes that the hooks of a write may make
    Hears         \* Hears[s]: writes whose events stream s may see

VARIABLES transport, committed, log, from, got

Closed == -1

LogInit ==
    /\ transport \in {"memory", "redis"}
    /\ committed = {}
    /\ log = <<>>
    /\ from = [s \in Streams |-> Closed]
    /\ got = [s \in Streams |-> <<>>]

CommitWrite(w) ==
    /\ committed' = committed \cup {w}
    /\ UNCHANGED <<transport, log, from, got>>

(* Event 0 of a write is its own, the others those of its nested writes.   *)
Publish(w, i, seq) ==
    /\ w \in committed
    /\ \A n \in DOMAIN log :
          /\ log[n].write = w => log[n].event < i
          /\ log[n].sequence # seq
    /\ log' = Append(log, [write |-> w, event |-> i, sequence |-> seq])
    /\ UNCHANGED <<transport, committed, from, got>>

Open(s) ==
    /\ from[s] = Closed
    /\ from' = [from EXCEPT ![s] = Len(log)]
    /\ UNCHANGED <<transport, committed, log, got>>

Upto(s) == IF got[s] = <<>> THEN from[s] ELSE got[s][Len(got[s])]

Heard(s, n) == log[n].write \in Hears[s]

Deliver(s) ==
    /\ from[s] # Closed
    /\ \E n \in (Upto(s) + 1) .. Len(log) :
          /\ Heard(s, n)
          /\ transport = "memory" => \A m \in (Upto(s) + 1) .. (n - 1) : ~Heard(s, m)
          /\ got' = [got EXCEPT ![s] = Append(@, n)]
    /\ UNCHANGED <<transport, committed, log, from>>

(* Any sequence that no event bears yet may be the next.                   *)
LogNext ==
    \/ \E w \in Writers : CommitWrite(w)
    \/ \E w \in Writers : \E i \in 0 .. MaxNested[w] :
          \E seq \in {log'[n].sequence : n \in DOMAIN log'} : Publish(w, i, seq)
    \/ \E s \in Streams : Open(s) \/ Deliver(s)

LogVars == <<transport, committed, log, from, got>>

LogSpec == LogInit /\ [][LogNext]_LogVars
=============================================================================

----------------------------- MODULE LiveEvents -----------------------------
(***************************************************************************)
(* Live updates: writes that queue events in their transaction and publish *)
(* them after it, the transports that carry events and user invalidations, *)
(* and the streams (gRPC Subscribe and admin SSE) that forward them.       *)
(*                                                                         *)
(* A process publishes into two channels.  A message is named after its    *)
(* place in its channel.  In memory a channel is a broadcast ring of which *)
(* every receiver has a position; over Redis every receiver is a task that *)
(* copies messages from a connection into a bounded queue.                 *)
(***************************************************************************)
EXTENDS Integers, Sequences, FiniteSets

CONSTANTS
    Writers,        \* write calls, each made at most once
    MaxNested,      \* the most nested writes of each
    Streams,        \* connections, each opened at most once
    Hears,          \* Hears[s]: the writes whose events pass the access,
                    \* operation and constraint filters of stream s
    Users, Nobody,
    Owner,          \* the user of each stream, or Nobody
    Capacity,       \* of each channel
    OutCapacity,    \* SUBSCRIBER_CHANNEL_CAPACITY
    MaxConnections, \* 0: unlimited
    Transports,
    MaxSignals, MaxBreaks   \* bounds on invalidations and lost connections

Channels == {"events", "signals"}

ASSUME LiveAssumption ==
    /\ IsFiniteSet(Writers) /\ IsFiniteSet(Streams)
    /\ MaxNested \in [Writers -> Nat]
    /\ Hears \in [Streams -> SUBSET Writers]
    /\ Nobody \notin Users
    /\ Owner \in [Streams -> Users \cup {Nobody}]
    /\ Capacity \in [Channels -> Nat \ {0}] /\ OutCapacity \in Nat \ {0}
    /\ MaxConnections \in Nat
    /\ Transports \subseteq {"memory", "redis"}
    /\ MaxSignals \in Nat /\ MaxBreaks \in Nat

VARIABLES
    transport,  \* fixed
    tx,         \* each write: its transaction and what it still publishes
    sequence,   \* SequenceGen
    chan,       \* everything sent on each channel
    user,       \* the row of each user, and the operation on it
    slots,      \* the counter of connections
    sub,        \* each stream
    rx,         \* its two receivers
    got,        \* the events its client has read
    breaks      \* connections to Redis lost so far

vars == <<transport, tx, sequence, chan, user, slots, sub, rx, got, breaks>>

Lagged == 0   \* in a receiver's queue: RemoteMessage::Lagged
Denied == 0   \* in an outbound channel: the terminal PermissionDenied

Event == [write : Writers, event : Nat, sequence : Nat \ {0}]

NoTx   == [pc |-> "none", nested |-> 0, next |-> 0, stamp |-> 0]
NoSub  == [pc |-> "idle", pump |-> "off", client |-> "off", from |-> -1,
           hold |-> <<>>, out |-> <<>>]
NoRx   == [pos |-> 0, up |-> FALSE, q |-> <<>>, owed |-> FALSE]

Tx  == [pc : {"none", "open", "publish", "rolled_back"},
        nested : Nat,   \* nested writes that have queued their event
        next : Nat,     \* events published, suppressed or lost so far
        stamp : Nat]    \* sequence of the event at hand, 0 before it has one
Sub == [pc : {"idle", "slot", "resolved", "done"},
        pump : {"off", "run", "end"},
        client : {"off", "open", "closed"},
        from : Nat \cup {-1},   \* length of the channel when it subscribed
        hold : Seq(Nat),        \* what the pump is forwarding
        out : Seq(Nat)]         \* the bounded channel to the client
Rx  == [pos : Nat, up : BOOLEAN, q : Seq(Nat), owed : BOOLEAN]

LiveTypeOK ==
    /\ transport \in Transports
    /\ tx \in [Writers -> Tx]
    /\ sequence \in Nat \ {0}
    /\ chan \in [events : Seq(Event), signals : Seq(Users)]
    /\ user \in [Users -> [stale : BOOLEAN, gone : BOOLEAN,
                           op : {"none", "lock", "delete"}]]
    /\ slots \in Nat
    /\ sub \in [Streams -> Sub]
    /\ rx \in [Streams -> [Channels -> Rx]]
    /\ got \in [Streams -> Seq(Nat)]
    /\ breaks \in Nat
    /\ \A s \in Streams : /\ Len(sub[s].hold) <= 1
                          /\ Len(sub[s].out) <= OutCapacity
                          /\ \A c \in Channels : Len(rx[s][c].q) <= Capacity[c]

Init ==
    /\ transport \in Transports
    /\ tx = [w \in Writers |-> NoTx]
    /\ sequence = 1
    /\ chan = [c \in Channels |-> <<>>]
    /\ user = [u \in Users |-> [stale |-> FALSE, gone |-> FALSE, op |-> "none"]]
    /\ slots = 0
    /\ sub = [s \in Streams |-> NoSub]
    /\ rx = [s \in Streams |-> [c \in Channels |-> NoRx]]
    /\ got = [s \in Streams |-> <<>>]
    /\ breaks = 0

-----------------------------------------------------------------------------
(* Writes.  The events of nested writes are queued with the transaction;   *)
(* after the commit the write publishes its own event and then the queue.  *)

StreamSide == <<slots, sub, rx, got, breaks>>

Begin(w) ==
    /\ tx[w].pc = "none"
    /\ tx' = [tx EXCEPT ![w].pc = "open"]
    /\ UNCHANGED <<transport, sequence, chan, user, StreamSide>>

publish_mutation_event(w) ==
    /\ tx[w].pc = "open" /\ tx[w].nested < MaxNested[w]
    /\ tx' = [tx EXCEPT ![w].nested = @ + 1]
    /\ UNCHANGED <<transport, sequence, chan, user, StreamSide>>

Commit(w) ==
    /\ tx[w].pc = "open"
    /\ tx' = [tx EXCEPT ![w].pc = "publish"]
    /\ UNCHANGED <<transport, sequence, chan, user, StreamSide>>

Rollback(w) ==
    /\ tx[w].pc = "open"
    /\ tx' = [tx EXCEPT ![w].pc = "rolled_back"]
    /\ UNCHANGED <<transport, sequence, chan, user, StreamSide>>

(* flush_queue runs in this order; an event is next.                       *)
Pending(w) == tx[w].pc = "publish" /\ tx[w].next <= tx[w].nested

(* The live setting or a before_broadcast hook says no, or fails.          *)
Suppress(w) ==
    /\ Pending(w) /\ tx[w].stamp = 0
    /\ tx' = [tx EXCEPT ![w].next = @ + 1]
    /\ UNCHANGED <<transport, sequence, chan, user, StreamSide>>

stamp_event(w) ==
    /\ Pending(w) /\ tx[w].stamp = 0
    /\ tx' = [tx EXCEPT ![w].stamp = sequence]
    /\ sequence' = sequence + 1
    /\ UNCHANGED <<transport, chan, user, StreamSide>>

(* Without receivers the ring keeps nothing; a receiver starts at its end, *)
(* so it makes no difference that chan does.                               *)
Send(w) ==
    /\ Pending(w) /\ tx[w].stamp > 0
    /\ chan' = [chan EXCEPT !["events"] =
                  Append(@, [write |-> w, event |-> tx[w].next, sequence |-> tx[w].stamp])]
    /\ tx' = [tx EXCEPT ![w].next = @ + 1, ![w].stamp = 0]
    /\ UNCHANGED <<transport, sequence, user, StreamSide>>

(* A failed PUBLISH is logged.                                             *)
PublishFails(w) ==
    /\ transport = "redis"
    /\ Pending(w) /\ tx[w].stamp > 0
    /\ tx' = [tx EXCEPT ![w].next = @ + 1, ![w].stamp = 0]
    /\ UNCHANGED <<transport, sequence, chan, user, StreamSide>>

-----------------------------------------------------------------------------
(* Users.  lock_user bumps the session version, by which the user's tokens *)
(* are refused from then on, and then publishes; a hard delete publishes   *)
(* inside its transaction.                                                 *)

Signals == Len(chan["signals"]) + Cardinality({u \in Users : user[u].op = "lock"})

Signal(u) == [chan EXCEPT !["signals"] = Append(@, u)]

lock_user(u) ==
    /\ ~user[u].gone /\ user[u].op = "none" /\ Signals < MaxSignals
    /\ user' = [user EXCEPT ![u].stale = TRUE, ![u].op = "lock"]
    /\ UNCHANGED <<transport, tx, sequence, chan, StreamSide>>

publish_user_invalidation(u) ==
    /\ user[u].op = "lock"
    /\ user' = [user EXCEPT ![u].op = "none"]
    /\ chan' = Signal(u)
    /\ UNCHANGED <<transport, tx, sequence, StreamSide>>

(* The user gets a token of the new version: after an unlock, or from a    *)
(* login that found the account unlocked before the bump.                  *)
authenticate_local(u) ==
    /\ user[u].stale /\ ~user[u].gone
    /\ user' = [user EXCEPT ![u].stale = FALSE]
    /\ UNCHANGED <<transport, tx, sequence, chan, StreamSide>>

delete_document_in_conn(u) ==
    /\ ~user[u].gone /\ user[u].op = "none" /\ Signals < MaxSignals
    /\ user' = [user EXCEPT ![u].op = "delete"]
    /\ chan' = Signal(u)
    /\ UNCHANGED <<transport, tx, sequence, StreamSide>>

EndDelete(u) ==
    /\ user[u].op = "delete"
    /\ \E commits \in BOOLEAN :
          user' = [user EXCEPT ![u].op = "none", ![u].gone = commits]
    /\ UNCHANGED <<transport, tx, sequence, chan, StreamSide>>

-----------------------------------------------------------------------------
(* A connection: take a slot, resolve the user, subscribe.                 *)

WriteSide == <<transport, tx, sequence, chan, user>>

try_acquire_slot(s) ==
    /\ sub[s].pc = "idle"
    /\ IF MaxConnections > 0 /\ slots >= MaxConnections
       THEN /\ sub' = [sub EXCEPT ![s].pc = "done"]
            /\ UNCHANGED slots
       ELSE /\ sub' = [sub EXCEPT ![s].pc = "slot"]
            /\ slots' = slots + 1
    /\ UNCHANGED <<WriteSide, rx, got, breaks>>

Valid(u) == u \in Users => ~user[u].stale /\ ~user[u].gone

Resolve(s) ==
    /\ sub[s].pc = "slot"
    /\ Valid(Owner[s])
    /\ sub' = [sub EXCEPT ![s].pc = "resolved"]
    /\ UNCHANGED <<WriteSide, slots, rx, got, breaks>>

\* Mutant of Refuse: a refused connection keeps its place.
RefuseWithoutRelease(s) ==
    /\ sub[s].pc = "slot"
    /\ sub' = [sub EXCEPT ![s].pc = "done"]
    /\ UNCHANGED <<WriteSide, slots, rx, got, breaks>>

(* Invalid credentials, nothing accessible, an error: the guard is dropped. *)
Refuse(s) ==
    /\ sub[s].pc = "slot"
    /\ sub' = [sub EXCEPT ![s].pc = "done"]
    /\ slots' = slots - 1
    /\ UNCHANGED <<WriteSide, rx, got, breaks>>

Subscribe(s) ==
    /\ sub[s].pc = "resolved"
    /\ sub' = [sub EXCEPT ![s].pc = "done", ![s].pump = "run", ![s].client = "open",
                          ![s].from = Len(chan["events"])]
    /\ rx' = [rx EXCEPT ![s] = [c \in Channels |-> [NoRx EXCEPT !.pos = Len(chan[c])]]]
    /\ UNCHANGED <<WriteSide, slots, got, breaks>>

-----------------------------------------------------------------------------
(* recv: the next message of receiver rx[s][c], Lagged if there was an     *)
(* overflow.  A ring receiver that lags goes on with the oldest message.   *)

Behind(s, c) == Len(chan[c]) - rx[s][c].pos

Ready(s, c) == IF transport = "redis" THEN rx[s][c].q # <<>> ELSE Behind(s, c) > 0

Recv(s, c) ==
    IF transport = "redis" THEN Head(rx[s][c].q)
    ELSE IF Behind(s, c) > Capacity[c] THEN Lagged
    ELSE rx[s][c].pos + 1

Received(s, c) ==
    LET r == rx[s][c]
    IN  rx' = [rx EXCEPT ![s][c] =
                 IF transport = "redis" THEN [r EXCEPT !.q = Tail(r.q)]
                 ELSE IF Recv(s, c) = Lagged THEN [r EXCEPT !.pos = Len(chan[c]) - Capacity[c]]
                 ELSE [r EXCEPT !.pos = r.pos + 1]]

-----------------------------------------------------------------------------
(* The pump of a stream.  It holds one item while it forwards it, and      *)
(* looks at neither receiver meanwhile.                                    *)

Idle(s) == sub[s].pump = "run" /\ sub[s].hold = <<>>

process_event(s, n) == chan["events"][n].write \in Hears[s]

\* Mutant of handle_event: a stream that lags goes on with a warning.
WarnOnLag(s) ==
    /\ Idle(s) /\ Ready(s, "events")
    /\ Received(s, "events")
    /\ LET n == Recv(s, "events")
       IN  sub' = IF n # Lagged /\ process_event(s, n)
                  THEN [sub EXCEPT ![s].hold = <<n>>] ELSE sub
    /\ UNCHANGED <<WriteSide, slots, got, breaks>>

handle_event(s) ==
    /\ Idle(s) /\ Ready(s, "events")
    /\ Received(s, "events")
    /\ LET n == Recv(s, "events")
       IN  sub' = IF n = Lagged THEN [sub EXCEPT ![s].pump = "end"]
                  ELSE IF process_event(s, n) THEN [sub EXCEPT ![s].hold = <<n>>]
                  ELSE sub
    /\ UNCHANGED <<WriteSide, slots, got, breaks>>

(* A lag of this channel is ignored, and so are the signals of others.     *)
(* gRPC sends a terminal status before it ends, SSE just ends; a stream is *)
(* either, and nothing else tells them apart here.                         *)
Mine(s) ==
    LET n == Recv(s, "signals") IN n # Lagged /\ chan["signals"][n] = Owner[s]

IgnoreSignal(s) ==
    /\ Idle(s) /\ Ready(s, "signals") /\ ~Mine(s)
    /\ Received(s, "signals")
    /\ UNCHANGED <<WriteSide, slots, sub, got, breaks>>

handle_invalidation(s) ==
    /\ Idle(s) /\ Ready(s, "signals") /\ Mine(s)
    /\ Received(s, "signals")
    /\ sub' = [sub EXCEPT ![s].hold = <<Denied>>]
    /\ UNCHANGED <<WriteSide, slots, got, breaks>>

handle_invalidation_sse(s) ==
    /\ Idle(s) /\ Ready(s, "signals") /\ Mine(s)
    /\ Received(s, "signals")
    /\ sub' = [sub EXCEPT ![s].pump = "end"]
    /\ UNCHANGED <<WriteSide, slots, got, breaks>>

RecvSignal(s) == IgnoreSignal(s) \/ handle_invalidation(s) \/ handle_invalidation_sse(s)

\* Mutant of forward: a send without a timeout.
ForwardWaits(s) ==
    /\ sub[s].pump = "run" /\ sub[s].hold # <<>>
    /\ sub[s].client = "open" => Len(sub[s].out) < OutCapacity
    /\ sub' = IF sub[s].client = "closed"
              THEN [sub EXCEPT ![s].pump = "end", ![s].hold = <<>>]
              ELSE [sub EXCEPT ![s].out = Append(@, sub[s].hold[1]), ![s].hold = <<>>,
                               ![s].pump = IF sub[s].hold = <<Denied>> THEN "end" ELSE @]
    /\ UNCHANGED <<WriteSide, slots, rx, got, breaks>>

(* The send succeeds, or fails because the client has gone, or times out   *)
(* on a full channel.                                                      *)
forward(s) ==
    /\ sub[s].pump = "run" /\ sub[s].hold # <<>>
    /\ sub' = IF sub[s].client = "closed" \/ Len(sub[s].out) >= OutCapacity
              THEN [sub EXCEPT ![s].pump = "end", ![s].hold = <<>>]
              ELSE [sub EXCEPT ![s].out = Append(@, sub[s].hold[1]), ![s].hold = <<>>,
                               ![s].pump = IF sub[s].hold = <<Denied>> THEN "end" ELSE @]
    /\ UNCHANGED <<WriteSide, slots, rx, got, breaks>>

(* The client reads; once the pump has ended and nothing is left, the      *)
(* stream is over and its guard is dropped.                                *)
ClientReads(s) ==
    /\ sub[s].client = "open" /\ sub[s].out # <<>>
    /\ sub' = [sub EXCEPT ![s].out = Tail(@)]
    /\ got' = IF Head(sub[s].out) = Denied THEN got
              ELSE [got EXCEPT ![s] = Append(@, Head(sub[s].out))]
    /\ UNCHANGED <<WriteSide, slots, rx, breaks>>

StreamEnds(s) ==
    /\ sub[s].client = "open" /\ sub[s].pump = "end" /\ sub[s].out = <<>>
    /\ sub' = [sub EXCEPT ![s].client = "closed"]
    /\ slots' = slots - 1
    /\ UNCHANGED <<WriteSide, rx, got, breaks>>

(* The client hangs up, or the server shuts the stream down.               *)
Disconnect(s) ==
    /\ sub[s].client = "open"
    /\ sub' = [sub EXCEPT ![s].client = "closed", ![s].out = <<>>]
    /\ slots' = slots - 1
    /\ UNCHANGED <<WriteSide, rx, got, breaks>>

-----------------------------------------------------------------------------
(* The task behind a receiver over Redis.                                  *)

Task(s, c) == transport = "redis" /\ sub[s].pump = "run"

connect_pubsub(s, c) ==
    /\ Task(s, c) /\ ~rx[s][c].up
    /\ rx' = [rx EXCEPT ![s][c].up = TRUE, ![s][c].pos = Len(chan[c])]
    /\ UNCHANGED <<WriteSide, slots, sub, got, breaks>>

(* What was published and not yet read is gone.                            *)
Break(s, c) ==
    /\ Task(s, c) /\ rx[s][c].up /\ ~rx[s][c].owed /\ breaks < MaxBreaks
    /\ rx' = [rx EXCEPT ![s][c].up = FALSE]
    /\ breaks' = breaks + 1
    /\ UNCHANGED <<WriteSide, slots, sub, got>>

(* On a full queue the message is dropped after 50 ms ...                  *)
try_forward(s, c) ==
    /\ Task(s, c) /\ rx[s][c].up /\ ~rx[s][c].owed /\ Behind(s, c) > 0
    /\ LET r == rx[s][c]
       IN  rx' = [rx EXCEPT ![s][c] =
                    IF Len(r.q) < Capacity[c]
                    THEN [r EXCEPT !.pos = r.pos + 1, !.q = Append(r.q, r.pos + 1)]
                    ELSE [r EXCEPT !.pos = r.pos + 1, !.owed = TRUE]]
    /\ UNCHANGED <<WriteSide, slots, sub, got, breaks>>

(* ... and Lagged is sent if there is room by now.                         *)
SendLagged(s, c) ==
    /\ Task(s, c) /\ rx[s][c].owed
    /\ LET r == rx[s][c]
       IN  rx' = [rx EXCEPT ![s][c] =
                    [r EXCEPT !.owed = FALSE,
                              !.q = IF Len(r.q) < Capacity[c] THEN Append(r.q, Lagged) ELSE r.q]]
    /\ UNCHANGED <<WriteSide, slots, sub, got, breaks>>

-----------------------------------------------------------------------------
Write(w) ==
    \/ Begin(w) \/ publish_mutation_event(w) \/ Commit(w) \/ Rollback(w)
    \/ Suppress(w) \/ stamp_event(w) \/ Send(w) \/ PublishFails(w)

Account(u) ==
    \/ lock_user(u) \/ publish_user_invalidation(u) \/ authenticate_local(u)
    \/ delete_document_in_conn(u) \/ EndDelete(u)

Stream(s) ==
    \/ try_acquire_slot(s) \/ Resolve(s) \/ Refuse(s) \/ Subscribe(s)
    \/ handle_event(s) \/ RecvSignal(s) \/ forward(s)
    \/ ClientReads(s) \/ StreamEnds(s) \/ Disconnect(s)

RedisTask(s, c) ==
    connect_pubsub(s, c) \/ Break(s, c) \/ try_forward(s, c) \/ SendLagged(s, c)

Next ==
    \/ \E w \in Writers : Write(w)
    \/ \E u \in Users : Account(u)
    \/ \E s \in Streams : Stream(s)
    \/ \E s \in Streams, c \in Channels : RedisTask(s, c)

(* Threads and tasks that have been started go on; a select! picks among   *)
(* its ready branches at random, so neither starves.  Clients, editors and *)
(* Redis owe nothing.                                                      *)
Fairness ==
    /\ \A u \in Users : WF_vars(publish_user_invalidation(u))
    /\ \A s \in Streams : /\ WF_vars(handle_event(s))
                          /\ SF_vars(RecvSignal(s))
                          /\ WF_vars(forward(s))

Spec     == Init /\ [][Next]_vars
FairSpec == Spec /\ Fairness

-----------------------------------------------------------------------------
(* The in-process transport and the streams implement the log of EventLog, *)
(* and over Redis the log with omissions: what a client reads is what      *)
(* committed writes have published, each event once, in order.             *)
Log == INSTANCE EventLog WITH
    committed <- {w \in Writers : tx[w].pc = "publish"},
    log       <- chan["events"],
    from      <- [s \in Streams |-> sub[s].from]

ImplementsLog == Log!LogSpec

(* The counter of connections is the number of guards alive, so it neither *)
(* exceeds the limit nor loses places to refused or broken connections.    *)
Holding == {s \in Streams : sub[s].pc \in {"slot", "resolved"} \/ sub[s].client = "open"}

SlotsCounted ==
    /\ slots = Cardinality(Holding)
    /\ MaxConnections > 0 => slots <= MaxConnections

(* A stream that runs when its owner is locked, or when the delete of its  *)
(* owner sends its signal, comes to an end, however many events it still   *)
(* has to forward and although its client may not read.                    *)
Told(s) ==
    \/ Owner[s] \in Users /\ user[Owner[s]].op = "lock"
    \/ \E n \in (rx[s]["signals"].pos + 1) .. Len(chan["signals"]) :
          chan["signals"][n] = Owner[s]

RevokedStreamEnds ==
    \A s \in Streams :
        (transport = "memory" /\ sub[s].pump = "run" /\ Told(s)) ~> (sub[s].pump = "end")
=============================================================================

----------------------------- MODULE LiveProofs -----------------------------
(***************************************************************************)
(* Proofs about LiveEvents: the counter of connections, and that writes,   *)
(* transports and streams implement the log of EventLog, for any number of *)
(* writes and streams, any capacities and both transports.                 *)
(***************************************************************************)
EXTENDS LiveEvents, FiniteSetTheorems, SequenceTheorems, TLAPS

-----------------------------------------------------------------------------
\* The inductive invariants.

(* A connection that has not subscribed has received nothing.              *)
Unopened(s) ==
    sub[s].pc # "done" =>
        /\ sub[s].from = -1 /\ got[s] = <<>>
        /\ sub[s].pump = "off" /\ sub[s].client = "off"
        /\ sub[s].hold = <<>> /\ sub[s].out = <<>>

SlotInv == LiveTypeOK /\ SlotsCounted /\ \A s \in Streams : Unopened(s)

(* What the writes have published: committed, each event once, and every   *)
(* sequence drawn once.                                                    *)
Published(n) ==
    LET e == chan.events[n]
    IN  tx[e.write].pc = "publish" /\ e.event < tx[e.write].next /\ e.sequence < sequence

Stamped(w) ==
    /\ tx[w].stamp < sequence /\ tx[w].nested <= MaxNested[w]
    /\ tx[w].stamp > 0 =>
          /\ \A n \in DOMAIN chan.events : chan.events[n].sequence # tx[w].stamp
          /\ \A v \in Writers \ {w} : tx[v].stamp # tx[w].stamp

WriteInv == (\A n \in DOMAIN chan.events : Published(n)) /\ \A w \in Writers : Stamped(w)

(* The events between a channel and a client, in the order of the channel: *)
(* read ones, ones in the outbound channel, the one in hand, and over      *)
(* Redis the ones in the receiver's queue.  H are the writes the stream    *)
(* hears, ev is the channel, b the stream, r its receiver, g what has been *)
(* read.                                                                   *)
Last(b, g) == IF g = <<>> THEN b.from ELSE g[Len(g)]

Between(H, ev, b, r, g, n) == Last(b, g) < n /\ n <= r.pos /\ ev[n].write \in H

OutOrdered(H, ev, b, r, g) ==
    \A i \in 1 .. Len(b.out) :
        IF b.out[i] = 0 THEN i = Len(b.out) /\ b.pump = "end"
        ELSE Between(H, ev, b, r, g, b.out[i]) /\ \A j \in 1 .. (i - 1) : b.out[j] < b.out[i]

HoldOrdered(H, ev, b, r, g) ==
    \A i \in 1 .. Len(b.hold) : b.hold[i] # 0 =>
        Between(H, ev, b, r, g, b.hold[i]) /\ \A j \in 1 .. Len(b.out) : b.out[j] < b.hold[i]

QueueOrdered(b, r, g) ==
    \A i \in 1 .. Len(r.q) : r.q[i] # 0 =>
        /\ Last(b, g) < r.q[i] /\ r.q[i] <= r.pos
        /\ \A j \in 1 .. Len(b.out) : b.out[j] < r.q[i]
        /\ \A j \in 1 .. Len(b.hold) : b.hold[j] < r.q[i]
        /\ \A j \in 1 .. (i - 1) : r.q[j] < r.q[i]

(* In memory nothing the stream hears is missing in between.               *)
InOut(b, m)  == \E j \in 1 .. Len(b.out) : b.out[j] = m
InHold(b, m) == \E j \in 1 .. Len(b.hold) : b.hold[j] = m

NoGap(H, ev, b, r, g) ==
    /\ \A i \in 1 .. Len(b.out) : \A m \in Nat :
          Between(H, ev, b, r, g, m) /\ m < b.out[i] => InOut(b, m)
    /\ b.pump = "run" => \A m \in Nat :
          Between(H, ev, b, r, g, m) => InOut(b, m) \/ InHold(b, m)

Flow(H, kind, ev, b, r, g) ==
    /\ b.from \in Nat /\ Last(b, g) \in Nat /\ Last(b, g) <= r.pos
    /\ OutOrdered(H, ev, b, r, g)
    /\ HoldOrdered(H, ev, b, r, g)
    /\ kind = "redis" /\ b.pump = "run" => QueueOrdered(b, r, g)
    /\ kind = "memory" => NoGap(H, ev, b, r, g)

(* A receiver is never ahead of its channel; while the client is there,    *)
(* the events flow.                                                        *)
StreamInv ==
    \A s \in Streams :
        /\ \A c \in Channels : rx[s][c].pos <= Len(chan[c])
        /\ sub[s].client = "open" =>
              Flow(Hears[s], transport, chan.events, sub[s], rx[s]["events"], got[s])

-----------------------------------------------------------------------------
\* Types and the counter of connections.

LEMMA ChanFacts ==
    ASSUME LiveTypeOK
    PROVE  /\ chan["events"] = chan.events /\ chan["signals"] = chan.signals
           /\ chan.events \in Seq(Event) /\ chan.signals \in Seq(Users)
           /\ \A c \in Channels : Len(chan[c]) \in Nat
  BY DEF LiveTypeOK, Channels

LEMMA WriteTypes ==
    ASSUME LiveTypeOK, NEW w \in Writers, Write(w)
    PROVE  LiveTypeOK' /\ UNCHANGED <<slots, sub, rx, got>>
<1>0. tx \in [Writers -> Tx] /\ tx[w] \in Tx /\ sequence \in Nat \ {0}
  BY DEF LiveTypeOK
<1>1. UNCHANGED <<transport, user, slots, sub, rx, got, breaks>>
  BY DEF Write, Begin, publish_mutation_event, Commit, Rollback, Suppress, stamp_event, Send,
         PublishFails, StreamSide
<1>2. ASSUME NEW t \in Tx, tx' = [tx EXCEPT ![w] = t], sequence' \in Nat \ {0},
             chan' \in [events : Seq(Event), signals : Seq(Users)]
      PROVE  LiveTypeOK'
  BY <1>1, <1>2 DEF LiveTypeOK
<1>3. CASE Begin(w) \/ Commit(w) \/ Rollback(w)
  <2>1. PICK pc \in {"open", "publish", "rolled_back"} : tx' = [tx EXCEPT ![w].pc = pc]
    BY <1>3 DEF Begin, Commit, Rollback
  <2>2. [tx[w] EXCEPT !.pc = pc] \in Tx
    BY <1>0 DEF Tx
  <2>3. tx' = [tx EXCEPT ![w] = [tx[w] EXCEPT !.pc = pc]] /\ UNCHANGED <<sequence, chan>>
    BY <1>0, <1>3, <2>1 DEF Begin, Commit, Rollback
  <2> QED
    BY <1>1, <1>2, <2>2, <2>3 DEF LiveTypeOK
<1>4. CASE publish_mutation_event(w) \/ Suppress(w) \/ stamp_event(w) \/ PublishFails(w)
  <2>1. PICK t \in Tx : tx' = [tx EXCEPT ![w] = t]
    <3>1. tx[w].nested + 1 \in Nat /\ tx[w].next + 1 \in Nat /\ sequence \in Nat
      BY <1>0 DEF Tx
    <3>2. /\ [tx[w] EXCEPT !.nested = tx[w].nested + 1] \in Tx
          /\ [tx[w] EXCEPT !.next = tx[w].next + 1] \in Tx
          /\ [tx[w] EXCEPT !.stamp = sequence] \in Tx
          /\ [tx[w] EXCEPT !.next = tx[w].next + 1, !.stamp = 0] \in Tx
      BY <1>0, <3>1 DEF Tx
    <3>3. \/ tx' = [tx EXCEPT ![w] = [tx[w] EXCEPT !.nested = tx[w].nested + 1]]
          \/ tx' = [tx EXCEPT ![w] = [tx[w] EXCEPT !.next = tx[w].next + 1]]
          \/ tx' = [tx EXCEPT ![w] = [tx[w] EXCEPT !.stamp = sequence]]
          \/ tx' = [tx EXCEPT ![w] = [tx[w] EXCEPT !.next = tx[w].next + 1, !.stamp = 0]]
      BY <1>0, <1>4 DEF publish_mutation_event, Suppress, stamp_event, PublishFails
    <3> QED
      BY <3>2, <3>3
  <2>2. UNCHANGED chan /\ sequence' \in Nat \ {0}
    BY <1>0, <1>4 DEF publish_mutation_event, Suppress, stamp_event, PublishFails
  <2> QED
    BY <1>1, <1>2, <2>1, <2>2 DEF LiveTypeOK
<1>5. CASE Send(w)
  <2> DEFINE e == [write |-> w, event |-> tx[w].next, sequence |-> tx[w].stamp]
  <2>1. PICK t \in Tx : tx' = [tx EXCEPT ![w] = t]
    <3>1. tx[w].next + 1 \in Nat
      BY <1>0 DEF Tx
    <3>2. [tx[w] EXCEPT !.next = tx[w].next + 1, !.stamp = 0] \in Tx
      BY <1>0, <3>1 DEF Tx
    <3>3. tx' = [tx EXCEPT ![w] = [tx[w] EXCEPT !.next = tx[w].next + 1, !.stamp = 0]]
      BY <1>0, <1>5 DEF Send
    <3> QED
      BY <3>2, <3>3
  <2>2. e \in Event
    BY <1>0, <1>5 DEF Send, Tx, Event
  <2> HIDE DEF e
  <2>3. chan' = [chan EXCEPT !["events"] = Append(@, e)] /\ UNCHANGED sequence
    BY <1>5 DEF Send, e
  <2>4. chan' \in [events : Seq(Event), signals : Seq(Users)]
    <3>1. Append(chan.events, e) \in Seq(Event)
      BY <2>2, ChanFacts, AppendProperties
    <3> QED
      BY <2>3, <3>1 DEF LiveTypeOK
  <2> QED
    BY <1>0, <1>1, <1>2, <2>1, <2>3, <2>4
<1> QED
  BY <1>1, <1>3, <1>4, <1>5 DEF Write

LEMMA AccountTypes ==
    ASSUME LiveTypeOK, NEW u \in Users, Account(u)
    PROVE  LiveTypeOK' /\ UNCHANGED <<transport, tx, sequence, slots, sub, rx, got>>
           /\ chan'.events = chan.events /\ Len(chan'.signals) >= Len(chan.signals)
<1> DEFINE User == [stale : BOOLEAN, gone : BOOLEAN, op : {"none", "lock", "delete"}]
<1>0. user \in [Users -> User] /\ user[u] \in User
  BY DEF LiveTypeOK
<1>1. UNCHANGED <<transport, tx, sequence, slots, sub, rx, got, breaks>>
  BY DEF Account, lock_user, publish_user_invalidation, authenticate_local,
         delete_document_in_conn, EndDelete, StreamSide
<1>2. user' \in [Users -> User]
  <2>1. \A b \in BOOLEAN, op \in {"none", "lock", "delete"} :
           /\ [user[u] EXCEPT !.stale = b] \in User
           /\ [user[u] EXCEPT !.op = op] \in User
           /\ [user[u] EXCEPT !.stale = b, !.op = op] \in User
           /\ [user[u] EXCEPT !.op = op, !.gone = b] \in User
    BY <1>0
  <2>2. \E new \in User : user' = [user EXCEPT ![u] = new]
    <3>1. \E b \in BOOLEAN, op \in {"none", "lock", "delete"} :
             \/ user' = [user EXCEPT ![u] = [user[u] EXCEPT !.stale = b]]
             \/ user' = [user EXCEPT ![u] = [user[u] EXCEPT !.op = op]]
             \/ user' = [user EXCEPT ![u] = [user[u] EXCEPT !.stale = b, !.op = op]]
             \/ user' = [user EXCEPT ![u] = [user[u] EXCEPT !.op = op, !.gone = b]]
      BY <1>0, Zenon DEF Account, lock_user, publish_user_invalidation, authenticate_local,
           delete_document_in_conn, EndDelete
    <3> HIDE DEF User
    <3> QED
      BY <2>1, <3>1
  <2> HIDE DEF User
  <2> QED
    BY <1>0, <2>2
<1>3. /\ chan' \in [events : Seq(Event), signals : Seq(Users)]
      /\ chan'.events = chan.events /\ Len(chan'.signals) >= Len(chan.signals)
  <2>1. CASE UNCHANGED chan
    BY <2>1, ChanFacts DEF LiveTypeOK, Channels
  <2>2. CASE chan' = Signal(u)
    <3>1. /\ Append(chan.signals, u) \in Seq(Users)
          /\ Len(Append(chan.signals, u)) = Len(chan.signals) + 1
      BY ChanFacts, AppendProperties
    <3>2. Len(chan.signals) \in Nat
      BY ChanFacts
    <3>3. chan \in [events : Seq(Event), signals : Seq(Users)]
      BY DEF LiveTypeOK
    <3>4. chan' = [chan EXCEPT !.signals = Append(chan.signals, u)]
      BY <2>2, <3>3 DEF Signal
    <3>5. chan' \in [events : Seq(Event), signals : Seq(Users)]
      BY <3>1, <3>3, <3>4
    <3>6. chan'.events = chan.events /\ chan'.signals = Append(chan.signals, u)
      BY <3>3, <3>4
    <3> QED
      BY <3>1, <3>2, <3>5, <3>6
  <2> QED
    BY <2>1, <2>2 DEF Account, lock_user, publish_user_invalidation, authenticate_local,
         delete_document_in_conn, EndDelete
<1> QED
  BY <1>1, <1>2, <1>3 DEF LiveTypeOK

(* A step of a stream leaves the counter alone, or takes or gives back a   *)
(* place.                                                                  *)
HoldsSlot(b) == b.pc \in {"slot", "resolved"} \/ b.client = "open"

SlotsMove(h, k) ==
    \/ (h <=> k) /\ slots' = slots
    \/ ~h /\ k /\ slots' = slots + 1 /\ ~(MaxConnections > 0 /\ slots >= MaxConnections)
    \/ h /\ ~k /\ slots' = slots - 1

LEMMA SlotStep ==
    ASSUME SlotInv, NEW s \in Streams, NEW new \in Sub, sub' = [sub EXCEPT ![s] = new],
           SlotsMove(HoldsSlot(sub[s]), HoldsSlot(new))
    PROVE  slots' \in Nat /\ SlotsCounted'
<1>0. sub \in [Streams -> Sub] /\ slots = Cardinality(Holding)
  BY DEF SlotInv, LiveTypeOK, SlotsCounted
<1>1. \A t \in Streams : sub'[t] = IF t = s THEN new ELSE sub[t]
  BY <1>0
<1>2. IsFiniteSet(Holding) /\ Cardinality(Holding) \in Nat
  BY LiveAssumption, FS_Subset, FS_CardinalityType DEF Holding
<1>3. MaxConnections \in Nat /\ (MaxConnections > 0 => slots <= MaxConnections)
  BY LiveAssumption DEF SlotInv, SlotsCounted
<1> DEFINE h == HoldsSlot(sub[s])
           k == HoldsSlot(new)
<1>4. h <=> s \in Holding
  BY DEF Holding, HoldsSlot
<1>5. Holding' = IF k THEN Holding \cup {s} ELSE Holding \ {s}
  BY <1>1 DEF Holding, HoldsSlot
<1> HIDE DEF h, k
<1>6. CASE (h <=> k) /\ slots' = slots
  <2>1. Holding' = Holding
    BY <1>4, <1>5, <1>6
  <2> QED
    BY <1>0, <1>2, <1>3, <1>6, <2>1 DEF SlotsCounted
<1>7. CASE ~h /\ k /\ slots' = slots + 1 /\ ~(MaxConnections > 0 /\ slots >= MaxConnections)
  <2>1. Holding' = Holding \cup {s} /\ s \notin Holding
    BY <1>4, <1>5, <1>7
  <2>2. Cardinality(Holding') = Cardinality(Holding) + 1
    BY <1>2, <2>1, FS_AddElement
  <2> QED
    BY <1>0, <1>2, <1>3, <1>7, <2>2 DEF SlotsCounted
<1>8. CASE h /\ ~k /\ slots' = slots - 1
  <2>1. Holding' = Holding \ {s} /\ s \in Holding
    BY <1>4, <1>5, <1>8
  <2>2. Cardinality(Holding') = Cardinality(Holding) - 1 /\ Cardinality(Holding) # 0
    BY <1>2, <2>1, FS_RemoveElement, FS_EmptySet
  <2> QED
    BY <1>0, <1>2, <1>3, <1>8, <2>2 DEF SlotsCounted
<1> QED
  BY <1>6, <1>7, <1>8 DEF h, k, SlotsMove

-----------------------------------------------------------------------------
\* The events between a channel and a client.

(* The client reads an event: it is the next one, and the rest follow it.  *)
LEMMA FlowRead ==
    ASSUME NEW H, NEW kind, NEW ev, NEW b \in Sub, NEW d \in Sub, NEW r \in Rx,
           NEW g \in Seq(Nat), NEW h \in Seq(Nat), Flow(H, kind, ev, b, r, g),
           b.out # <<>>, Head(b.out) # 0, h = Append(g, Head(b.out)),
           d.from = b.from, d.out = Tail(b.out), d.hold = b.hold, d.pump = b.pump
    PROVE  /\ Flow(H, kind, ev, d, r, h)
           /\ Between(H, ev, b, r, g, Head(b.out))
           /\ kind = "memory" => \A m \in Nat : Between(H, ev, b, r, g, m) => ~(m < Head(b.out))
<1> DEFINE n == Head(b.out)
           u == Last(b, g)
<1>0. /\ b.out \in Seq(Nat) /\ d.out \in Seq(Nat) /\ b.hold \in Seq(Nat) /\ r.q \in Seq(Nat)
      /\ r.pos \in Nat /\ b.from \in Nat /\ u \in Nat
  BY DEF Sub, Rx, Flow
<1>1. /\ Len(b.out) \in Nat \ {0} /\ n = b.out[1] /\ n \in Nat
      /\ Len(d.out) = Len(b.out) - 1
      /\ \A i \in 1 .. Len(d.out) : d.out[i] = b.out[i + 1]
  BY <1>0, HeadTailProperties
<1>2. (\A i \in 1 .. Len(b.out) : b.out[i] \in Nat) /\ (\A i \in 1 .. Len(b.hold) : b.hold[i] \in Nat)
  BY <1>0, ElementOfSeq
<1>3. Between(H, ev, b, r, g, n)
  BY <1>1 DEF Flow, OutOrdered
<1>4. Last(d, h) = n
  <2>1. Len(h) = Len(g) + 1 /\ h[Len(g) + 1] = n /\ Len(g) \in Nat
    BY <1>1, AppendProperties
  <2> QED
    BY <2>1 DEF Last
<1>5. u < n /\ n <= r.pos
  BY <1>3 DEF Between
<1>6. ASSUME NEW i \in 1 .. Len(b.out), i # 1, b.out[i] # 0
      PROVE  n < b.out[i] /\ Between(H, ev, b, r, g, b.out[i])
  <2>1. 1 \in 1 .. (i - 1)
    BY <1>1, <1>6
  <2> QED
    BY <1>1, <1>6, <2>1 DEF Flow, OutOrdered
<1>7. \A m \in Nat : n < m /\ Between(H, ev, b, r, g, m) => Between(H, ev, d, r, h, m)
  BY <1>4 DEF Between
<1>8. OutOrdered(H, ev, d, r, h)
  <2>1. ASSUME NEW i \in 1 .. Len(d.out), d.out[i] = 0 PROVE i = Len(d.out) /\ d.pump = "end"
    <3>1. i + 1 \in 1 .. Len(b.out) /\ b.out[i + 1] = 0
      BY <1>1, <2>1
    <3>2. i + 1 = Len(b.out) /\ b.pump = "end"
      BY <3>1 DEF Flow, OutOrdered
    <3> QED
      BY <1>1, <3>2
  <2>2. ASSUME NEW i \in 1 .. Len(d.out), d.out[i] # 0
        PROVE  Between(H, ev, d, r, h, d.out[i]) /\ \A j \in 1 .. (i - 1) : d.out[j] < d.out[i]
    <3>0. i + 1 \in 1 .. Len(b.out) /\ i + 1 # 1 /\ d.out[i] = b.out[i + 1]
      BY <1>1
    <3>1. i + 1 \in 1 .. Len(b.out) /\ i + 1 # 1 /\ d.out[i] = b.out[i + 1] /\ d.out[i] \in Nat
      BY <1>2, <3>0
    <3>2. n < d.out[i] /\ Between(H, ev, b, r, g, d.out[i])
      BY <1>6, <2>2, <3>1
    <3>3. \A j \in 1 .. i : b.out[j] < b.out[i + 1]
      BY <1>1, <2>2, <3>1 DEF Flow, OutOrdered
    <3>4. ASSUME NEW j \in 1 .. (i - 1) PROVE d.out[j] < d.out[i]
      <4>1. j + 1 \in 1 .. i /\ j \in 1 .. Len(d.out)
        BY <1>1
      <4> QED
        BY <1>1, <3>1, <3>3, <4>1
    <3> QED
      BY <1>7, <3>1, <3>2, <3>4
  <2> QED
    BY <2>1, <2>2 DEF OutOrdered
<1>9. HoldOrdered(H, ev, d, r, h)
  <2>1. ASSUME NEW i \in 1 .. Len(d.hold), d.hold[i] # 0
        PROVE  Between(H, ev, d, r, h, d.hold[i]) /\ \A j \in 1 .. Len(d.out) : d.out[j] < d.hold[i]
    <3>1. /\ Between(H, ev, b, r, g, b.hold[i]) /\ b.hold[i] \in Nat
          /\ \A j \in 1 .. Len(b.out) : b.out[j] < b.hold[i]
      BY <1>2, <2>1 DEF Flow, HoldOrdered
    <3>2. n < b.hold[i]
      BY <1>1, <3>1
    <3>3. \A j \in 1 .. Len(d.out) : j + 1 \in 1 .. Len(b.out)
      BY <1>1
    <3> QED
      BY <1>1, <1>7, <3>1, <3>2, <3>3
  <2> QED
    BY <2>1 DEF HoldOrdered
<1>10. ASSUME kind = "redis", d.pump = "run" PROVE QueueOrdered(d, r, h)
  <2>1. ASSUME NEW i \in 1 .. Len(r.q), r.q[i] # 0
        PROVE  /\ Last(d, h) < r.q[i] /\ r.q[i] <= r.pos
               /\ \A j \in 1 .. Len(d.out) : d.out[j] < r.q[i]
               /\ \A j \in 1 .. Len(d.hold) : d.hold[j] < r.q[i]
               /\ \A j \in 1 .. (i - 1) : r.q[j] < r.q[i]
    <3>1. /\ r.q[i] <= r.pos
          /\ \A j \in 1 .. Len(b.out) : b.out[j] < r.q[i]
          /\ \A j \in 1 .. Len(b.hold) : b.hold[j] < r.q[i]
          /\ \A j \in 1 .. (i - 1) : r.q[j] < r.q[i]
      BY <1>10, <2>1 DEF Flow, QueueOrdered
    <3>2. \A j \in 1 .. Len(d.out) : j + 1 \in 1 .. Len(b.out)
      BY <1>1
    <3>3. n < r.q[i]
      BY <1>1, <3>1
    <3> QED
      BY <1>1, <1>4, <3>1, <3>2, <3>3
  <2> QED
    BY <2>1 DEF QueueOrdered
<1>11. ASSUME kind = "memory", NEW m \in Nat, Between(H, ev, b, r, g, m) PROVE ~(m < n)
  <2>1. SUFFICES ASSUME m < n PROVE FALSE
    OBVIOUS
  <2>2. PICK j \in 1 .. Len(b.out) : b.out[j] = m
    BY <1>1, <1>11, <2>1 DEF Flow, NoGap, InOut
  <2>3. m # 0 /\ j # 1
    BY <1>0, <1>1, <1>11, <2>1, <2>2 DEF Between
  <2>4. n < m
    BY <1>6, <2>2, <2>3
  <2> QED
    BY <1>1, <2>1, <2>4
<1>12. ASSUME kind = "memory" PROVE NoGap(H, ev, d, r, h)
  <2>1. ASSUME NEW m \in Nat, Between(H, ev, d, r, h, m) PROVE Between(H, ev, b, r, g, m) /\ n < m
    BY <1>0, <1>1, <1>4, <1>5, <2>1 DEF Between
  <2>2. ASSUME NEW m \in Nat, n < m, InOut(b, m) PROVE InOut(d, m)
    <3>1. PICK j \in 1 .. Len(b.out) : b.out[j] = m
      BY <2>2 DEF InOut
    <3>2. j # 1
      BY <1>1, <2>2, <3>1
    <3>3. j - 1 \in 1 .. Len(d.out) /\ d.out[j - 1] = m
      BY <1>1, <3>1, <3>2
    <3> QED
      BY <3>3 DEF InOut
  <2>3. ASSUME NEW i \in 1 .. Len(d.out), NEW m \in Nat, Between(H, ev, d, r, h, m), m < d.out[i]
        PROVE  InOut(d, m)
    <3>1. i + 1 \in 1 .. Len(b.out) /\ m < b.out[i + 1]
      BY <1>1, <2>3
    <3>2. InOut(b, m)
      BY <1>12, <2>1, <2>3, <3>1 DEF Flow, NoGap
    <3> QED
      BY <2>1, <2>2, <2>3, <3>2
  <2>4. ASSUME d.pump = "run", NEW m \in Nat, Between(H, ev, d, r, h, m)
        PROVE  InOut(d, m) \/ InHold(d, m)
    <3>1. InOut(b, m) \/ InHold(b, m)
      BY <1>12, <2>1, <2>4 DEF Flow, NoGap
    <3> QED
      BY <2>1, <2>2, <2>4, <3>1 DEF InHold
  <2> QED
    BY <2>3, <2>4 DEF NoGap
<1> QED
  BY <1>0, <1>1, <1>3, <1>4, <1>5, <1>8, <1>9, <1>10, <1>11, <1>12 DEF Flow

(* The client reads the refusal: nothing came after it.                    *)
LEMMA FlowDenied ==
    ASSUME NEW H, NEW kind, NEW ev, NEW b \in Sub, NEW d \in Sub, NEW r \in Rx,
           NEW g \in Seq(Nat), Flow(H, kind, ev, b, r, g),
           b.out # <<>>, Head(b.out) = 0,
           d.from = b.from, d.out = Tail(b.out), d.hold = b.hold, d.pump = b.pump
    PROVE  Flow(H, kind, ev, d, r, g)
<1>0. b.out \in Seq(Nat)
  BY DEF Sub
<1>1. Len(b.out) \in Nat \ {0} /\ b.out[1] = 0 /\ Len(d.out) = Len(b.out) - 1
  BY <1>0, HeadTailProperties
<1>2. Len(b.out) = 1 /\ d.pump = "end"
  <2>1. 1 \in 1 .. Len(b.out)
    BY <1>1
  <2> QED
    BY <1>1, <2>1 DEF Flow, OutOrdered
<1>3. Len(d.out) = 0
  BY <1>1, <1>2
<1>4. Last(d, g) = Last(b, g)
  BY DEF Last
<1>5. \A m : Between(H, ev, d, r, g, m) <=> Between(H, ev, b, r, g, m)
  BY <1>4 DEF Between
<1> QED
  BY <1>2, <1>3, <1>4, <1>5 DEF Flow, OutOrdered, HoldOrdered, NoGap

(* The pump ends: on a lag, a signal, a full channel or a client gone.     *)
LEMMA FlowEnd ==
    ASSUME NEW H, NEW kind, NEW ev, NEW b \in Sub, NEW d \in Sub, NEW r \in Rx, NEW q \in Rx,
           NEW g \in Seq(Nat), Flow(H, kind, ev, b, r, g), q.pos >= r.pos,
           d.from = b.from, d.out = b.out, d.hold = b.hold \/ d.hold = <<>>, d.pump = "end"
    PROVE  Flow(H, kind, ev, d, q, g)
<1>0. /\ r.pos \in Nat /\ q.pos \in Nat /\ Last(b, g) \in Nat /\ Last(d, g) = Last(b, g)
      /\ b.out \in Seq(Nat) /\ b.hold \in Seq(Nat)
  BY DEF Sub, Rx, Flow, Last
<1>1. (\A i \in 1 .. Len(b.out) : b.out[i] \in Nat) /\ (\A i \in 1 .. Len(b.hold) : b.hold[i] \in Nat)
  BY <1>0, ElementOfSeq
<1>2. \A m \in Nat : Between(H, ev, b, r, g, m) => Between(H, ev, d, q, g, m)
  BY <1>0 DEF Between
<1>3. \A m \in Nat : m <= r.pos /\ Between(H, ev, d, q, g, m) => Between(H, ev, b, r, g, m)
  BY <1>0 DEF Between
<1>4. OutOrdered(H, ev, d, q, g)
  BY <1>1, <1>2 DEF Flow, OutOrdered
<1>5. HoldOrdered(H, ev, d, q, g)
  <2>1. CASE d.hold = b.hold
    BY <1>1, <1>2, <2>1 DEF Flow, HoldOrdered
  <2>2. CASE d.hold = <<>>
    BY <2>2 DEF HoldOrdered
  <2> QED
    BY <2>1, <2>2
<1>6. ASSUME kind = "memory", NEW i \in 1 .. Len(d.out), NEW m \in Nat,
             Between(H, ev, d, q, g, m), m < d.out[i]
      PROVE  InOut(d, m)
  <2>1. b.out[i] \in Nat /\ b.out[i] # 0 /\ m < b.out[i]
    BY <1>1, <1>6
  <2>2. b.out[i] <= r.pos
    BY <1>6, <2>1 DEF Flow, OutOrdered, Between
  <2>3. m <= r.pos
    BY <1>0, <2>1, <2>2
  <2> QED
    BY <1>3, <1>6, <2>1, <2>3 DEF Flow, NoGap, InOut
<1>7. Last(d, g) <= q.pos
  BY <1>0 DEF Flow
<1> QED
  BY <1>0, <1>4, <1>5, <1>6, <1>7 DEF Flow, NoGap

(* The pump forwards what it holds.                                        *)
LEMMA FlowForward ==
    ASSUME NEW H, NEW kind, NEW ev, NEW b \in Sub, NEW d \in Sub, NEW r \in Rx,
           NEW g \in Seq(Nat), Flow(H, kind, ev, b, r, g),
           b.pump = "run", Len(b.hold) = 1,
           d.from = b.from, d.out = Append(b.out, b.hold[1]), d.hold = <<>>,
           d.pump = IF b.hold[1] = 0 THEN "end" ELSE "run"
    PROVE  Flow(H, kind, ev, d, r, g)
<1> DEFINE n == b.hold[1]
<1>0. /\ r.pos \in Nat /\ Last(b, g) \in Nat /\ Last(d, g) = Last(b, g)
      /\ b.out \in Seq(Nat) /\ b.hold \in Seq(Nat) /\ Len(b.out) \in Nat
  BY DEF Sub, Rx, Flow, Last
<1>1. n \in Nat /\ 1 \in 1 .. Len(b.hold)
  BY <1>0, ElementOfSeq
<1> HIDE DEF n
<1>2. /\ Len(d.out) = Len(b.out) + 1 /\ d.out[Len(b.out) + 1] = n
      /\ \A i \in 1 .. Len(b.out) : d.out[i] = b.out[i] /\ b.out[i] \in Nat
  <2>1. \A i \in 1 .. Len(b.out) : b.out[i] \in Nat
    BY <1>0, ElementOfSeq
  <2>2. d.out = Append(b.out, n)
    BY DEF n
  <2>3. /\ Len(Append(b.out, n)) = Len(b.out) + 1
        /\ \A i \in 1 .. Len(b.out) : Append(b.out, n)[i] = b.out[i]
        /\ Append(b.out, n)[Len(b.out) + 1] = n
    BY <1>0, <1>1, AppendProperties
  <2> QED
    BY <2>1, <2>2, <2>3
<1>3. \A m : Between(H, ev, d, r, g, m) <=> Between(H, ev, b, r, g, m)
  BY <1>0 DEF Between
<1>4. \A i \in 1 .. Len(b.out) : b.out[i] # 0
  BY DEF Flow, OutOrdered
<1>5. n # 0 => Between(H, ev, b, r, g, n) /\ \A j \in 1 .. Len(b.out) : b.out[j] < n
  BY <1>1 DEF Flow, HoldOrdered, n
<1>6. OutOrdered(H, ev, d, r, g)
  <2>1. ASSUME NEW i \in 1 .. Len(d.out)
        PROVE  IF d.out[i] = 0 THEN i = Len(d.out) /\ d.pump = "end"
               ELSE Between(H, ev, d, r, g, d.out[i]) /\ \A j \in 1 .. (i - 1) : d.out[j] < d.out[i]
    <3>1. CASE i = Len(b.out) + 1
      <4>1. d.out[i] = n /\ \A j \in 1 .. (i - 1) : j \in 1 .. Len(b.out) /\ d.out[j] = b.out[j]
        BY <1>0, <1>2, <3>1
      <4> QED
        BY <1>2, <1>3, <1>5, <3>1, <4>1 DEF n
    <3>2. CASE i \in 1 .. Len(b.out)
      <4>1. /\ d.out[i] = b.out[i] /\ b.out[i] # 0
            /\ \A j \in 1 .. (i - 1) : d.out[j] = b.out[j]
        BY <1>0, <1>2, <1>4, <3>2
      <4>2. Between(H, ev, b, r, g, b.out[i]) /\ \A j \in 1 .. (i - 1) : b.out[j] < b.out[i]
        BY <3>2, <4>1 DEF Flow, OutOrdered
      <4> QED
        BY <1>3, <4>1, <4>2
    <3> QED
      BY <1>0, <1>2, <3>1, <3>2
  <2> QED
    BY <2>1 DEF OutOrdered
<1>7. HoldOrdered(H, ev, d, r, g)
  BY DEF HoldOrdered
<1>8. ASSUME kind = "redis", d.pump = "run" PROVE QueueOrdered(d, r, g)
  <2>1. ASSUME NEW i \in 1 .. Len(r.q), r.q[i] # 0
        PROVE  /\ Last(d, g) < r.q[i] /\ r.q[i] <= r.pos
               /\ \A j \in 1 .. Len(d.out) : d.out[j] < r.q[i]
               /\ \A j \in 1 .. Len(d.hold) : d.hold[j] < r.q[i]
               /\ \A j \in 1 .. (i - 1) : r.q[j] < r.q[i]
    <3>1. /\ Last(b, g) < r.q[i] /\ r.q[i] <= r.pos
          /\ \A j \in 1 .. Len(b.out) : b.out[j] < r.q[i]
          /\ \A j \in 1 .. Len(b.hold) : b.hold[j] < r.q[i]
          /\ \A j \in 1 .. (i - 1) : r.q[j] < r.q[i]
      BY <1>8, <2>1 DEF Flow, QueueOrdered
    <3>2. n < r.q[i]
      BY <1>1, <3>1 DEF n
    <3>3. ASSUME NEW j \in 1 .. Len(d.out) PROVE d.out[j] < r.q[i]
      <4>1. j \in 1 .. Len(b.out) \/ j = Len(b.out) + 1
        BY <1>0, <1>2
      <4> QED
        BY <1>2, <3>1, <3>2, <4>1
    <3> QED
      BY <1>0, <3>1, <3>3
  <2> QED
    BY <2>1 DEF QueueOrdered
<1>9. ASSUME kind = "memory" PROVE NoGap(H, ev, d, r, g)
  <2>1. ASSUME NEW m \in Nat, Between(H, ev, b, r, g, m) PROVE InOut(d, m)
    <3>1. InOut(b, m) \/ InHold(b, m)
      BY <1>9, <2>1 DEF Flow, NoGap
    <3>2. CASE InOut(b, m)
      <4>1. PICK j \in 1 .. Len(b.out) : b.out[j] = m
        BY <3>2 DEF InOut
      <4>2. j \in 1 .. Len(d.out) /\ d.out[j] = m
        BY <1>0, <1>2, <4>1
      <4> QED
        BY <4>2 DEF InOut
    <3>3. CASE InHold(b, m)
      <4>1. m = n /\ Len(b.out) + 1 \in 1 .. Len(d.out)
        BY <1>0, <1>2, <3>3 DEF InHold, n
      <4> QED
        BY <1>2, <4>1 DEF InOut
    <3> QED
      BY <3>1, <3>2, <3>3
  <2> QED
    BY <1>3, <2>1 DEF NoGap
<1> QED
  BY <1>0, <1>6, <1>7, <1>8, <1>9 DEF Flow

(* The pump takes the next event of its receiver, and holds it if the      *)
(* stream hears it.                                                        *)
LEMMA FlowTake ==
    ASSUME NEW H, NEW kind, NEW ev, NEW b \in Sub, NEW d \in Sub, NEW r \in Rx, NEW q \in Rx,
           NEW g \in Seq(Nat), Flow(H, kind, ev, b, r, g),
           b.pump = "run", b.hold = <<>>, NEW n \in Nat, n # 0,
           \/ kind = "redis" /\ r.q # <<>> /\ n = Head(r.q) /\ q.q = Tail(r.q) /\ q.pos = r.pos
           \/ kind = "memory" /\ n = r.pos + 1 /\ q.pos = r.pos + 1,
           d.from = b.from, d.out = b.out, d.pump = "run",
           d.hold = IF ev[n].write \in H THEN <<n>> ELSE <<>>
    PROVE  Flow(H, kind, ev, d, q, g)
<1>0. /\ r.pos \in Nat /\ q.pos \in Nat /\ Last(b, g) \in Nat /\ Last(d, g) = Last(b, g)
      /\ Last(b, g) <= r.pos /\ b.out \in Seq(Nat) /\ r.q \in Seq(Nat) /\ b.from \in Nat
  BY DEF Sub, Rx, Flow, Last
<1>1. \A i \in 1 .. Len(b.out) : b.out[i] \in Nat /\ b.out[i] # 0
  <2>1. \A i \in 1 .. Len(b.out) : b.out[i] # 0
    BY DEF Flow, OutOrdered
  <2> QED
    BY <1>0, <2>1, ElementOfSeq
<1>2. ASSUME kind = "redis"
      PROVE  /\ r.q # <<>> /\ n = r.q[1] /\ Len(r.q) \in Nat \ {0}
             /\ Len(q.q) = Len(r.q) - 1
             /\ \A i \in 1 .. Len(q.q) : q.q[i] = r.q[i + 1]
             /\ QueueOrdered(b, r, g) /\ q.pos = r.pos
  <2>1. r.q # <<>> /\ n = Head(r.q) /\ q.q = Tail(r.q) /\ q.pos = r.pos
    BY <1>2
  <2>2. /\ Head(r.q) = r.q[1] /\ Len(Tail(r.q)) = Len(r.q) - 1
        /\ \A i \in 1 .. Len(Tail(r.q)) : Tail(r.q)[i] = r.q[i + 1]
    BY <1>0, <2>1, HeadTailProperties
  <2>3. Len(r.q) \in Nat \ {0}
    BY <1>0, <2>1, EmptySeq
  <2>4. QueueOrdered(b, r, g)
    BY <1>2 DEF Flow
  <2> QED
    BY <2>1, <2>2, <2>3, <2>4
<1>3. \A i \in 1 .. Len(b.out) : b.out[i] <= r.pos
  BY <1>1 DEF Flow, OutOrdered, Between
<1>4. /\ Last(b, g) < n /\ n <= q.pos /\ r.pos <= q.pos
      /\ \A j \in 1 .. Len(b.out) : b.out[j] < n
  <2>1. CASE kind = "redis"
    <3>1. 1 \in 1 .. Len(r.q) /\ r.q[1] = n /\ q.pos = r.pos
      BY <1>2, <2>1
    <3>2. Last(b, g) < r.q[1] /\ r.q[1] <= r.pos /\ \A j \in 1 .. Len(b.out) : b.out[j] < r.q[1]
      BY <1>2, <2>1, <3>1 DEF QueueOrdered
    <3> QED
      BY <1>0, <3>1, <3>2
  <2>2. CASE kind = "memory"
    <3>1. n = r.pos + 1 /\ q.pos = r.pos + 1 /\ r.pos \in Nat /\ Last(b, g) <= r.pos
          /\ Last(b, g) \in Nat
      BY <1>0, <2>2 DEF Flow
    <3>2. \A x \in Nat : x <= r.pos => x < n
      BY <3>1
    <3>3. n <= q.pos /\ r.pos <= q.pos
      BY <3>1
    <3> QED
      BY <1>1, <1>3, <3>1, <3>2, <3>3, Zenon
  <2> QED
    BY <2>1, <2>2
<1>5. \A m \in Nat : Between(H, ev, b, r, g, m) => Between(H, ev, d, q, g, m)
  BY <1>0, <1>4 DEF Between
<1>6. \A m \in Nat : m <= r.pos /\ Between(H, ev, d, q, g, m) => Between(H, ev, b, r, g, m)
  BY <1>0 DEF Between
<1>7. OutOrdered(H, ev, d, q, g)
  BY <1>1, <1>5 DEF Flow, OutOrdered
<1>8. HoldOrdered(H, ev, d, q, g)
  <2>1. CASE ev[n].write \in H
    <3>1. Len(d.hold) = 1 /\ d.hold[1] = n
      BY <2>1
    <3>2. Between(H, ev, d, q, g, n)
      BY <1>0, <1>4, <2>1 DEF Between
    <3> QED
      BY <1>4, <3>1, <3>2 DEF HoldOrdered
  <2>2. CASE ev[n].write \notin H
    BY <2>2 DEF HoldOrdered
  <2> QED
    BY <2>1, <2>2
<1>9. ASSUME kind = "redis" PROVE QueueOrdered(d, q, g)
  <2>1. ASSUME NEW i \in 1 .. Len(q.q), q.q[i] # 0
        PROVE  /\ Last(d, g) < q.q[i] /\ q.q[i] <= q.pos
               /\ \A j \in 1 .. Len(d.out) : d.out[j] < q.q[i]
               /\ \A j \in 1 .. Len(d.hold) : d.hold[j] < q.q[i]
               /\ \A j \in 1 .. (i - 1) : q.q[j] < q.q[i]
    <3>1. i + 1 \in 1 .. Len(r.q) /\ q.q[i] = r.q[i + 1] /\ 1 \in 1 .. (i + 1 - 1)
      BY <1>2, <1>9
    <3>2. /\ Last(b, g) < r.q[i + 1] /\ r.q[i + 1] <= r.pos
          /\ \A j \in 1 .. Len(b.out) : b.out[j] < r.q[i + 1]
          /\ \A j \in 1 .. (i + 1 - 1) : r.q[j] < r.q[i + 1]
      BY <1>2, <1>9, <2>1, <3>1 DEF QueueOrdered
    <3>3. n < q.q[i]
      BY <1>2, <1>9, <3>1, <3>2
    <3>4. \A j \in 1 .. Len(d.hold) : d.hold[j] = n
      OBVIOUS
    <3>5. ASSUME NEW j \in 1 .. (i - 1) PROVE q.q[j] < q.q[i]
      <4>1. j + 1 \in 1 .. (i + 1 - 1) /\ j \in 1 .. Len(q.q)
        BY <1>2, <1>9
      <4> QED
        BY <1>2, <1>9, <3>1, <3>2, <4>1
    <3> QED
      BY <1>0, <1>2, <1>9, <3>1, <3>2, <3>3, <3>4, <3>5
  <2> QED
    BY <2>1 DEF QueueOrdered
<1>10. ASSUME kind = "memory" PROVE NoGap(H, ev, d, q, g)
  <2>1. ASSUME NEW m \in Nat, Between(H, ev, d, q, g, m), m <= r.pos PROVE InOut(d, m)
    <3>1. InOut(b, m) \/ InHold(b, m)
      BY <1>6, <1>10, <2>1 DEF Flow, NoGap
    <3>2. ~InHold(b, m)
      BY DEF InHold
    <3> QED
      BY <3>1, <3>2 DEF InOut
  <2>2. ASSUME NEW i \in 1 .. Len(d.out), NEW m \in Nat, Between(H, ev, d, q, g, m), m < d.out[i]
        PROVE  InOut(d, m)
    <3>1. m <= r.pos
      BY <1>0, <1>1, <1>3, <2>2
    <3> QED
      BY <2>1, <2>2, <3>1
  <2>3. ASSUME NEW m \in Nat, Between(H, ev, d, q, g, m) PROVE InOut(d, m) \/ InHold(d, m)
    <3>1. m <= r.pos \/ m = n
      BY <1>0, <1>10, <2>3 DEF Between
    <3>2. CASE m = n
      <4>1. Len(d.hold) = 1 /\ d.hold[1] = m
        BY <2>3, <3>2 DEF Between
      <4> QED
        BY <4>1 DEF InHold
    <3> QED
      BY <2>1, <2>3, <3>1, <3>2
  <2> QED
    BY <2>2, <2>3 DEF NoGap
<1>11. Last(d, g) <= q.pos
  BY <1>0, <1>4
<1> QED
  BY <1>0, <1>7, <1>8, <1>9, <1>10, <1>11 DEF Flow

(* The pump holds the refusal of a signal.                                 *)
LEMMA FlowRefuse ==
    ASSUME NEW H, NEW kind, NEW ev, NEW b \in Sub, NEW d \in Sub, NEW r \in Rx,
           NEW g \in Seq(Nat), Flow(H, kind, ev, b, r, g),
           b.hold = <<>>, d.from = b.from, d.out = b.out, d.pump = b.pump,
           \A j \in 1 .. Len(d.hold) : d.hold[j] = 0
    PROVE  Flow(H, kind, ev, d, r, g)
<1>1. Last(d, g) = Last(b, g) /\ Last(b, g) \in Nat /\ r.q \in Seq(Nat)
  BY DEF Last, Flow, Rx
<1>2. \A m : Between(H, ev, d, r, g, m) <=> Between(H, ev, b, r, g, m)
  BY <1>1 DEF Between
<1>4. \A i \in 1 .. Len(r.q) : r.q[i] \in Nat
  BY <1>1, ElementOfSeq
<1>5. QueueOrdered(b, r, g) => QueueOrdered(d, r, g)
  BY <1>1, <1>4 DEF QueueOrdered
<1>6. HoldOrdered(H, ev, d, r, g)
  BY DEF HoldOrdered
<1>7. OutOrdered(H, ev, d, r, g)
  BY <1>2 DEF OutOrdered, Flow
<1>8. NoGap(H, ev, b, r, g) => NoGap(H, ev, d, r, g)
  <2>1. \A m : InOut(d, m) <=> InOut(b, m)
    BY DEF InOut
  <2>2. \A m : ~InHold(b, m)
    BY DEF InHold
  <2> QED
    BY <1>2, <2>1, <2>2 DEF NoGap
<1> QED
  BY <1>1, <1>5, <1>6, <1>7, <1>8 DEF Flow

(* The task behind a receiver over Redis adds to its queue.                *)
LEMMA FlowTask ==
    ASSUME NEW H, NEW ev, NEW b \in Sub, NEW r \in Rx, NEW q \in Rx,
           NEW g \in Seq(Nat), Flow(H, "redis", ev, b, r, g), q.pos >= r.pos,
           \/ q.q = r.q
           \/ q.q = Append(r.q, 0)
           \/ q.q = Append(r.q, r.pos + 1) /\ q.pos = r.pos + 1
    PROVE  Flow(H, "redis", ev, b, q, g)
<1>0. /\ r.pos \in Nat /\ q.pos \in Nat /\ Last(b, g) \in Nat /\ Last(b, g) <= r.pos
      /\ b.out \in Seq(Nat) /\ b.hold \in Seq(Nat) /\ r.q \in Seq(Nat) /\ Len(r.q) \in Nat
  BY DEF Sub, Rx, Flow
<1>1. /\ \A i \in 1 .. Len(b.out) : b.out[i] \in Nat
      /\ \A i \in 1 .. Len(b.hold) : b.hold[i] \in Nat
      /\ \A i \in 1 .. Len(r.q) : r.q[i] \in Nat
  BY <1>0, ElementOfSeq
<1>2. \A m \in Nat : Between(H, ev, b, r, g, m) => Between(H, ev, b, q, g, m)
  BY <1>0 DEF Between
<1>3. OutOrdered(H, ev, b, q, g)
  BY <1>1, <1>2 DEF Flow, OutOrdered
<1>4. HoldOrdered(H, ev, b, q, g)
  BY <1>1, <1>2 DEF Flow, HoldOrdered
<1>5. ASSUME b.pump = "run" PROVE QueueOrdered(b, q, g)
  <2>1. \A i \in 1 .. Len(r.q) : r.q[i] <= r.pos
    BY <1>0, <1>1, <1>5 DEF Flow, QueueOrdered
  <2>2. \A i \in 1 .. Len(b.out) : b.out[i] <= r.pos
    BY <1>0, <1>1 DEF Flow, OutOrdered, Between
  <2>3. \A i \in 1 .. Len(b.hold) : b.hold[i] <= r.pos
    BY <1>0, <1>1 DEF Flow, HoldOrdered, Between
  <2>4. ASSUME NEW i \in 1 .. Len(r.q), r.q[i] # 0
        PROVE  /\ Last(b, g) < r.q[i] /\ r.q[i] <= q.pos
               /\ \A j \in 1 .. Len(b.out) : b.out[j] < r.q[i]
               /\ \A j \in 1 .. Len(b.hold) : b.hold[j] < r.q[i]
               /\ \A j \in 1 .. (i - 1) : r.q[j] < r.q[i]
    <3>1. /\ Last(b, g) < r.q[i] /\ r.q[i] <= r.pos
          /\ \A j \in 1 .. Len(b.out) : b.out[j] < r.q[i]
          /\ \A j \in 1 .. Len(b.hold) : b.hold[j] < r.q[i]
          /\ \A j \in 1 .. (i - 1) : r.q[j] < r.q[i]
      BY <1>5, <2>4 DEF Flow, QueueOrdered
    <3>2. r.q[i] <= q.pos
      BY <1>0, <1>1, <3>1
    <3> QED
      BY <3>1, <3>2
  <2>5. CASE q.q = r.q
    BY <2>4, <2>5 DEF QueueOrdered
  <2>6. ASSUME NEW x \in Nat, q.q = Append(r.q, x), x = 0 \/ (x = r.pos + 1 /\ q.pos = r.pos + 1)
        PROVE  QueueOrdered(b, q, g)
    <3>1. /\ Len(q.q) = Len(r.q) + 1 /\ q.q[Len(r.q) + 1] = x
          /\ \A i \in 1 .. Len(r.q) : q.q[i] = r.q[i]
      <4>1. /\ Len(Append(r.q, x)) = Len(r.q) + 1 /\ Append(r.q, x)[Len(r.q) + 1] = x
            /\ \A i \in 1 .. Len(r.q) : Append(r.q, x)[i] = r.q[i]
        BY <1>0, AppendProperties
      <4> QED
        BY <2>6, <4>1
    <3>2. ASSUME NEW i \in 1 .. Len(q.q), q.q[i] # 0
          PROVE  /\ Last(b, g) < q.q[i] /\ q.q[i] <= q.pos
                 /\ \A j \in 1 .. Len(b.out) : b.out[j] < q.q[i]
                 /\ \A j \in 1 .. Len(b.hold) : b.hold[j] < q.q[i]
                 /\ \A j \in 1 .. (i - 1) : q.q[j] < q.q[i]
      <4>1. CASE i \in 1 .. Len(r.q)
        <5>1. q.q[i] = r.q[i] /\ \A j \in 1 .. (i - 1) : q.q[j] = r.q[j]
          BY <1>0, <3>1, <4>1
        <5> QED
          BY <2>4, <3>2, <4>1, <5>1
      <4>2. CASE i = Len(r.q) + 1
        <5>1. /\ q.q[i] = r.pos + 1 /\ q.pos = r.pos + 1
              /\ \A j \in 1 .. (i - 1) : j \in 1 .. Len(r.q) /\ q.q[j] = r.q[j]
          BY <1>0, <2>6, <3>1, <3>2, <4>2
        <5>2. \A y \in Nat : y <= r.pos => y < q.q[i]
          BY <1>0, <5>1
        <5>3. Last(b, g) < q.q[i] /\ q.q[i] <= q.pos
          BY <1>0, <5>1
        <5> QED
          BY <1>1, <2>1, <2>2, <2>3, <5>1, <5>2, <5>3
      <4> QED
        BY <1>0, <3>1, <4>1, <4>2
    <3> QED
      BY <3>2 DEF QueueOrdered
  <2> QED
    BY <1>0, <2>5, <2>6
<1>6. Last(b, g) <= q.pos
  BY <1>0
<1> QED
  BY <1>3, <1>4, <1>5, <1>6 DEF Flow

(* The channel grows.                                                      *)
LEMMA FlowGrow ==
    ASSUME NEW H, NEW kind, NEW ev \in Seq(Event), NEW e \in Event, NEW b \in Sub, NEW r \in Rx,
           NEW g \in Seq(Nat), Flow(H, kind, ev, b, r, g), r.pos <= Len(ev)
    PROVE  Flow(H, kind, Append(ev, e), b, r, g)
<1>0. /\ r.pos \in Nat /\ Last(b, g) \in Nat /\ Len(ev) \in Nat
      /\ b.out \in Seq(Nat) /\ b.hold \in Seq(Nat)
  BY DEF Sub, Rx, Flow
<1>1. /\ \A i \in 1 .. Len(b.out) : b.out[i] \in Nat
      /\ \A i \in 1 .. Len(b.hold) : b.hold[i] \in Nat
  BY <1>0, ElementOfSeq
<1>2. \A m \in 1 .. Len(ev) : Append(ev, e)[m] = ev[m]
  BY AppendProperties
<1>3. ASSUME NEW m \in Nat
      PROVE  Between(H, Append(ev, e), b, r, g, m) <=> Between(H, ev, b, r, g, m)
  <2>1. ASSUME Last(b, g) < m, m <= r.pos PROVE m \in 1 .. Len(ev)
    BY <1>0, <2>1
  <2> QED
    BY <1>2, <2>1 DEF Between
<1>4. OutOrdered(H, Append(ev, e), b, r, g)
  BY <1>1, <1>3 DEF Flow, OutOrdered
<1>5. HoldOrdered(H, Append(ev, e), b, r, g)
  BY <1>1, <1>3 DEF Flow, HoldOrdered
<1>6. NoGap(H, ev, b, r, g) => NoGap(H, Append(ev, e), b, r, g)
  BY <1>3 DEF NoGap
<1> QED
  BY <1>4, <1>5, <1>6 DEF Flow

(* A stream opens at the end of its channel.                               *)
LEMMA FlowOpen ==
    ASSUME NEW H, NEW kind, NEW ev, NEW b \in Sub, NEW r \in Rx,
           b.from \in Nat, b.from = r.pos, b.out = <<>>, b.hold = <<>>, r.q = <<>>
    PROVE  Flow(H, kind, ev, b, r, <<>>)
<1>1. Last(b, <<>>) = r.pos /\ r.pos \in Nat
  BY DEF Last, Rx
<1>2. \A m \in Nat : ~Between(H, ev, b, r, <<>>, m)
  BY <1>1 DEF Between
<1>3. Len(b.out) = 0 /\ Len(b.hold) = 0 /\ Len(r.q) = 0
  OBVIOUS
<1> QED
  BY <1>1, <1>2, <1>3 DEF Flow, OutOrdered, HoldOrdered, QueueOrdered, NoGap

-----------------------------------------------------------------------------
\* The steps of a stream.

Inv == SlotInv /\ StreamInv

LEMMA StreamFacts ==
    ASSUME Inv, NEW s \in Streams
    PROVE  /\ LiveTypeOK /\ SlotInv /\ Unopened(s) /\ sub \in [Streams -> Sub] /\ sub[s] \in Sub
           /\ rx \in [Streams -> [Channels -> Rx]] /\ rx[s] \in [Channels -> Rx]
           /\ got \in [Streams -> Seq(Nat)] /\ got[s] \in Seq(Nat)
           /\ "events" \in Channels /\ "signals" \in Channels
           /\ \A c \in Channels : rx[s][c] \in Rx /\ rx[s][c].pos <= Len(chan[c])
                                  /\ Len(rx[s][c].q) <= Capacity[c]
           /\ Len(sub[s].hold) <= 1 /\ Len(sub[s].out) <= OutCapacity
           /\ sub[s].client = "open" =>
                 Flow(Hears[s], transport, chan.events, sub[s], rx[s]["events"], got[s])
  BY DEF Inv, SlotInv, StreamInv, LiveTypeOK, Channels

(* A step of stream s into b, r and g.                                     *)
LEMMA StreamKeep ==
    ASSUME Inv, NEW s \in Streams, NEW b \in Sub, NEW r \in [Channels -> Rx], NEW g \in Seq(Nat),
           sub' = [sub EXCEPT ![s] = b], rx' = [rx EXCEPT ![s] = r], got' = [got EXCEPT ![s] = g],
           UNCHANGED <<transport, tx, sequence, chan, user>>, breaks' \in Nat,
           SlotsMove(HoldsSlot(sub[s]), HoldsSlot(b)),
           Len(b.hold) <= 1, Len(b.out) <= OutCapacity,
           \A c \in Channels : r[c].pos <= Len(chan[c]) /\ Len(r[c].q) <= Capacity[c],
           b.pc # "done" => /\ b.from = -1 /\ g = <<>> /\ b.pump = "off" /\ b.client = "off"
                            /\ b.hold = <<>> /\ b.out = <<>>,
           b.client = "open" => Flow(Hears[s], transport, chan.events, b, r["events"], g)
    PROVE  Inv'
<1>0. SlotInv /\ StreamInv /\ LiveTypeOK
  BY DEF Inv, SlotInv
<1>1. slots' \in Nat /\ SlotsCounted'
  BY <1>0, SlotStep
<1>2. /\ sub \in [Streams -> Sub] /\ rx \in [Streams -> [Channels -> Rx]]
      /\ got \in [Streams -> Seq(Nat)]
  BY <1>0 DEF LiveTypeOK
<1>3. /\ sub' \in [Streams -> Sub] /\ rx' \in [Streams -> [Channels -> Rx]]
      /\ got' \in [Streams -> Seq(Nat)]
      /\ sub'[s] = b /\ rx'[s] = r /\ got'[s] = g
      /\ \A t \in Streams : t # s => sub'[t] = sub[t] /\ rx'[t] = rx[t] /\ got'[t] = got[t]
  BY <1>2
<1>4. LiveTypeOK'
  BY <1>0, <1>1, <1>3 DEF LiveTypeOK
<1>5. ASSUME NEW t \in Streams PROVE Unopened(t)'
  BY <1>0, <1>3 DEF SlotInv, Unopened
<1>6. ASSUME NEW t \in Streams
      PROVE  /\ \A c \in Channels : rx'[t][c].pos <= Len(chan'[c])
             /\ sub'[t].client = "open" =>
                   Flow(Hears[t], transport', chan'.events, sub'[t], rx'[t]["events"], got'[t])
  <2>1. CASE t = s
    BY <1>3, <2>1
  <2>2. CASE t # s
    <3>1. sub'[t] = sub[t] /\ rx'[t] = rx[t] /\ got'[t] = got[t]
      BY <1>3, <2>2
    <3> QED
      BY <1>0, <3>1 DEF StreamInv
  <2> QED
    BY <2>1, <2>2
<1>7. StreamInv'
  BY <1>6 DEF StreamInv
<1> QED
  BY <1>1, <1>4, <1>5, <1>7 DEF Inv, SlotInv

(* A step of s that keeps its connection.                                  *)
LEMMA StreamStays ==
    ASSUME Inv, NEW s \in Streams, NEW b \in Sub, NEW r \in [Channels -> Rx],
           sub' = [sub EXCEPT ![s] = b], rx' = [rx EXCEPT ![s] = r],
           UNCHANGED <<transport, tx, sequence, chan, user, got, slots>>, breaks' \in Nat,
           sub[s].pump = "run", b.pc = sub[s].pc, b.client = sub[s].client,
           Len(b.hold) <= 1, Len(b.out) <= OutCapacity,
           \A c \in Channels : r[c].pos <= Len(chan[c]) /\ Len(r[c].q) <= Capacity[c],
           b.client = "open" => Flow(Hears[s], transport, chan.events, b, r["events"], got[s])
    PROVE  Inv'
<1>1. b.pc = "done" /\ got[s] \in Seq(Nat) /\ got \in [Streams -> Seq(Nat)]
  BY StreamFacts DEF Unopened
<1>2. got' = [got EXCEPT ![s] = got[s]]
  BY <1>1
<1> QED
  BY <1>1, <1>2, StreamKeep DEF SlotsMove, HoldsSlot

(* What recv leaves of a receiver.                                         *)
LEMMA Receive ==
    ASSUME Inv, NEW s \in Streams, NEW c \in Channels, Ready(s, c), Received(s, c)
    PROVE  \E x \in Rx :
              /\ rx' = [rx EXCEPT ![s] = [rx[s] EXCEPT ![c] = x]]
              /\ Recv(s, c) \in Nat
              /\ x.pos >= rx[s][c].pos /\ x.pos <= Len(chan[c]) /\ Len(x.q) <= Capacity[c]
              /\ transport = "redis" => /\ rx[s][c].q # <<>> /\ x.pos = rx[s][c].pos
                                        /\ Recv(s, c) = Head(rx[s][c].q) /\ x.q = Tail(rx[s][c].q)
              /\ transport # "redis" /\ Recv(s, c) # 0 =>
                    Recv(s, c) = rx[s][c].pos + 1 /\ x.pos = rx[s][c].pos + 1
<1> DEFINE o == rx[s][c]
<1>0. /\ o \in Rx /\ o.pos \in Nat /\ o.q \in Seq(Nat) /\ o.pos <= Len(chan[c])
      /\ Len(o.q) <= Capacity[c] /\ Len(chan[c]) \in Nat /\ Capacity[c] \in Nat \ {0}
      /\ rx \in [Streams -> [Channels -> Rx]]
  BY StreamFacts, ChanFacts, LiveAssumption DEF Rx
<1>1. PICK x : /\ rx' = [rx EXCEPT ![s] = [rx[s] EXCEPT ![c] = x]]
               /\ x = IF transport = "redis" THEN [o EXCEPT !.q = Tail(o.q)]
                      ELSE IF Recv(s, c) = 0 THEN [o EXCEPT !.pos = Len(chan[c]) - Capacity[c]]
                      ELSE [o EXCEPT !.pos = o.pos + 1]
  <2>1. PICK x : x = IF transport = "redis" THEN [o EXCEPT !.q = Tail(o.q)]
                     ELSE IF Recv(s, c) = 0 THEN [o EXCEPT !.pos = Len(chan[c]) - Capacity[c]]
                     ELSE [o EXCEPT !.pos = o.pos + 1]
    OBVIOUS
  <2>2. rx' = [rx EXCEPT ![s] = [rx[s] EXCEPT ![c] = x]]
    BY <2>1, Zenon DEF Received, Lagged
  <2> QED
    BY <2>1, <2>2
<1>2. CASE transport = "redis"
  <2>1. o.q # <<>> /\ Recv(s, c) = Head(o.q)
    BY <1>2 DEF Ready, Recv
  <2>2. Head(o.q) \in Nat /\ Tail(o.q) \in Seq(Nat) /\ Len(Tail(o.q)) = Len(o.q) - 1
    BY <1>0, <2>1, HeadTailProperties
  <2>3. x \in Rx /\ x.pos = o.pos /\ x.q = Tail(o.q)
    BY <1>0, <1>1, <1>2, <2>2 DEF Rx
  <2>4. Len(x.q) <= Capacity[c] /\ x.pos >= o.pos
    BY <1>0, <2>2, <2>3
  <2> QED
    BY <1>0, <1>1, <1>2, <2>1, <2>2, <2>3, <2>4, Zenon
<1>3. CASE transport # "redis" /\ Recv(s, c) = 0
  <2>1. Len(chan[c]) - o.pos > Capacity[c]
    BY <1>0, <1>3 DEF Recv, Behind, Lagged
  <2>2. /\ Len(chan[c]) - Capacity[c] \in Nat /\ Len(chan[c]) - Capacity[c] >= o.pos
        /\ Len(chan[c]) - Capacity[c] <= Len(chan[c])
    BY <1>0, <2>1
  <2>3. x \in Rx /\ x.pos = Len(chan[c]) - Capacity[c] /\ x.q = o.q
    BY <1>0, <1>1, <1>3, <2>2 DEF Rx
  <2>4. x.pos >= o.pos /\ x.pos <= Len(chan[c]) /\ Len(x.q) <= Capacity[c] /\ 0 \in Nat
    BY <1>0, <2>2, <2>3
  <2> QED
    BY <1>1, <1>3, <2>3, <2>4, Zenon
<1>4. CASE transport # "redis" /\ Recv(s, c) # 0
  <2>1. Recv(s, c) = o.pos + 1 /\ Len(chan[c]) - o.pos > 0
    BY <1>4 DEF Recv, Lagged, Ready, Behind
  <2>2. o.pos + 1 \in Nat /\ o.pos + 1 <= Len(chan[c]) /\ o.pos + 1 >= o.pos
    BY <1>0, <2>1
  <2>3. x \in Rx /\ x.pos = o.pos + 1 /\ x.q = o.q
    BY <1>0, <1>1, <1>4, <2>2 DEF Rx
  <2>4. x.pos >= o.pos /\ x.pos <= Len(chan[c]) /\ Len(x.q) <= Capacity[c] /\ Recv(s, c) \in Nat
    BY <1>0, <2>1, <2>2, <2>3
  <2> QED
    BY <1>1, <1>4, <2>1, <2>3, <2>4, Zenon
<1> QED
  BY <1>2, <1>3, <1>4

(* A connection takes a place, is resolved or refused.                     *)
LEMMA Connects ==
    ASSUME Inv, NEW s \in Streams, try_acquire_slot(s) \/ Resolve(s) \/ Refuse(s)
    PROVE  Inv' /\ UNCHANGED <<WriteSide, rx, got>> /\ sub'[s].from = sub[s].from
           /\ \A t \in Streams : t # s => sub'[t] = sub[t]
<1>0. sub[s] \in Sub /\ Unopened(s) /\ sub \in [Streams -> Sub] /\ got[s] \in Seq(Nat)
      /\ rx[s] \in [Channels -> Rx]
  BY StreamFacts
<1>1. PICK pc \in {"slot", "resolved", "done"} :
         /\ sub' = [sub EXCEPT ![s].pc = pc] /\ UNCHANGED <<WriteSide, rx, got, breaks>>
         /\ sub[s].pc \in {"idle", "slot"}
         /\ \/ sub[s].pc = "idle" /\ pc = "done" /\ slots' = slots
            \/ sub[s].pc = "slot" /\ pc = "resolved" /\ slots' = slots
            \/ /\ sub[s].pc = "idle" /\ pc = "slot" /\ slots' = slots + 1
               /\ ~(MaxConnections > 0 /\ slots >= MaxConnections)
            \/ sub[s].pc = "slot" /\ pc = "done" /\ slots' = slots - 1
  BY DEF try_acquire_slot, Resolve, Refuse
<1>2. PICK b : b = [sub[s] EXCEPT !.pc = pc]
  OBVIOUS
<1>3. /\ b \in Sub /\ b.pc = pc /\ b.from = sub[s].from /\ b.pump = sub[s].pump
      /\ b.client = sub[s].client /\ b.hold = sub[s].hold /\ b.out = sub[s].out
  BY <1>0, <1>2 DEF Sub
<1>4. sub' = [sub EXCEPT ![s] = b]
  BY <1>0, <1>1, <1>2
<1>5. b.client # "open" /\ sub[s].client # "open" /\ b.hold = <<>> /\ b.out = <<>>
      /\ b.from = -1 /\ got[s] = <<>> /\ b.pump = "off" /\ b.client = "off"
  BY <1>0, <1>1, <1>3 DEF Unopened
<1>6. rx' = [rx EXCEPT ![s] = rx[s]] /\ got' = [got EXCEPT ![s] = got[s]]
  BY <1>1, StreamFacts
<1>7. /\ Len(b.hold) <= 1 /\ Len(b.out) <= OutCapacity
      /\ \A c \in Channels : rx[s][c].pos <= Len(chan[c]) /\ Len(rx[s][c].q) <= Capacity[c]
      /\ UNCHANGED <<transport, tx, sequence, chan, user>> /\ breaks' \in Nat
  BY <1>1, <1>3, StreamFacts DEF WriteSide, LiveTypeOK
<1>8. Inv'
  BY <1>0, <1>1, <1>3, <1>4, <1>5, <1>6, <1>7, StreamKeep DEF SlotsMove, HoldsSlot
<1> QED
  BY <1>0, <1>1, <1>3, <1>4, <1>8

LEMMA Subscribes ==
    ASSUME Inv, NEW s \in Streams, Subscribe(s)
    PROVE  /\ Inv' /\ UNCHANGED <<WriteSide, got>>
           /\ sub[s].from = -1 /\ sub'[s].from = Len(chan.events)
           /\ \A t \in Streams : t # s => sub'[t] = sub[t]
<1>0. /\ sub[s] \in Sub /\ Unopened(s) /\ sub \in [Streams -> Sub] /\ sub[s].pc = "resolved"
      /\ sub[s].hold = <<>> /\ sub[s].out = <<>> /\ got[s] = <<>> /\ sub[s].from = -1
      /\ rx \in [Streams -> [Channels -> Rx]] /\ sub[s].client = "off"
  BY StreamFacts DEF Unopened, Subscribe
<1>1. (\A c \in Channels : Len(chan[c]) \in Nat) /\ Len(chan["events"]) = Len(chan.events)
      /\ Len(chan.events) \in Nat
  BY ChanFacts, StreamFacts
<1> DEFINE n == Len(chan.events)
<1>2. PICK b : b = [sub[s] EXCEPT !.pc = "done", !.pump = "run", !.client = "open", !.from = n]
  OBVIOUS
<1>3. /\ b \in Sub /\ b.pc = "done" /\ b.from = n /\ b.client = "open"
      /\ b.hold = <<>> /\ b.out = <<>>
  BY <1>0, <1>1, <1>2 DEF Sub
<1>4. sub' = [sub EXCEPT ![s] = b]
  BY <1>0, <1>1, <1>2 DEF Subscribe
<1>5. PICK r : r = [c \in Channels |-> [NoRx EXCEPT !.pos = Len(chan[c])]]
  OBVIOUS
<1>6. rx' = [rx EXCEPT ![s] = r]
  BY <1>5 DEF Subscribe
<1>7. ASSUME NEW c \in Channels
      PROVE  r[c] \in Rx /\ r[c].pos = Len(chan[c]) /\ r[c].q = <<>>
  <2>1. r[c] = [NoRx EXCEPT !.pos = Len(chan[c])] /\ Len(chan[c]) \in Nat
    BY <1>1, <1>5
  <2>0. <<>> \in Seq(Nat)
    OBVIOUS
  <2>2. PICK none \in Seq(Nat) : none = <<>>
    BY <2>0, Zenon
  <2>3. r[c] = [pos |-> Len(chan[c]), up |-> FALSE, q |-> none, owed |-> FALSE]
    BY <2>1, <2>2 DEF NoRx
  <2>4. r[c] \in Rx
    <3>1. FALSE \in BOOLEAN
      OBVIOUS
    <3>2. ASSUME NEW k \in Nat
          PROVE  [pos |-> k, up |-> FALSE, q |-> none, owed |-> FALSE] \in Rx
      BY <3>1, Zenon DEF Rx
    <3> QED
      BY <2>1, <2>3, <3>2
  <2>5. r[c].pos = Len(chan[c]) /\ r[c].q = none
    BY <2>3
  <2> QED
    BY <2>2, <2>4, <2>5
<1>8. r \in [Channels -> Rx]
  BY <1>5, <1>7
<1>9. \A c \in Channels : r[c].pos <= Len(chan[c]) /\ Len(r[c].q) <= Capacity[c]
  BY <1>1, <1>7, LiveAssumption
<1>10. Flow(Hears[s], transport, chan.events, b, r["events"], got[s])
  <2>1. "events" \in Channels
    BY DEF Channels
  <2>2. r["events"] \in Rx /\ r["events"].pos = n /\ r["events"].q = <<>>
    BY <1>1, <1>7, <2>1
  <2> QED
    BY <1>0, <1>1, <1>3, <2>2, FlowOpen
<1>11. /\ UNCHANGED <<transport, tx, sequence, chan, user>> /\ breaks' \in Nat
       /\ got' = [got EXCEPT ![s] = got[s]] /\ got[s] \in Seq(Nat) /\ UNCHANGED <<got, slots>>
  BY StreamFacts DEF Subscribe, WriteSide, LiveTypeOK
<1>12. Len(b.hold) <= 1 /\ Len(b.out) <= OutCapacity
  BY <1>3, LiveAssumption
<1>13. Inv'
  BY <1>0, <1>3, <1>4, <1>6, <1>8, <1>9, <1>10, <1>11, <1>12, StreamKeep DEF SlotsMove, HoldsSlot
<1> QED
  BY <1>0, <1>3, <1>4, <1>11, <1>13 DEF WriteSide

(* What the steps of a running stream leave alone.                         *)
Aside(s) ==
    /\ UNCHANGED <<WriteSide, got>> /\ sub'[s].from = sub[s].from
    /\ \A t \in Streams : t # s => sub'[t] = sub[t]

LEMMA HandlesEvent ==
    ASSUME Inv, NEW s \in Streams, handle_event(s)
    PROVE  Inv' /\ Aside(s)
<1>0. /\ sub[s] \in Sub /\ sub \in [Streams -> Sub] /\ rx[s] \in [Channels -> Rx]
      /\ got[s] \in Seq(Nat) /\ Len(sub[s].out) <= OutCapacity /\ "events" \in Channels
      /\ sub[s].client = "open" =>
            Flow(Hears[s], transport, chan.events, sub[s], rx[s]["events"], got[s])
  BY StreamFacts
<1>1. /\ sub[s].pump = "run" /\ sub[s].hold = <<>>
      /\ Ready(s, "events") /\ Received(s, "events")
      /\ UNCHANGED <<transport, tx, sequence, chan, user, got, slots, breaks>>
  BY DEF handle_event, Idle, WriteSide
<1>2. chan["events"] = chan.events
  BY StreamFacts, ChanFacts
<1> DEFINE o == rx[s]["events"]
           n == Recv(s, "events")
<1>3. PICK x \in Rx :
         /\ rx' = [rx EXCEPT ![s] = [rx[s] EXCEPT !["events"] = x]]
         /\ n \in Nat /\ x.pos >= o.pos /\ x.pos <= Len(chan["events"])
         /\ Len(x.q) <= Capacity["events"]
         /\ transport = "redis" => /\ o.q # <<>> /\ x.pos = o.pos
                                   /\ n = Head(o.q) /\ x.q = Tail(o.q)
         /\ transport # "redis" /\ n # 0 => n = o.pos + 1 /\ x.pos = o.pos + 1
  BY <1>0, <1>1, Receive
<1>4. PICK r : r = [rx[s] EXCEPT !["events"] = x]
  OBVIOUS
<1>5. /\ r \in [Channels -> Rx] /\ r["events"] = x /\ rx' = [rx EXCEPT ![s] = r]
      /\ \A c \in Channels : r[c].pos <= Len(chan[c]) /\ Len(r[c].q) <= Capacity[c]
  BY <1>0, <1>3, <1>4, StreamFacts
<1>6. PICK b : b = IF n = 0 THEN [sub[s] EXCEPT !.pump = "end"]
                   ELSE IF process_event(s, n) THEN [sub[s] EXCEPT !.hold = <<n>>] ELSE sub[s]
  OBVIOUS
<1>7. sub' = [sub EXCEPT ![s] = b]
  BY <1>0, <1>6 DEF handle_event, Lagged
<1>8. /\ b \in Sub /\ b.pc = sub[s].pc /\ b.client = sub[s].client /\ b.from = sub[s].from
      /\ b.out = sub[s].out
      /\ n = 0 => b.pump = "end" /\ b.hold = sub[s].hold
      /\ n # 0 => b.pump = "run" /\ b.hold = IF chan.events[n].write \in Hears[s] THEN <<n>> ELSE <<>>
  <2>1. <<n>> \in Seq(Nat)
    BY <1>3
  <2> HIDE DEF n
  <2> QED
    BY <1>0, <1>1, <1>2, <1>6, <2>1 DEF Sub, process_event
<1>9. Len(b.hold) <= 1 /\ Len(b.out) <= OutCapacity
  <2>1. b.hold = <<>> \/ b.hold = <<n>>
    BY <1>1, <1>8
  <2>2. Len(<<>>) <= 1 /\ Len(<<n>>) <= 1
    OBVIOUS
  <2> HIDE DEF n
  <2> QED
    BY <1>0, <1>8, <2>1, <2>2
<1>10. ASSUME sub[s].client = "open"
       PROVE  Flow(Hears[s], transport, chan.events, b, r["events"], got[s])
  <2>0. o \in Rx /\ Flow(Hears[s], transport, chan.events, sub[s], o, got[s])
    BY <1>0, <1>10
  <2>1. CASE n = 0
    BY <1>0, <1>3, <1>5, <1>8, <2>0, <2>1, FlowEnd
  <2>2. CASE n # 0
    <3>1. transport = "redis" \/ transport = "memory"
      BY LiveAssumption, StreamFacts DEF LiveTypeOK
    <3> HIDE DEF o, n
    <3> QED
      BY <1>0, <1>1, <1>3, <1>5, <1>8, <2>0, <2>2, <3>1, FlowTake
  <2> QED
    BY <2>1, <2>2
<1>11. breaks' \in Nat
  BY <1>1, StreamFacts DEF LiveTypeOK
<1>12. Inv'
  BY <1>0, <1>1, <1>5, <1>7, <1>8, <1>9, <1>10, <1>11, StreamStays
<1> QED
  BY <1>0, <1>1, <1>7, <1>8, <1>12 DEF Aside, WriteSide

LEMMA ReceivesSignal ==
    ASSUME Inv, NEW s \in Streams, RecvSignal(s)
    PROVE  Inv' /\ Aside(s)
<1>0. /\ sub[s] \in Sub /\ sub \in [Streams -> Sub] /\ rx[s] \in [Channels -> Rx]
      /\ got[s] \in Seq(Nat) /\ Len(sub[s].out) <= OutCapacity /\ "signals" \in Channels
      /\ "events" \in Channels /\ "events" # "signals"
      /\ sub[s].client = "open" =>
            Flow(Hears[s], transport, chan.events, sub[s], rx[s]["events"], got[s])
  BY StreamFacts
<1>1. /\ sub[s].pump = "run" /\ sub[s].hold = <<>>
      /\ Ready(s, "signals") /\ Received(s, "signals")
      /\ UNCHANGED <<transport, tx, sequence, chan, user, got, slots, breaks>>
  BY DEF RecvSignal, IgnoreSignal, handle_invalidation, handle_invalidation_sse, Idle, WriteSide
<1>3. PICK x \in Rx :
         /\ rx' = [rx EXCEPT ![s] = [rx[s] EXCEPT !["signals"] = x]]
         /\ x.pos <= Len(chan["signals"]) /\ Len(x.q) <= Capacity["signals"]
  BY <1>0, <1>1, Receive
<1>4. PICK r : r = [rx[s] EXCEPT !["signals"] = x]
  OBVIOUS
<1>5. /\ r \in [Channels -> Rx] /\ r["events"] = rx[s]["events"] /\ rx' = [rx EXCEPT ![s] = r]
      /\ \A c \in Channels : r[c].pos <= Len(chan[c]) /\ Len(r[c].q) <= Capacity[c]
  BY <1>0, <1>3, <1>4, StreamFacts
<1>6. PICK b \in {sub[s], [sub[s] EXCEPT !.hold = <<0>>], [sub[s] EXCEPT !.pump = "end"]} :
         sub' = [sub EXCEPT ![s] = b]
  BY <1>0 DEF RecvSignal, IgnoreSignal, handle_invalidation, handle_invalidation_sse, Denied
<1>8. /\ b \in Sub /\ b.pc = sub[s].pc /\ b.client = sub[s].client /\ b.from = sub[s].from
      /\ b.out = sub[s].out /\ (b.hold = <<>> \/ b.hold = <<0>>)
      /\ \/ b = sub[s]
         \/ b.pump = sub[s].pump /\ b.hold = <<0>>
         \/ b.pump = "end" /\ b.hold = sub[s].hold
  <2>1. <<0>> \in Seq(Nat)
    OBVIOUS
  <2> QED
    BY <1>0, <1>1, <1>6, <2>1 DEF Sub
<1>9. Len(b.hold) <= 1 /\ Len(b.out) <= OutCapacity
  <2>1. Len(<<>>) <= 1 /\ Len(<<0>>) <= 1
    OBVIOUS
  <2> QED
    BY <1>0, <1>8, <2>1
<1>10. ASSUME sub[s].client = "open"
       PROVE  Flow(Hears[s], transport, chan.events, b, r["events"], got[s])
  <2>0. /\ r["events"] \in Rx /\ r["events"].pos >= r["events"].pos
        /\ Flow(Hears[s], transport, chan.events, sub[s], r["events"], got[s])
    BY <1>0, <1>5, <1>10 DEF Rx
  <2>1. CASE b = sub[s]
    BY <2>0, <2>1
  <2>2. CASE b.pump = sub[s].pump /\ b.hold = <<0>>
    BY <1>0, <1>1, <1>8, <2>0, <2>2, FlowRefuse
  <2>3. CASE b.pump = "end" /\ b.hold = sub[s].hold
    BY <1>0, <1>8, <2>0, <2>3, FlowEnd
  <2> QED
    BY <1>8, <2>1, <2>2, <2>3
<1>11. breaks' \in Nat
  BY <1>1, StreamFacts DEF LiveTypeOK
<1>12. Inv'
  BY <1>0, <1>1, <1>5, <1>6, <1>8, <1>9, <1>10, <1>11, StreamStays
<1> QED
  BY <1>0, <1>1, <1>6, <1>8, <1>12 DEF Aside, WriteSide

LEMMA Forwards ==
    ASSUME Inv, NEW s \in Streams, forward(s)
    PROVE  Inv' /\ Aside(s)
<1>0. /\ sub[s] \in Sub /\ sub \in [Streams -> Sub] /\ rx[s] \in [Channels -> Rx]
      /\ got[s] \in Seq(Nat) /\ Len(sub[s].out) <= OutCapacity /\ "events" \in Channels
      /\ Len(sub[s].hold) <= 1 /\ sub[s].hold \in Seq(Nat) /\ sub[s].out \in Seq(Nat)
      /\ OutCapacity \in Nat
      /\ sub[s].client = "open" =>
            Flow(Hears[s], transport, chan.events, sub[s], rx[s]["events"], got[s])
  BY StreamFacts, LiveAssumption DEF Sub
<1>1. /\ sub[s].pump = "run" /\ sub[s].hold # <<>>
      /\ UNCHANGED <<transport, tx, sequence, chan, user, got, rx, slots, breaks>>
  BY DEF forward, WriteSide
<1>2. Len(sub[s].hold) = 1 /\ sub[s].hold[1] \in Nat
  <2>1. Len(sub[s].hold) \in Nat /\ Len(sub[s].hold) # 0
    BY <1>0, <1>1, EmptySeq, LenProperties
  <2>2. \A k \in Nat : k <= 1 /\ k # 0 => k = 1
    OBVIOUS
  <2>3. Len(sub[s].hold) = 1
    BY <1>0, <2>1, <2>2, Zenon
  <2> QED
    BY <1>0, <2>3, ElementOfSeq
<1> DEFINE full == sub[s].client = "closed" \/ Len(sub[s].out) >= OutCapacity
           n == sub[s].hold[1]
<1>3. sub[s].hold = <<n>> /\ (sub[s].hold = <<0>> <=> n = 0)
  BY <1>0, <1>2
<1>4. PICK b : b = IF full THEN [sub[s] EXCEPT !.pump = "end", !.hold = <<>>]
                   ELSE [sub[s] EXCEPT !.out = Append(sub[s].out, n), !.hold = <<>>,
                                       !.pump = IF n = 0 THEN "end" ELSE "run"]
  OBVIOUS
<1>5. sub' = [sub EXCEPT ![s] = b]
  <2>1. CASE full
    BY <1>0, <1>4, <2>1 DEF forward
  <2>2. CASE ~full
    <3>1. (IF sub[s].hold = <<Denied>> THEN "end" ELSE sub[s].pump) = (IF n = 0 THEN "end" ELSE "run")
      BY <1>1, <1>3 DEF Denied
    <3> QED
      BY <1>0, <1>4, <2>2, <3>1 DEF forward
  <2> QED
    BY <2>1, <2>2
<1>6. /\ Append(sub[s].out, n) \in Seq(Nat) /\ Len(Append(sub[s].out, n)) = Len(sub[s].out) + 1
      /\ Len(sub[s].out) \in Nat
  BY <1>0, <1>2, AppendProperties
<1>7. PICK none \in Seq(Nat) : none = <<>> /\ Len(none) = 0
  <2>1. <<>> \in Seq(Nat) /\ Len(<<>>) = 0
    OBVIOUS
  <2> QED
    BY <2>1, Zenon
<1>8. /\ b \in Sub /\ b.pc = sub[s].pc /\ b.client = sub[s].client /\ b.from = sub[s].from
      /\ b.hold = none
      /\ full => b.pump = "end" /\ b.out = sub[s].out
      /\ ~full => /\ b.pump = IF n = 0 THEN "end" ELSE "run"
                  /\ b.out = Append(sub[s].out, n)
  <2> HIDE DEF full, n
  <2> QED
    BY <1>0, <1>4, <1>6, <1>7 DEF Sub
<1>9. Len(b.hold) <= 1 /\ Len(b.out) <= OutCapacity
  <2>1. CASE full
    BY <1>0, <1>7, <1>8, <2>1
  <2>2. CASE ~full
    <3>1. Len(sub[s].out) < OutCapacity
      BY <1>0, <1>6, <2>2
    <3> QED
      BY <1>0, <1>6, <1>7, <1>8, <2>2, <3>1
  <2> QED
    BY <2>1, <2>2
<1>10. ASSUME sub[s].client = "open"
       PROVE  Flow(Hears[s], transport, chan.events, b, rx[s]["events"], got[s])
  <2>0. /\ rx[s]["events"] \in Rx /\ rx[s]["events"].pos >= rx[s]["events"].pos
        /\ Flow(Hears[s], transport, chan.events, sub[s], rx[s]["events"], got[s])
    BY <1>0, <1>10 DEF Rx
  <2>1. CASE full
    BY <1>0, <1>7, <1>8, <2>0, <2>1, FlowEnd
  <2>2. CASE ~full
    <3> HIDE DEF full
    <3> QED
      BY <1>0, <1>1, <1>2, <1>7, <1>8, <2>0, <2>2, FlowForward
  <2> QED
    BY <2>1, <2>2
<1>11. /\ breaks' \in Nat /\ rx' = [rx EXCEPT ![s] = rx[s]]
       /\ \A c \in Channels : rx[s][c].pos <= Len(chan[c]) /\ Len(rx[s][c].q) <= Capacity[c]
  BY <1>1, StreamFacts DEF LiveTypeOK
<1>12. Inv'
  BY <1>0, <1>1, <1>5, <1>8, <1>9, <1>10, <1>11, StreamStays
<1> QED
  BY <1>0, <1>1, <1>5, <1>8, <1>12 DEF Aside, WriteSide

LEMMA Hangs ==
    ASSUME Inv, NEW s \in Streams, StreamEnds(s) \/ Disconnect(s)
    PROVE  Inv' /\ Aside(s)
<1>0. /\ sub[s] \in Sub /\ sub \in [Streams -> Sub] /\ rx[s] \in [Channels -> Rx]
      /\ got[s] \in Seq(Nat) /\ Len(sub[s].hold) <= 1 /\ OutCapacity \in Nat
  BY StreamFacts, LiveAssumption
<1>1. /\ sub[s].client = "open" /\ slots' = slots - 1
      /\ UNCHANGED <<transport, tx, sequence, chan, user, got, rx, breaks>>
  BY DEF StreamEnds, Disconnect, WriteSide
<1>2. sub[s].pc = "done"
  BY <1>1, StreamFacts DEF Unopened
<1>3. PICK none \in Seq(Nat) : none = <<>> /\ Len(none) = 0
  <2>1. <<>> \in Seq(Nat) /\ Len(<<>>) = 0
    OBVIOUS
  <2> QED
    BY <2>1, Zenon
<1>4. PICK b : b = [sub[s] EXCEPT !.client = "closed", !.out = none]
  OBVIOUS
<1>5. sub' = [sub EXCEPT ![s] = b]
  <2>1. CASE StreamEnds(s)
    <3>1. sub[s].out = none /\ sub' = [sub EXCEPT ![s] = [sub[s] EXCEPT !.client = "closed"]]
      BY <1>3, <2>1 DEF StreamEnds
    <3>2. b = [sub[s] EXCEPT !.client = "closed"]
      BY <1>0, <1>4, <3>1 DEF Sub
    <3> QED
      BY <3>1, <3>2
  <2>2. CASE Disconnect(s)
    BY <1>0, <1>3, <1>4, <2>2 DEF Disconnect
  <2> QED
    BY <2>1, <2>2
<1>6. /\ b \in Sub /\ b.pc = "done" /\ b.client = "closed" /\ b.from = sub[s].from
      /\ b.hold = sub[s].hold /\ b.out = none
  BY <1>0, <1>2, <1>3, <1>4 DEF Sub
<1>7. /\ breaks' \in Nat /\ rx' = [rx EXCEPT ![s] = rx[s]] /\ got' = [got EXCEPT ![s] = got[s]]
      /\ \A c \in Channels : rx[s][c].pos <= Len(chan[c]) /\ Len(rx[s][c].q) <= Capacity[c]
      /\ Len(b.hold) <= 1 /\ Len(b.out) <= OutCapacity
  BY <1>0, <1>1, <1>3, <1>6, StreamFacts DEF LiveTypeOK
<1>8. Inv'
  BY <1>0, <1>1, <1>5, <1>6, <1>7, StreamKeep DEF SlotsMove, HoldsSlot
<1> QED
  BY <1>0, <1>1, <1>5, <1>6, <1>8 DEF Aside, WriteSide

(* The client reads: what it reads is the next event it hears.             *)
LEMMA Reads ==
    ASSUME Inv, NEW s \in Streams, ClientReads(s)
    PROVE  /\ Inv' /\ UNCHANGED WriteSide /\ sub'[s].from = sub[s].from
           /\ \A t \in Streams : t # s => sub'[t] = sub[t]
           /\ \/ UNCHANGED got
              \/ \E n \in Nat :
                    /\ got' = [got EXCEPT ![s] = Append(got[s], n)]
                    /\ sub[s].from \in Nat /\ Last(sub[s], got[s]) \in Nat
                    /\ Last(sub[s], got[s]) < n /\ n <= Len(chan.events)
                    /\ chan.events[n].write \in Hears[s]
                    /\ transport = "memory" => \A m \in Nat :
                          Last(sub[s], got[s]) < m /\ m < n => chan.events[m].write \notin Hears[s]
<1>0. /\ sub[s] \in Sub /\ sub \in [Streams -> Sub] /\ rx[s] \in [Channels -> Rx]
      /\ got \in [Streams -> Seq(Nat)]
      /\ got[s] \in Seq(Nat) /\ Len(sub[s].out) <= OutCapacity /\ "events" \in Channels
      /\ Len(sub[s].hold) <= 1 /\ sub[s].hold \in Seq(Nat) /\ sub[s].out \in Seq(Nat)
      /\ OutCapacity \in Nat /\ rx[s]["events"] \in Rx
  BY StreamFacts, LiveAssumption DEF Sub
<1> DEFINE n == Head(sub[s].out)
           r == rx[s]["events"]
<1>1. /\ sub[s].client = "open" /\ sub[s].out # <<>>
      /\ sub' = [sub EXCEPT ![s].out = Tail(sub[s].out)]
      /\ got' = IF n = 0 THEN got ELSE [got EXCEPT ![s] = Append(got[s], n)]
      /\ UNCHANGED <<transport, tx, sequence, chan, user, rx, slots, breaks>>
  BY DEF ClientReads, WriteSide, Denied
<1>2. Flow(Hears[s], transport, chan.events, sub[s], r, got[s])
  BY <1>1, StreamFacts
<1>3. /\ n \in Nat /\ Tail(sub[s].out) \in Seq(Nat)
      /\ Len(Tail(sub[s].out)) = Len(sub[s].out) - 1 /\ Len(sub[s].out) \in Nat
  BY <1>0, <1>1, HeadTailProperties
<1>4. PICK b : b = [sub[s] EXCEPT !.out = Tail(sub[s].out)]
  OBVIOUS
<1>5. /\ b \in Sub /\ b.pc = sub[s].pc /\ b.client = sub[s].client /\ b.from = sub[s].from
      /\ b.hold = sub[s].hold /\ b.pump = sub[s].pump /\ b.out = Tail(sub[s].out)
  BY <1>0, <1>3, <1>4 DEF Sub
<1>6. sub' = [sub EXCEPT ![s] = b]
  BY <1>0, <1>1, <1>4
<1>7. PICK g : g = IF n = 0 THEN got[s] ELSE Append(got[s], n)
  OBVIOUS
<1>8. g \in Seq(Nat) /\ got' = [got EXCEPT ![s] = g]
  BY <1>0, <1>1, <1>3, <1>7, AppendProperties
<1>9. Flow(Hears[s], transport, chan.events, b, r, g)
  <2>1. CASE n = 0
    BY <1>0, <1>1, <1>2, <1>5, <1>7, <2>1, FlowDenied
  <2>2. CASE n # 0
    <3>1. g = Append(got[s], Head(sub[s].out)) /\ Head(sub[s].out) # 0
      BY <1>7, <2>2
    <3> HIDE DEF r
    <3>2. r \in Rx
      BY <1>0 DEF r
    <3> QED
      BY <1>0, <1>1, <1>2, <1>5, <1>8, <3>1, <3>2, FlowRead
  <2> QED
    BY <2>1, <2>2
<1>10. /\ breaks' \in Nat /\ rx' = [rx EXCEPT ![s] = rx[s]]
       /\ \A c \in Channels : rx[s][c].pos <= Len(chan[c]) /\ Len(rx[s][c].q) <= Capacity[c]
       /\ Len(b.hold) <= 1 /\ Len(b.out) <= OutCapacity
  BY <1>0, <1>1, <1>3, <1>5, StreamFacts DEF LiveTypeOK
<1>11. b.pc = "done"
  BY <1>1, <1>5, StreamFacts DEF Unopened
<1>12. Inv'
  <2>1. /\ slots' = slots
        /\ (sub[s].pc \in {"slot", "resolved"} \/ sub[s].client = "open")
              <=> (b.pc \in {"slot", "resolved"} \/ b.client = "open")
        /\ UNCHANGED <<transport, tx, sequence, chan, user>>
    BY <1>1, <1>5
  <2> QED
    BY <1>0, <1>5, <1>6, <1>8, <1>9, <1>10, <1>11, <2>1, StreamKeep DEF SlotsMove, HoldsSlot
<1>13. ASSUME n # 0
       PROVE  /\ sub[s].from \in Nat /\ Last(sub[s], got[s]) \in Nat
              /\ Last(sub[s], got[s]) < n /\ n <= Len(chan.events)
              /\ chan.events[n].write \in Hears[s]
              /\ transport = "memory" => \A m \in Nat :
                    Last(sub[s], got[s]) < m /\ m < n => chan.events[m].write \notin Hears[s]
  <2>1. /\ Between(Hears[s], chan.events, sub[s], r, got[s], n)
        /\ transport = "memory" => \A m \in Nat :
              Between(Hears[s], chan.events, sub[s], r, got[s], m) => ~(m < n)
    <3>1. g = Append(got[s], Head(sub[s].out)) /\ Head(sub[s].out) # 0
      BY <1>7, <1>13
    <3> HIDE DEF r
    <3>2. r \in Rx
      BY <1>0 DEF r
    <3>3. /\ sub[s] \in Sub /\ got[s] \in Seq(Nat) /\ sub[s].out # <<>>
          /\ b \in Sub /\ b.from = sub[s].from /\ b.out = Tail(sub[s].out)
          /\ b.hold = sub[s].hold /\ b.pump = sub[s].pump /\ g \in Seq(Nat)
      BY <1>0, <1>1, <1>5, <1>8
    <3>4. /\ Between(Hears[s], chan.events, sub[s], r, got[s], Head(sub[s].out))
          /\ transport = "memory" => \A m \in Nat :
                Between(Hears[s], chan.events, sub[s], r, got[s], m) => ~(m < Head(sub[s].out))
      <4>1. PICK H, kind, ev, b0, g0 : /\ H = Hears[s] /\ kind = transport /\ ev = chan.events
                                       /\ b0 = sub[s] /\ g0 = got[s]
        OBVIOUS
      <4>2. /\ Between(H, ev, b0, r, g0, Head(b0.out))
            /\ kind = "memory" => \A m \in Nat : Between(H, ev, b0, r, g0, m) => ~(m < Head(b0.out))
        <5>1. /\ b0 \in Sub /\ b \in Sub /\ r \in Rx /\ g0 \in Seq(Nat) /\ g \in Seq(Nat)
              /\ Flow(H, kind, ev, b0, r, g0) /\ b0.out # <<>> /\ Head(b0.out) # 0
              /\ g = Append(g0, Head(b0.out)) /\ b.from = b0.from /\ b.out = Tail(b0.out)
              /\ b.hold = b0.hold /\ b.pump = b0.pump
          BY <1>2, <3>1, <3>2, <3>3, <4>1
        <5> QED
          BY <5>1, FlowRead, Zenon
      <4> QED
        BY <4>1, <4>2
    <3> QED
      BY <3>4
  <2>2. r.pos \in Nat /\ r.pos <= Len(chan.events) /\ Len(chan.events) \in Nat
    BY <1>0, StreamFacts, ChanFacts DEF Rx
  <2>3. sub[s].from \in Nat /\ Last(sub[s], got[s]) \in Nat
    BY <1>2 DEF Flow
  <2>4. Last(sub[s], got[s]) < n /\ n <= r.pos /\ chan.events[n].write \in Hears[s]
    BY <2>1 DEF Between
  <2>5. n <= Len(chan.events)
    BY <1>3, <2>2, <2>4
  <2>6. ASSUME transport = "memory", NEW m \in Nat, Last(sub[s], got[s]) < m, m < n
        PROVE  chan.events[m].write \notin Hears[s]
    <3>1. m <= r.pos
      BY <1>3, <2>2, <2>4, <2>6
    <3>2. ~Between(Hears[s], chan.events, sub[s], r, got[s], m)
      BY <2>1, <2>6
    <3> QED
      BY <2>6, <3>1, <3>2 DEF Between
  <2> QED
    BY <2>3, <2>4, <2>5, <2>6
<1> QED
  BY <1>0, <1>1, <1>3, <1>5, <1>6, <1>12, <1>13 DEF WriteSide

(* The task behind a receiver.                                             *)
LEMMA Tasks ==
    ASSUME Inv, NEW s \in Streams, NEW c \in Channels, RedisTask(s, c)
    PROVE  Inv' /\ UNCHANGED <<WriteSide, got, sub>>
<1> DEFINE o == rx[s][c]
<1>0. /\ sub[s] \in Sub /\ sub \in [Streams -> Sub] /\ rx[s] \in [Channels -> Rx]
      /\ rx \in [Streams -> [Channels -> Rx]]
      /\ got[s] \in Seq(Nat) /\ Len(sub[s].out) <= OutCapacity /\ "events" \in Channels
      /\ Len(sub[s].hold) <= 1 /\ o \in Rx /\ o.pos <= Len(chan[c]) /\ Len(o.q) <= Capacity[c]
      /\ o.q \in Seq(Nat) /\ Len(o.q) \in Nat /\ o.pos \in Nat /\ Capacity[c] \in Nat
      /\ Len(chan[c]) \in Nat
  BY StreamFacts, ChanFacts, LiveAssumption DEF Rx
<1>1. /\ transport = "redis" /\ sub[s].pump = "run"
      /\ UNCHANGED <<transport, tx, sequence, chan, user, got, sub, slots>> /\ breaks' \in Nat
  <2>1. breaks \in Nat
    BY StreamFacts DEF LiveTypeOK
  <2> QED
    BY <2>1 DEF RedisTask, connect_pubsub, Break, try_forward, SendLagged, Task, WriteSide
<1>2. \E x \in Rx :
         /\ rx' = [rx EXCEPT ![s] = [rx[s] EXCEPT ![c] = x]]
         /\ x.pos >= o.pos /\ x.pos <= Len(chan[c]) /\ Len(x.q) <= Capacity[c]
         /\ \/ x.q = o.q
            \/ x.q = Append(o.q, 0)
            \/ x.q = Append(o.q, o.pos + 1) /\ x.pos = o.pos + 1
  <2>0. /\ Append(o.q, 0) \in Seq(Nat) /\ Len(Append(o.q, 0)) = Len(o.q) + 1
        /\ Append(o.q, o.pos + 1) \in Seq(Nat) /\ Len(Append(o.q, o.pos + 1)) = Len(o.q) + 1
    BY <1>0, AppendProperties
  <2>1. CASE connect_pubsub(s, c)
    <3>1. PICK x : x = [o EXCEPT !.up = TRUE, !.pos = Len(chan[c])]
      OBVIOUS
    <3>2. x \in Rx /\ x.pos = Len(chan[c]) /\ x.q = o.q
      BY <1>0, <3>1 DEF Rx
    <3>3. rx' = [rx EXCEPT ![s] = [rx[s] EXCEPT ![c] = x]]
      BY <1>0, <2>1, <3>1 DEF connect_pubsub
    <3>4. x.pos >= o.pos /\ x.pos <= Len(chan[c]) /\ Len(x.q) <= Capacity[c]
      BY <1>0, <3>2
    <3> QED
      BY <3>2, <3>3, <3>4, Zenon
  <2>2. CASE Break(s, c)
    <3>1. PICK x : x = [o EXCEPT !.up = FALSE]
      OBVIOUS
    <3>2. x \in Rx /\ x.pos = o.pos /\ x.q = o.q
      BY <1>0, <3>1 DEF Rx
    <3>3. rx' = [rx EXCEPT ![s] = [rx[s] EXCEPT ![c] = x]]
      BY <1>0, <2>2, <3>1 DEF Break
    <3>4. x.pos >= o.pos /\ x.pos <= Len(chan[c]) /\ Len(x.q) <= Capacity[c]
      BY <1>0, <3>2
    <3> QED
      BY <3>2, <3>3, <3>4, Zenon
  <2>3. CASE try_forward(s, c)
    <3>1. o.pos + 1 \in Nat /\ o.pos + 1 <= Len(chan[c]) /\ o.pos + 1 >= o.pos
      BY <1>0, <2>3 DEF try_forward, Behind
    <3>2. CASE Len(o.q) < Capacity[c]
      <4>1. PICK x : x = [o EXCEPT !.pos = o.pos + 1, !.q = Append(o.q, o.pos + 1)]
        OBVIOUS
      <4>2. x \in Rx /\ x.pos = o.pos + 1 /\ x.q = Append(o.q, o.pos + 1)
        BY <1>0, <2>0, <3>1, <4>1 DEF Rx
      <4>3. rx' = [rx EXCEPT ![s] = [rx[s] EXCEPT ![c] = x]]
        BY <1>0, <2>3, <3>2, <4>1 DEF try_forward
      <4>4. Len(x.q) <= Capacity[c]
        BY <1>0, <2>0, <3>2, <4>2
      <4> QED
        BY <3>1, <4>2, <4>3, <4>4
    <3>3. CASE ~(Len(o.q) < Capacity[c])
      <4>1. PICK x : x = [o EXCEPT !.pos = o.pos + 1, !.owed = TRUE]
        OBVIOUS
      <4>2. x \in Rx /\ x.pos = o.pos + 1 /\ x.q = o.q
        BY <1>0, <3>1, <4>1 DEF Rx
      <4>3. rx' = [rx EXCEPT ![s] = [rx[s] EXCEPT ![c] = x]]
        BY <1>0, <2>3, <3>3, <4>1 DEF try_forward
      <4> QED
        BY <1>0, <3>1, <4>2, <4>3
    <3> QED
      BY <3>2, <3>3
  <2>4. CASE SendLagged(s, c)
    <3>1. PICK y : y = IF Len(o.q) < Capacity[c] THEN Append(o.q, 0) ELSE o.q
      OBVIOUS
    <3>2. y \in Seq(Nat) /\ Len(y) <= Capacity[c] /\ (y = o.q \/ y = Append(o.q, 0))
      BY <1>0, <2>0, <3>1
    <3>3. PICK x : x = [o EXCEPT !.owed = FALSE, !.q = y]
      OBVIOUS
    <3>4. x \in Rx /\ x.pos = o.pos /\ x.q = y
      BY <1>0, <3>2, <3>3 DEF Rx
    <3>5. rx' = [rx EXCEPT ![s] = [rx[s] EXCEPT ![c] = x]]
      BY <1>0, <2>4, <3>1, <3>3, Zenon DEF SendLagged, Lagged
    <3>6. x.pos >= o.pos /\ x.pos <= Len(chan[c]) /\ Len(x.q) <= Capacity[c]
      BY <1>0, <3>2, <3>4
    <3> QED
      BY <3>2, <3>4, <3>5, <3>6, Zenon
  <2> QED
    BY <2>1, <2>2, <2>3, <2>4 DEF RedisTask
<1>3. PICK x \in Rx :
         /\ rx' = [rx EXCEPT ![s] = [rx[s] EXCEPT ![c] = x]]
         /\ x.pos >= o.pos /\ x.pos <= Len(chan[c]) /\ Len(x.q) <= Capacity[c]
         /\ \/ x.q = o.q
            \/ x.q = Append(o.q, 0)
            \/ x.q = Append(o.q, o.pos + 1) /\ x.pos = o.pos + 1
  BY <1>2
<1>4. PICK r : r = [rx[s] EXCEPT ![c] = x]
  OBVIOUS
<1>5. /\ r \in [Channels -> Rx] /\ rx' = [rx EXCEPT ![s] = r]
      /\ r["events"] = IF c = "events" THEN x ELSE rx[s]["events"]
      /\ \A k \in Channels : r[k].pos <= Len(chan[k]) /\ Len(r[k].q) <= Capacity[k]
  BY <1>0, <1>3, <1>4, StreamFacts
<1>6. ASSUME sub[s].client = "open"
      PROVE  Flow(Hears[s], transport, chan.events, sub[s], r["events"], got[s])
  <2>1. Flow(Hears[s], "redis", chan.events, sub[s], rx[s]["events"], got[s])
    BY <1>1, <1>6, StreamFacts
  <2>2. CASE c = "events"
    BY <1>0, <1>1, <1>3, <1>5, <2>1, <2>2, FlowTask
  <2>3. CASE c # "events"
    BY <1>1, <1>5, <2>1, <2>3
  <2> QED
    BY <2>2, <2>3
<1>7. sub' = [sub EXCEPT ![s] = sub[s]]
  BY <1>0, <1>1
<1>8. Inv'
  BY <1>0, <1>1, <1>5, <1>6, <1>7, StreamStays
<1> QED
  BY <1>1, <1>8 DEF WriteSide

-----------------------------------------------------------------------------
\* The steps of writes and accounts.

(* A step that only adds to the channels.                                  *)
LEMMA Grows ==
    ASSUME Inv, LiveTypeOK', UNCHANGED <<transport, slots, sub, rx, got>>,
           \/ chan'.events = chan.events
           \/ \E e \in Event : chan'.events = Append(chan.events, e),
           Len(chan'.signals) >= Len(chan.signals)
    PROVE  Inv'
<1>1. SlotInv'
  BY DEF Inv, SlotInv, SlotsCounted, Holding, Unopened
<1>2. ASSUME NEW s \in Streams
      PROVE  /\ \A c \in Channels : rx'[s][c].pos <= Len(chan'[c])
             /\ sub'[s].client = "open" =>
                   Flow(Hears[s], transport', chan'.events, sub'[s], rx'[s]["events"], got'[s])
  <2>0. /\ chan["events"] = chan.events /\ chan["signals"] = chan.signals
        /\ chan.events \in Seq(Event) /\ \A c \in Channels : Len(chan[c]) \in Nat
        /\ Len(chan.events) \in Nat /\ Len(chan.signals) \in Nat
    BY StreamFacts, ChanFacts
  <2>1. chan'["events"] = chan'.events /\ chan'["signals"] = chan'.signals
        /\ Len(chan'.signals) \in Nat
    BY DEF LiveTypeOK
  <2>2. Len(chan'.events) \in Nat /\ Len(chan'.events) >= Len(chan.events)
    <3>1. CASE chan'.events = chan.events
      BY <2>0, <3>1
    <3>2. ASSUME NEW e \in Event, chan'.events = Append(chan.events, e)
          PROVE  Len(chan'.events) \in Nat /\ Len(chan'.events) >= Len(chan.events)
      <4>1. Len(Append(chan.events, e)) = Len(chan.events) + 1
        BY <2>0, AppendProperties
      <4> QED
        BY <2>0, <3>2, <4>1
    <3> QED
      BY <3>1, <3>2
  <2>3. /\ rx[s]["events"] \in Rx /\ rx[s]["events"].pos <= Len(chan.events)
        /\ rx[s]["events"].pos \in Nat
        /\ rx[s]["signals"].pos <= Len(chan.signals) /\ rx[s]["signals"].pos \in Nat
    BY <2>0, StreamFacts DEF Rx
  <2>4. \A c \in Channels : rx'[s][c].pos <= Len(chan'[c])
    BY <2>0, <2>1, <2>2, <2>3 DEF Channels
  <2>5. ASSUME sub[s].client = "open"
        PROVE  Flow(Hears[s], transport, chan'.events, sub[s], rx[s]["events"], got[s])
    <3>1. Flow(Hears[s], transport, chan.events, sub[s], rx[s]["events"], got[s])
          /\ sub[s] \in Sub /\ got[s] \in Seq(Nat)
      BY <2>5, StreamFacts
    <3> QED
      BY <2>0, <2>3, <3>1, FlowGrow
  <2> QED
    BY <2>4, <2>5
<1> QED
  BY <1>1, <1>2 DEF Inv, StreamInv

LEMMA WritesKeep ==
    ASSUME Inv, NEW w \in Writers, Write(w)
    PROVE  Inv'
<1>0. LiveTypeOK /\ LiveTypeOK' /\ UNCHANGED <<slots, sub, rx, got>>
  BY WriteTypes DEF Inv, SlotInv
<1>1. UNCHANGED transport
  BY DEF Write, Begin, publish_mutation_event, Commit, Rollback, Suppress, stamp_event, Send,
         PublishFails
<1>2. Len(chan.signals) \in Nat /\ chan \in [events : Seq(Event), signals : Seq(Users)]
  BY <1>0, ChanFacts DEF LiveTypeOK
<1>3. CASE Send(w)
  <2>1. PICK e : e = [write |-> w, event |-> tx[w].next, sequence |-> tx[w].stamp]
    OBVIOUS
  <2>2. e \in Event
    BY <1>0, <1>3, <2>1 DEF LiveTypeOK, Send, Tx, Event
  <2>3. chan' = [chan EXCEPT !["events"] = Append(chan["events"], e)]
    BY <1>3, <2>1 DEF Send
  <2>4. chan'.events = Append(chan.events, e) /\ chan'.signals = chan.signals
    BY <1>2, <2>3
  <2> QED
    BY <1>0, <1>1, <1>2, <2>2, <2>4, Grows
<1>4. CASE ~Send(w)
  <2>1. UNCHANGED chan
    BY <1>4 DEF Write, Begin, publish_mutation_event, Commit, Rollback, Suppress, stamp_event,
         PublishFails
  <2>2. chan'.events = chan.events /\ Len(chan'.signals) >= Len(chan.signals)
    BY <1>2, <2>1
  <2> QED
    BY <1>0, <1>1, <2>2, Grows
<1> QED
  BY <1>3, <1>4

(* Every event in the channel is of a committed write, comes before what   *)
(* the write publishes next and bears a sequence of its own.               *)
LEMMA WritesStamp ==
    ASSUME LiveTypeOK, WriteInv, NEW w \in Writers, Write(w)
    PROVE  WriteInv'
<1> DEFINE ev == chan.events
<1>0. /\ tx \in [Writers -> Tx] /\ tx[w] \in Tx /\ sequence \in Nat \ {0} /\ ev \in Seq(Event)
      /\ MaxNested[w] \in Nat
      /\ chan \in [events : Seq(Event), signals : Seq(Users)]
  BY ChanFacts, LiveAssumption DEF LiveTypeOK
<1>1. \A v \in Writers : tx[v].stamp \in Nat /\ tx[v].next \in Nat /\ tx[v].nested \in Nat
  BY <1>0 DEF Tx
<1>a. tx[w].next + 1 \in Nat /\ tx[w].nested + 1 \in Nat
  BY <1>1
<1>2. DOMAIN ev = 1 .. Len(ev) /\ Len(ev) \in Nat
  BY <1>0
<1>3. ASSUME NEW n \in DOMAIN ev
      PROVE  /\ ev[n].write \in Writers /\ ev[n].event \in Nat /\ ev[n].sequence \in Nat \ {0}
             /\ tx[ev[n].write].pc = "publish" /\ ev[n].event < tx[ev[n].write].next
             /\ ev[n].sequence < sequence
  <2>1. ev[n] \in Event
    BY <1>0, <1>2, <1>3, ElementOfSeq
  <2> QED
    BY <1>3, <2>1 DEF WriteInv, Published, Event
<1>4. \A v \in Writers :
         /\ tx[v].stamp < sequence /\ tx[v].nested <= MaxNested[v]
         /\ tx[v].stamp > 0 => /\ \A n \in DOMAIN ev : ev[n].sequence # tx[v].stamp
                               /\ \A x \in Writers \ {v} : tx[x].stamp # tx[v].stamp
  BY DEF WriteInv, Stamped
<1> HIDE DEF ev
\* A step that leaves the channel and the generator alone.
<1>5. ASSUME UNCHANGED <<chan, sequence>>, NEW t \in Tx, tx' = [tx EXCEPT ![w] = t],
             tx[w].pc = "publish" => t.pc = "publish" /\ t.next >= tx[w].next,
             t.nested <= MaxNested[w], t.stamp = 0 \/ t.stamp = tx[w].stamp
      PROVE  WriteInv'
  <2>0. tx'[w] = t /\ (\A v \in Writers : v # w => tx'[v] = tx[v]) /\ t.next \in Nat /\ t.stamp \in Nat
    BY <1>0, <1>5 DEF Tx
  <2>1. ASSUME NEW n \in DOMAIN ev
        PROVE  tx'[ev[n].write].pc = "publish" /\ ev[n].event < tx'[ev[n].write].next
    <3>1. CASE ev[n].write = w
      BY <1>1, <1>3, <1>5, <2>0, <2>1, <3>1
    <3>2. CASE ev[n].write # w
      BY <1>3, <2>0, <2>1, <3>2
    <3> QED
      BY <3>1, <3>2
  <2>2. ASSUME NEW v \in Writers
        PROVE  /\ tx'[v].stamp < sequence /\ tx'[v].nested <= MaxNested[v]
               /\ tx'[v].stamp > 0 => /\ \A n \in DOMAIN ev : ev[n].sequence # tx'[v].stamp
                                      /\ \A x \in Writers \ {v} : tx'[x].stamp # tx'[v].stamp
    <3>1. \A x \in Writers : tx'[x].stamp = tx[x].stamp \/ tx'[x].stamp = 0
      BY <1>5, <2>0
    <3>2. tx'[v].nested <= MaxNested[v]
      BY <1>4, <1>5, <2>0, <2>2
    <3>3. tx'[v].stamp < sequence
      BY <1>0, <1>4, <2>2, <3>1
    <3>4. ASSUME tx'[v].stamp > 0 PROVE tx'[v].stamp = tx[v].stamp /\ tx[v].stamp > 0
      BY <2>2, <3>1, <3>4
    <3> QED
      BY <1>1, <1>4, <2>2, <3>1, <3>2, <3>3, <3>4
  <2>3. chan'.events = ev /\ sequence' = sequence
    BY <1>5 DEF ev
  <2> QED
    BY <1>3, <2>1, <2>2, <2>3 DEF WriteInv, Published, Stamped
<1>6. CASE Begin(w) \/ Commit(w) \/ Rollback(w)
  <2>1. PICK pc \in {"open", "publish", "rolled_back"} : tx' = [tx EXCEPT ![w].pc = pc]
    BY <1>6 DEF Begin, Commit, Rollback
  <2>2. PICK t : t = [tx[w] EXCEPT !.pc = pc]
    OBVIOUS
  <2>3. t \in Tx /\ t.nested = tx[w].nested /\ t.stamp = tx[w].stamp
    BY <1>0, <2>2 DEF Tx
  <2>4. tx' = [tx EXCEPT ![w] = t] /\ UNCHANGED <<sequence, chan>> /\ tx[w].pc # "publish"
    BY <1>0, <1>6, <2>1, <2>2 DEF Begin, Commit, Rollback
  <2>5. t.nested <= MaxNested[w]
    BY <1>4, <2>3
  <2> QED
    BY <1>5, <2>3, <2>4, <2>5
<1>7. CASE publish_mutation_event(w)
  <2>1. PICK t : t = [tx[w] EXCEPT !.nested = tx[w].nested + 1]
    OBVIOUS
  <2>2. t \in Tx /\ t.nested = tx[w].nested + 1 /\ t.stamp = tx[w].stamp
    BY <1>0, <1>a, <2>1 DEF Tx
  <2>3. tx' = [tx EXCEPT ![w] = t] /\ UNCHANGED <<sequence, chan>> /\ tx[w].pc # "publish"
        /\ tx[w].nested < MaxNested[w]
    BY <1>0, <1>7, <2>1 DEF publish_mutation_event
  <2>4. t.nested <= MaxNested[w]
    BY <1>0, <1>1, <2>2, <2>3
  <2> QED
    BY <1>5, <2>2, <2>3, <2>4
<1>8. CASE Suppress(w) \/ PublishFails(w)
  <2>1. PICK t : t = [tx[w] EXCEPT !.next = tx[w].next + 1, !.stamp = 0]
    OBVIOUS
  <2>2. t \in Tx /\ t.nested = tx[w].nested /\ t.stamp = 0 /\ t.next = tx[w].next + 1
        /\ t.pc = tx[w].pc
    BY <1>0, <1>a, <2>1 DEF Tx
  <2>3. tx' = [tx EXCEPT ![w] = t] /\ UNCHANGED <<sequence, chan>>
    <3>1. CASE PublishFails(w)
      BY <1>0, <2>1, <3>1 DEF PublishFails
    <3>2. CASE Suppress(w)
      <4>1. t = [tx[w] EXCEPT !.next = tx[w].next + 1]
        BY <1>0, <2>1, <3>2 DEF Suppress, Tx
      <4> QED
        BY <1>0, <3>2, <4>1 DEF Suppress
    <3> QED
      BY <1>8, <3>1, <3>2
  <2>4. t.nested <= MaxNested[w] /\ t.next >= tx[w].next
    BY <1>1, <1>4, <2>2
  <2> QED
    BY <1>5, <2>2, <2>3, <2>4
<1>9. CASE stamp_event(w)
  <2>1. /\ tx'[w] = [tx[w] EXCEPT !.stamp = sequence] /\ \A v \in Writers : v # w => tx'[v] = tx[v]
        /\ sequence' = sequence + 1 /\ chan' = chan
    BY <1>0, <1>9 DEF stamp_event
  <2>2. \A v \in Writers :
           /\ tx'[v].stamp = (IF v = w THEN sequence ELSE tx[v].stamp)
           /\ tx'[v].nested = tx[v].nested /\ tx'[v].next = tx[v].next
           /\ tx'[v].pc = tx[v].pc
    BY <1>0, <2>1 DEF Tx
  <2>3. ASSUME NEW n \in DOMAIN ev
        PROVE  /\ tx'[ev[n].write].pc = "publish" /\ ev[n].event < tx'[ev[n].write].next
               /\ ev[n].sequence < sequence' /\ ev[n].sequence # sequence
    BY <1>0, <1>3, <2>1, <2>2, <2>3
  <2>4. ASSUME NEW v \in Writers
        PROVE  /\ tx'[v].stamp < sequence' /\ tx'[v].nested <= MaxNested[v]
               /\ tx'[v].stamp > 0 => /\ \A n \in DOMAIN ev : ev[n].sequence # tx'[v].stamp
                                      /\ \A x \in Writers \ {v} : tx'[x].stamp # tx'[v].stamp
    <3>0. \A x \in Writers : tx[x].stamp < sequence /\ tx[x].stamp # sequence
      BY <1>0, <1>1, <1>4
    <3>1. tx'[v].stamp < sequence' /\ tx'[v].nested <= MaxNested[v]
      BY <1>0, <1>1, <1>4, <2>1, <2>2, <2>4
    <3>2. CASE v = w
      BY <2>2, <2>3, <3>0, <3>1, <3>2
    <3>3. CASE v # w
      BY <1>4, <2>2, <2>4, <3>0, <3>1, <3>3
    <3> QED
      BY <3>2, <3>3
  <2>5. chan'.events = ev
    BY <2>1 DEF ev
  <2> QED
    BY <2>3, <2>4, <2>5 DEF WriteInv, Published, Stamped
<1>10. CASE Send(w)
  <2>0. PICK e : e = [write |-> w, event |-> tx[w].next, sequence |-> tx[w].stamp]
    OBVIOUS
  <2>1. /\ tx'[w] = [tx[w] EXCEPT !.next = tx[w].next + 1, !.stamp = 0]
        /\ \A v \in Writers : v # w => tx'[v] = tx[v]
        /\ sequence' = sequence /\ tx[w].stamp > 0 /\ tx[w].pc = "publish"
    BY <1>0, <1>10 DEF Send, Pending
  <2>2. /\ e \in Event /\ e.write = w /\ e.event = tx[w].next /\ e.sequence = tx[w].stamp
    BY <1>0, <1>1, <2>0, <2>1 DEF Event
  <2>3. chan'.events = Append(ev, e)
    <3>1. chan' = [chan EXCEPT !["events"] = Append(chan["events"], e)]
      BY <1>10, <2>0 DEF Send
    <3> QED
      BY <1>0, <3>1 DEF ev
  <2>4. /\ DOMAIN chan'.events = 1 .. (Len(ev) + 1) /\ chan'.events[Len(ev) + 1] = e
        /\ \A n \in DOMAIN ev : chan'.events[n] = ev[n]
    BY <1>0, <1>2, <2>2, <2>3, AppendProperties
  <2>5. \A v \in Writers :
           /\ tx'[v].stamp = (IF v = w THEN 0 ELSE tx[v].stamp)
           /\ tx'[v].nested = tx[v].nested
           /\ tx'[v].next = (IF v = w THEN tx[v].next + 1 ELSE tx[v].next)
           /\ tx'[v].pc = tx[v].pc
    BY <1>0, <2>1 DEF Tx
  <2>6. ASSUME NEW n \in DOMAIN chan'.events
        PROVE  /\ tx'[chan'.events[n].write].pc = "publish"
               /\ chan'.events[n].event < tx'[chan'.events[n].write].next
               /\ chan'.events[n].sequence < sequence'
    <3>1. CASE n \in DOMAIN ev
      <4>1. chan'.events[n] = ev[n]
        BY <2>4, <3>1
      <4>2. ev[n].event < tx'[ev[n].write].next
        BY <1>1, <1>3, <2>5, <3>1
      <4>3. tx'[ev[n].write].pc = "publish" /\ ev[n].sequence < sequence'
        BY <1>3, <2>1, <2>5, <3>1
      <4> QED
        BY <4>1, <4>2, <4>3
    <3>2. CASE n = Len(ev) + 1
      <4>1. chan'.events[n] = e
        BY <2>4, <3>2
      <4>2. tx[w].next < tx'[w].next /\ tx'[w].pc = "publish" /\ tx[w].stamp < sequence'
        BY <1>1, <1>4, <2>1, <2>5
      <4> QED
        BY <2>2, <4>1, <4>2
    <3> QED
      BY <1>2, <2>4, <2>6, <3>1, <3>2
  <2>7. ASSUME NEW v \in Writers
        PROVE  /\ tx'[v].stamp < sequence' /\ tx'[v].nested <= MaxNested[v]
               /\ tx'[v].stamp > 0 =>
                     /\ \A n \in DOMAIN chan'.events : chan'.events[n].sequence # tx'[v].stamp
                     /\ \A x \in Writers \ {v} : tx'[x].stamp # tx'[v].stamp
    <3>1. tx'[v].stamp < sequence' /\ tx'[v].nested <= MaxNested[v]
      BY <1>0, <1>4, <2>1, <2>5, <2>7
    <3>2. ASSUME tx'[v].stamp > 0
          PROVE  /\ \A n \in DOMAIN chan'.events : chan'.events[n].sequence # tx'[v].stamp
                 /\ \A x \in Writers \ {v} : tx'[x].stamp # tx'[v].stamp
      <4>1. v # w /\ tx'[v].stamp = tx[v].stamp /\ tx[v].stamp > 0
        BY <2>5, <2>7, <3>2
      <4>2. tx[w].stamp # tx[v].stamp /\ \A n \in DOMAIN ev : ev[n].sequence # tx[v].stamp
        BY <1>4, <2>7, <4>1
      <4>3. ASSUME NEW n \in DOMAIN chan'.events PROVE chan'.events[n].sequence # tx[v].stamp
        <5>1. CASE n \in DOMAIN ev
          BY <2>4, <4>2, <5>1
        <5>2. CASE n = Len(ev) + 1
          BY <2>2, <2>4, <4>2, <5>2
        <5> QED
          BY <1>2, <2>4, <4>3, <5>1, <5>2
      <4>4. ASSUME NEW x \in Writers \ {v} PROVE tx'[x].stamp # tx[v].stamp
        BY <1>4, <2>5, <2>7, <4>1, <4>4
      <4> QED
        BY <4>1, <4>3, <4>4
    <3> QED
      BY <3>1, <3>2
  <2> QED
    BY <2>6, <2>7 DEF WriteInv, Published, Stamped
<1> QED
  BY <1>6, <1>7, <1>8, <1>9, <1>10 DEF Write

-----------------------------------------------------------------------------
\* The theorems.

LEMMA Start ==
    ASSUME Init
    PROVE  Inv /\ WriteInv
<1>0. PICK none : none = <<>> /\ Len(none) = 0
  OBVIOUS
<1>1. /\ NoTx \in Tx /\ NoSub \in Sub /\ NoRx \in Rx
  <2>1. FALSE \in BOOLEAN /\ 0 \in Nat /\ -1 \in Nat \cup {-1} /\ <<>> \in Seq(Nat)
    OBVIOUS
  <2> QED
    BY <2>1, Zenon DEF NoTx, Tx, NoSub, Sub, NoRx, Rx
<1>2. /\ chan = [events |-> <<>>, signals |-> <<>>]
      /\ <<>> \in Seq(Event) /\ <<>> \in Seq(Users) /\ <<>> \in Seq(Nat)
  BY DEF Init, Channels
<1>3. user \in [Users -> [stale : BOOLEAN, gone : BOOLEAN, op : {"none", "lock", "delete"}]]
  BY DEF Init
<1>4. ASSUME NEW s \in Streams
      PROVE  /\ sub[s].hold = <<>> /\ sub[s].out = <<>> /\ sub[s].pc = "idle"
             /\ sub[s].client = "off" /\ sub[s].pump = "off" /\ sub[s].from = -1 /\ got[s] = <<>>
             /\ \A c \in Channels : rx[s][c].q = <<>> /\ rx[s][c].pos = 0
  BY DEF Init, NoSub, NoRx
<1>5. LiveTypeOK
  <2>1. Len(<<>>) = 0
    OBVIOUS
  <2>2. \A s \in Streams : /\ Len(sub[s].hold) <= 1 /\ Len(sub[s].out) <= OutCapacity
                            /\ \A c \in Channels : Len(rx[s][c].q) <= Capacity[c]
    BY <1>4, <2>1, LiveAssumption
  <2>3. chan \in [events : Seq(Event), signals : Seq(Users)]
    BY <1>2, Zenon
  <2>4. /\ transport \in Transports /\ tx \in [Writers -> Tx] /\ sequence \in Nat \ {0}
        /\ slots \in Nat /\ sub \in [Streams -> Sub] /\ rx \in [Streams -> [Channels -> Rx]]
        /\ got \in [Streams -> Seq(Nat)] /\ breaks \in Nat
    BY <1>1, <1>2 DEF Init
  <2> QED
    BY <1>3, <2>2, <2>3, <2>4 DEF LiveTypeOK
<1>6. SlotsCounted
  <2>1. Holding = {}
    BY <1>4 DEF Holding
  <2> QED
    BY <2>1, FS_EmptySet, LiveAssumption DEF SlotsCounted, Init
<1>7. StreamInv
  <2>1. \A c \in Channels : Len(chan[c]) \in Nat
    BY <1>5, ChanFacts
  <2> QED
    BY <1>4, <2>1 DEF StreamInv
<1>8. WriteInv
  <2>1. DOMAIN chan.events = {}
    BY <1>2
  <2>2. \A w \in Writers : tx[w].stamp = 0 /\ tx[w].nested = 0 /\ MaxNested[w] \in Nat
    BY LiveAssumption DEF Init, NoTx
  <2>3. sequence = 1
    BY DEF Init
  <2> QED
    BY <2>1, <2>2, <2>3 DEF WriteInv, Stamped
<1> QED
  BY <1>4, <1>5, <1>6, <1>7, <1>8 DEF Inv, SlotInv, Unopened

(* What every step does to the log: the writes publish, a stream opens or  *)
(* hands on an event, or the log and its readers are left alone.           *)
LEMMA Steps ==
    ASSUME Inv, WriteInv, [Next]_vars
    PROVE  Inv' /\ WriteInv' /\ [Log!LogNext]_(Log!LogVars)
<1>0. LiveTypeOK
  BY DEF Inv, SlotInv
<1>1. ASSUME UNCHANGED <<transport, tx, sequence, chan, user, got>>,
             \A t \in Streams : sub'[t].from = sub[t].from
      PROVE  WriteInv' /\ UNCHANGED Log!LogVars
  <2>1. WriteInv'
    BY <1>1 DEF WriteInv, Published, Stamped
  <2> QED
    BY <1>1, <2>1 DEF Log!LogVars
<1>2. CASE UNCHANGED vars
  <2>1. Inv'
    BY <1>2 DEF vars, Inv, SlotInv, LiveTypeOK, SlotsCounted, Holding, Unopened, StreamInv
  <2> QED
    BY <1>1, <1>2, <2>1 DEF vars
<1>3. ASSUME NEW w \in Writers, Write(w)
      PROVE  Inv' /\ WriteInv' /\ [Log!LogNext]_(Log!LogVars)
  <2>0. Inv' /\ WriteInv' /\ UNCHANGED <<transport, sub, got>>
    <3>1. UNCHANGED transport
      BY <1>3 DEF Write, Begin, publish_mutation_event, Commit, Rollback, Suppress, stamp_event,
             Send, PublishFails
    <3> QED
      BY <1>0, <1>3, <3>1, WritesKeep, WritesStamp, WriteTypes
  <2> DEFINE committed == {v \in Writers : tx[v].pc = "publish"}
  <2>1. CASE Send(w)
    <3>1. PICK e : e = [write |-> w, event |-> tx[w].next, sequence |-> tx[w].stamp]
      OBVIOUS
    <3>2. /\ tx[w].pc = "publish" /\ tx[w].next <= tx[w].nested /\ tx[w].stamp > 0
          /\ chan' = [chan EXCEPT !["events"] = Append(chan["events"], e)]
          /\ tx' = [tx EXCEPT ![w].next = tx[w].next + 1, ![w].stamp = 0]
      BY <2>1, <3>1 DEF Send, Pending
    <3>3. /\ chan["events"] = chan.events /\ chan.events \in Seq(Event) /\ tx \in [Writers -> Tx]
          /\ chan \in [events : Seq(Event), signals : Seq(Users)] /\ e \in Event
          /\ tx[w].next \in 0 .. MaxNested[w]
      <4>1. /\ tx[w].next \in Nat /\ tx[w].nested \in Nat /\ MaxNested[w] \in Nat
            /\ tx[w].stamp \in Nat /\ tx[w].nested <= MaxNested[w]
        BY <1>0, LiveAssumption DEF LiveTypeOK, Tx, WriteInv, Stamped
      <4>2. e \in Event
        BY <3>1, <3>2, <4>1 DEF Event
      <4> QED
        BY <1>0, <3>2, <4>1, <4>2, ChanFacts DEF LiveTypeOK
    <3>4. chan'["events"] = Append(chan["events"], e)
      BY <3>2, <3>3
    <3>5. committed' = committed
      <4>1. \A v \in Writers : tx'[v].pc = tx[v].pc
        BY <3>2, <3>3 DEF Tx
      <4> QED
        BY <4>1
    <3>6. \A n \in DOMAIN chan["events"] :
             /\ chan["events"][n].write = w => chan["events"][n].event < tx[w].next
             /\ chan["events"][n].sequence # tx[w].stamp
      BY <3>2, <3>3 DEF WriteInv, Published, Stamped
    <3>7. Log!Publish(w, tx[w].next, tx[w].stamp)
      BY <2>0, <3>1, <3>2, <3>4, <3>5, <3>6 DEF Log!Publish
    <3>8. tx[w].stamp \in {chan'["events"][n].sequence : n \in DOMAIN chan'["events"]}
      <4>1. /\ Len(chan["events"]) \in Nat
            /\ DOMAIN chan'["events"] = 1 .. (Len(chan["events"]) + 1)
            /\ chan'["events"][Len(chan["events"]) + 1] = e
        BY <3>3, <3>4, AppendProperties
      <4>2. Len(chan["events"]) + 1 \in DOMAIN chan'["events"] /\ e.sequence = tx[w].stamp
        BY <3>1, <4>1
      <4> QED
        BY <4>1, <4>2
    <3> QED
      BY <2>0, <3>3, <3>7, <3>8 DEF Log!LogNext
  <2>2. CASE Commit(w)
    <3>1. tx' = [tx EXCEPT ![w].pc = "publish"] /\ tx \in [Writers -> Tx] /\ UNCHANGED chan
      BY <1>0, <2>2 DEF Commit, LiveTypeOK
    <3>2. \A v \in Writers : tx'[v].pc = IF v = w THEN "publish" ELSE tx[v].pc
      BY <3>1 DEF Tx
    <3>3. committed' = committed \cup {w}
      BY <3>2
    <3>4. Log!CommitWrite(w)
      BY <2>0, <3>1, <3>3 DEF Log!CommitWrite
    <3> QED
      BY <2>0, <3>4 DEF Log!LogNext
  <2>3. CASE ~Send(w) /\ ~Commit(w)
    <3>1. UNCHANGED chan
      BY <1>3, <2>3 DEF Write, Begin, publish_mutation_event, Rollback, Suppress, stamp_event,
           PublishFails
    <3>2. \A v \in Writers : tx'[v].pc = "publish" <=> tx[v].pc = "publish"
      <4>1. tx \in [Writers -> Tx]
        BY <1>0 DEF LiveTypeOK
      <4> QED
        BY <1>3, <2>3, <4>1 DEF Write, Begin, publish_mutation_event, Rollback, Suppress,
             stamp_event, PublishFails, Tx
    <3>3. committed' = committed
      BY <3>2
    <3> QED
      BY <2>0, <3>1, <3>3 DEF Log!LogVars
  <2> QED
    BY <2>1, <2>2, <2>3
<1>4. ASSUME NEW u \in Users, Account(u)
      PROVE  Inv' /\ WriteInv' /\ [Log!LogNext]_(Log!LogVars)
  <2>1. /\ LiveTypeOK' /\ UNCHANGED <<transport, tx, sequence, slots, sub, rx, got>>
        /\ chan'.events = chan.events /\ Len(chan'.signals) >= Len(chan.signals)
    BY <1>0, <1>4, AccountTypes
  <2>2. Inv'
    BY <2>1, Grows
  <2>3. WriteInv'
    BY <2>1 DEF WriteInv, Published, Stamped
  <2>4. chan'["events"] = chan["events"]
    BY <1>0, <2>1 DEF LiveTypeOK
  <2> QED
    BY <2>1, <2>2, <2>3, <2>4 DEF Log!LogVars
<1>5. ASSUME NEW s \in Streams, Stream(s)
      PROVE  Inv' /\ WriteInv' /\ [Log!LogNext]_(Log!LogVars)
  <2>1. ASSUME Aside(s) PROVE WriteInv' /\ [Log!LogNext]_(Log!LogVars)
    BY <1>1, <2>1 DEF Aside, WriteSide
  <2>2. CASE try_acquire_slot(s) \/ Resolve(s) \/ Refuse(s)
    BY <1>5, <2>1, <2>2, Connects DEF Aside, WriteSide
  <2>3. CASE handle_event(s)
    BY <2>1, <2>3, HandlesEvent
  <2>4. CASE RecvSignal(s)
    BY <2>1, <2>4, ReceivesSignal
  <2>5. CASE forward(s)
    BY <2>1, <2>5, Forwards
  <2>6. CASE StreamEnds(s) \/ Disconnect(s)
    BY <2>1, <2>6, Hangs
  <2> DEFINE from == [t \in Streams |-> sub[t].from]
  <2>7. CASE Subscribe(s)
    <3>1. /\ Inv' /\ UNCHANGED <<WriteSide, got>>
          /\ sub[s].from = -1 /\ sub'[s].from = Len(chan.events)
          /\ \A t \in Streams : t # s => sub'[t] = sub[t]
      BY <2>7, Subscribes
    <3>2. WriteInv'
      BY <3>1 DEF WriteInv, Published, Stamped, WriteSide
    <3>3. chan["events"] = chan.events
      BY <1>0, ChanFacts
    <3>4. from' = [from EXCEPT ![s] = Len(chan["events"])] /\ from[s] = -1
      BY <3>1, <3>3
    <3>5. Log!Open(s)
      BY <3>1, <3>4 DEF Log!Open, Log!Closed, WriteSide
    <3> QED
      BY <3>1, <3>2, <3>5 DEF Log!LogNext
  <2>8. CASE ClientReads(s)
    <3>1. /\ Inv' /\ UNCHANGED WriteSide
          /\ \A t \in Streams : sub'[t].from = sub[t].from
      BY <2>8, Reads
    <3>2. WriteInv'
      BY <3>1 DEF WriteInv, Published, Stamped, WriteSide
    <3>3. CASE UNCHANGED got
      BY <1>1, <3>1, <3>3 DEF WriteSide
    <3>4. ASSUME NEW n \in Nat,
                 got' = [got EXCEPT ![s] = Append(got[s], n)],
                 sub[s].from \in Nat /\ Last(sub[s], got[s]) \in Nat,
                 Last(sub[s], got[s]) < n /\ n <= Len(chan.events),
                 chan.events[n].write \in Hears[s],
                 transport = "memory" => \A m \in Nat :
                    Last(sub[s], got[s]) < m /\ m < n => chan.events[m].write \notin Hears[s]
          PROVE  Log!Deliver(s)
      <4>1. chan["events"] = chan.events /\ Len(chan.events) \in Nat
        BY <1>0, ChanFacts
      <4>2. from[s] # -1 /\ from' = from /\ from[s] = sub[s].from
        BY <3>1, <3>4
      <4>3. Log!Upto(s) = Last(sub[s], got[s])
        BY <4>2 DEF Log!Upto, Last
      <4>4. n \in (Log!Upto(s) + 1) .. Len(chan["events"])
        BY <3>4, <4>1, <4>3
      <4>5. transport = "memory" => \A m \in (Log!Upto(s) + 1) .. (n - 1) : ~Log!Heard(s, m)
        BY <3>4, <4>1, <4>3 DEF Log!Heard
      <4>6. Log!Heard(s, n)
        BY <3>4, <4>1 DEF Log!Heard
      <4> QED
        BY <3>1, <3>4, <4>2, <4>4, <4>5, <4>6 DEF Log!Deliver, Log!Closed, WriteSide
    <3> QED
      BY <2>8, <3>1, <3>2, <3>3, <3>4, Reads DEF Log!LogNext
  <2> QED
    BY <1>5, <2>2, <2>3, <2>4, <2>5, <2>6, <2>7, <2>8 DEF Stream
<1>6. ASSUME NEW s \in Streams, NEW c \in Channels, RedisTask(s, c)
      PROVE  Inv' /\ WriteInv' /\ [Log!LogNext]_(Log!LogVars)
  BY <1>1, <1>6, Tasks DEF WriteSide
<1> QED
  BY <1>2, <1>3, <1>4, <1>5, <1>6 DEF Next

(* The counter of connections is the number of guards alive and stays      *)
(* within max_subscribe_connections, however connections are refused,      *)
(* ended by either side or dropped (grpc/subscribe, admin/events).         *)
THEOREM SlotsCountedHolds == Spec => []SlotsCounted
<1>1. Init => Inv /\ WriteInv
  BY Start
<1>2. Inv /\ WriteInv /\ [Next]_vars => (Inv /\ WriteInv)'
  BY Steps
<1>3. Inv => SlotsCounted
  BY DEF Inv, SlotInv
<1> QED
  BY <1>1, <1>2, <1>3, PTL DEF Spec

(* Every queue, channel and counter of the live updates keeps its type,    *)
(* and the queues of receivers and clients their capacities.               *)
THEOREM LiveTypeCorrect == Spec => []LiveTypeOK
<1>1. Init => Inv /\ WriteInv
  BY Start
<1>2. Inv /\ WriteInv /\ [Next]_vars => (Inv /\ WriteInv)'
  BY Steps
<1>3. Inv => LiveTypeOK
  BY DEF Inv, SlotInv
<1> QED
  BY <1>1, <1>2, <1>3, PTL DEF Spec

(* Writes, transports and streams implement the log of EventLog: a client  *)
(* reads only what committed writes have published, each event once and in *)
(* order, and with the in-process transport nothing it may hear is left    *)
(* out before the stream ends.                                             *)
THEOREM ImplementsLogHolds == Spec => ImplementsLog
<1>1. Init => Inv /\ WriteInv
  BY Start
<1>2. Inv /\ WriteInv /\ [Next]_vars => (Inv /\ WriteInv)' /\ [Log!LogNext]_(Log!LogVars)
  BY Steps
<1>3. Init => Log!LogInit
  <2> SUFFICES ASSUME Init PROVE Log!LogInit
    OBVIOUS
  <2>1. transport \in {"memory", "redis"}
    BY LiveAssumption DEF Init
  <2>2. {w \in Writers : tx[w].pc = "publish"} = {}
    BY DEF Init, NoTx
  <2>3. chan["events"] = <<>>
    BY DEF Init, Channels
  <2>4. [s \in Streams |-> sub[s].from] = [s \in Streams |-> -1]
    BY DEF Init, NoSub
  <2>5. got = [s \in Streams |-> <<>>]
    BY DEF Init
  <2> QED
    BY <2>1, <2>2, <2>3, <2>4, <2>5 DEF Log!LogInit, Log!Closed
<1> QED
  BY <1>1, <1>2, <1>3, PTL DEF Spec, ImplementsLog, Log!LogSpec

=============================================================================

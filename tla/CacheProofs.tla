---------------------------- MODULE CacheProofs ----------------------------
(***************************************************************************)
(* Proofs about PopulateCache: writes clear what they make stale, misses   *)
(* of one key are fetched one at a time, and the soft cap, for any         *)
(* documents, references, reads, writes and shards.                        *)
(***************************************************************************)
EXTENDS PopulateCache, FiniteSetTheorems, FunctionTheorems, SequenceTheorems, TLAPS

-----------------------------------------------------------------------------
\* The inductive invariants.

Read == [pc : {"idle", "prefetch", "lookup", "enter", "lock", "fetch",
               "set_raw", "insert_raw", "publish", "remove",
               "unwind", "insert", "done", "panicked"},
         mode : Modes, depth : Nat, path : Seq(Version),
         slot : Readers \cup {None}, hold : Seq(Version), tail : Seq(Version)]

(* A read that asks for the reference at the end of its path.              *)
Asks == {"prefetch", "lookup", "enter", "lock", "fetch", "set_raw", "insert_raw",
         "publish", "remove"}

Key(b) == Ref[Last(b.path).doc]

Good(b) ==
    /\ b \in Read
    /\ b.pc \notin {"idle", "panicked"} => b.path # <<>>
    /\ Len(b.path) <= b.depth + 1
    /\ b.pc \in Asks => Len(b.path) <= b.depth /\ Key(b) \in Docs
    /\ Len(b.hold) <= 1
    /\ b.pc \in {"set_raw", "insert_raw"} =>
          b.mode = "one" /\ Len(b.hold) = 1 /\ b.hold[1].doc = Key(b)
    /\ b.pc \in {"enter", "lock", "publish", "remove"} => b.mode = "one" /\ Len(b.path) = 1
    /\ b.pc = "insert" => Len(b.path) > 1

Filled(s) == Len(s.val) <= 1 /\ (s.val # <<>> => Len(s.val[1]) <= 1)

ReadInv ==
    /\ CacheTypeOK
    /\ \A r \in Readers : Good(rd[r]) /\ Filled(slot[r])

(* A slot has one owner at a time: the read that fetches, until it has     *)
(* taken the slot off the table.  Its slot is the one in flight, and so is *)
(* the slot of a read that waits while there is no value.                  *)
Own(b) == b.mode = "one" /\ Len(b.path) = 1
          /\ b.pc \in {"fetch", "set_raw", "insert_raw", "publish"}

InFlight(b, fl, sl) ==
    /\ Own(b) => /\ sl[b.slot].lock = "held" /\ sl[b.slot].val = <<>>
                 /\ fl[Key(b)] = b.slot
    /\ b.pc = "remove" => sl[b.slot].val # <<>> /\ fl[Key(b)] = b.slot
    /\ b.pc = "lock" /\ sl[b.slot].val = <<>> => fl[Key(b)] = b.slot
    /\ Own(b) \/ b.pc \in {"lock", "remove"} => b.slot \in Readers

OwnerOf(b) == Own(b) \/ b.pc = "remove"

FlightInv ==
    /\ \A r \in Readers : InFlight(rd[r], flight, slot)
    /\ \A r, s \in Readers :
          OwnerOf(rd[r]) /\ OwnerOf(rd[s]) /\ rd[r].slot = rd[s].slot => r = s

(* Only a write makes an entry stale that was not stored stale.            *)
ClearInv ==
    \A d \in Docs : ~cache[d].late =>
        \A i \in DOMAIN cache[d].tree :
            LET v == cache[d].tree[i]
            IN  v.ver # row[v.doc].ver =>
                    /\ row[v.doc].by \in Writers
                    /\ row[v.doc].by \notin Silent => Owes(row[v.doc].by, d)

(* What is cached or about to be.                                          *)
Inserting == {r \in Readers : rd[r].pc \in {"insert_raw", "insert"}}

Place(b) == IF b.pc = "insert_raw" THEN Key(b) ELSE Last(b.path).doc

Claimed == Cached \cup {Place(rd[r]) : r \in Inserting}

CapInv == IsFiniteSet(Claimed) /\ Cardinality(Claimed) < MaxEntries + Cardinality(Readers)

-----------------------------------------------------------------------------
\* The records of reads.

LEMMA PathFacts ==
    ASSUME NEW path \in Seq(Version), path # <<>>
    PROVE  /\ Len(path) \in Nat \ {0} /\ Last(path) \in Version /\ Last(path).doc \in Docs
           /\ Ref[Last(path).doc] \in Docs \cup {None}
           /\ path[1] \in Version /\ path[1].doc \in Docs
<1>1. Len(path) \in Nat \ {0}
  BY EmptySeq, LenProperties
<1>2. path[Len(path)] \in Version /\ path[1] \in Version
  BY <1>1, ElementOfSeq
<1> QED
  BY <1>1, <1>2, CacheAssumption DEF Last, Version

LEMMA DescendPc ==
    ASSUME NEW mode, NEW depth \in Nat, NEW path \in Seq(Version), path # <<>>
    PROVE  /\ Descend(mode, depth, path) \in {"unwind", "prefetch", "lookup"}
           /\ Descend(mode, depth, path) # "unwind" =>
                 Len(path) <= depth /\ Ref[Last(path).doc] \in Docs
<1>1. Len(path) \in Nat /\ Ref[Last(path).doc] \in Docs \cup {None}
  BY PathFacts
<1> QED
  BY <1>1 DEF Descend

(* The read takes what it has fetched.                                     *)
LEMMA Takes ==
    ASSUME NEW o, Good(o), o.pc \in Asks, NEW got \in Seq(Version), Len(got) <= 1,
           NEW b,
           LET path == o.path \o got
           IN  b = [o EXCEPT !.path = path, !.hold = <<>>, !.slot = None,
                             !.pc = IF got = <<>> THEN "unwind"
                                    ELSE Descend(o.mode, o.depth, path)]
    PROVE  Good(b) /\ b.pc \in {"unwind", "prefetch", "lookup"}
<1>0. /\ o \in Read /\ o.path \in Seq(Version) /\ o.depth \in Nat /\ o.path # <<>>
      /\ Len(o.path) <= o.depth /\ Len(o.path) \in Nat \ {0}
  <2>1. o.path \in Seq(Version) /\ o.path # <<>>
    BY DEF Good, Read, Asks
  <2> QED
    BY <2>1, PathFacts DEF Good, Read, Asks
<1>1. PICK path : path = o.path \o got
  OBVIOUS
<1>2. /\ path \in Seq(Version) /\ Len(path) = Len(o.path) + Len(got) /\ Len(got) \in Nat
  BY <1>0, <1>1, ConcatProperties
<1>3. Len(path) <= o.depth + 1 /\ Len(path) # 0 /\ Len(path) \in Nat
  BY <1>0, <1>2
<1>4. path # <<>>
  BY <1>2, <1>3, EmptySeq
<1>5. PICK pc : pc = IF got = <<>> THEN "unwind" ELSE Descend(o.mode, o.depth, path)
  OBVIOUS
<1>6. /\ pc \in {"unwind", "prefetch", "lookup"}
      /\ pc # "unwind" => Len(path) <= o.depth /\ Ref[Last(path).doc] \in Docs
  BY <1>0, <1>2, <1>4, <1>5, DescendPc
<1>7. PICK none \in Seq(Version) : none = <<>> /\ Len(none) = 0
  <2>1. <<>> \in Seq(Version) /\ Len(<<>>) = 0
    BY EmptySeq
  <2> QED
    BY <2>1, Zenon
<1>8. b = [o EXCEPT !.path = path, !.hold = none, !.slot = None, !.pc = pc]
  BY <1>1, <1>5, <1>7
<1>9. /\ b \in Read /\ b.path = path /\ b.hold = none /\ b.pc = pc /\ b.depth = o.depth
  BY <1>0, <1>2, <1>6, <1>7, <1>8 DEF Read
<1>10. Len(b.hold) <= 1
  BY <1>7, <1>9
<1>11. b.pc \in {"unwind", "prefetch", "lookup"}
  BY <1>6, <1>9
<1>12. b.pc \in Asks => b.pc # "unwind"
  BY DEF Asks
<1> QED
  BY <1>3, <1>4, <1>6, <1>9, <1>10, <1>11, <1>12 DEF Good, Key

-----------------------------------------------------------------------------
\* What a step of a read does: read r goes on with b.

Inserts == {"insert_raw", "insert"}

(* It stores in the cache the entry it has found room for, or may find     *)
(* room for one.                                                           *)
Stores(r, b) ==
    \/ cache' = cache /\ (b.pc \in Inserts => Room(Place(b)))
    \/ /\ rd[r].pc \in Inserts /\ b.pc \notin Inserts
       /\ \E tree \in Seq(Version) :
             /\ tree # <<>> /\ tree[1].doc = Place(rd[r]) /\ Place(rd[r]) \in Docs
             /\ Store(Place(rd[r]), tree)

(* What it does to the single-flight table.                                *)
Outside(b) == ~OwnerOf(b) /\ b.pc # "lock"

Quiet(r, b) ==
    /\ UNCHANGED <<flight, slot>>
    /\ \/ Outside(b)
       \/ Own(rd[r]) /\ Own(b) /\ b.path = rd[r].path /\ b.slot = rd[r].slot

Finds(r, b) ==
    /\ rd[r].pc = "enter" /\ b.pc = "lock" /\ b.path = rd[r].path
    /\ b.slot = IF flight[Key(rd[r])] = None THEN r ELSE flight[Key(rd[r])]
    /\ flight' = [flight EXCEPT ![Key(rd[r])] = b.slot]
    /\ UNCHANGED slot

Locks(r, b) ==
    /\ rd[r].pc = "lock" /\ slot[rd[r].slot] = [val |-> <<>>, lock |-> "free"]
    /\ Own(b) /\ b.path = rd[r].path /\ b.slot = rd[r].slot
    /\ slot' = [slot EXCEPT ![rd[r].slot] = [val |-> <<>>, lock |-> "held"]]
    /\ UNCHANGED flight

Panics(r, b) ==
    /\ Own(rd[r]) /\ Outside(b)
    /\ slot' = [slot EXCEPT ![rd[r].slot] = [val |-> <<>>, lock |-> "poisoned"]]
    /\ UNCHANGED flight

Publishes(r, b) ==
    /\ Own(rd[r]) /\ b.pc = "remove" /\ b.path = rd[r].path /\ b.slot = rd[r].slot
    /\ slot' = [slot EXCEPT ![rd[r].slot] = [val |-> <<rd[r].hold>>, lock |-> "free"]]
    /\ UNCHANGED flight

Removes(r, b) ==
    /\ rd[r].pc = "remove" /\ Outside(b)
    /\ flight' = [flight EXCEPT ![Key(rd[r])] = None]
    /\ UNCHANGED slot

Table(r, b) ==
    \/ Quiet(r, b) \/ Finds(r, b) \/ Locks(r, b)
    \/ Panics(r, b) \/ Publishes(r, b) \/ Removes(r, b)

Moves(r, b) ==
    /\ Good(b) /\ rd' = [rd EXCEPT ![r] = b] /\ UNCHANGED <<periodic, row, wr, left>>
    /\ Stores(r, b) /\ Table(r, b)

Slot == [val : Seq(Seq(Version)), lock : {"free", "held", "poisoned"}]

LEMMA ReadFacts ==
    ASSUME ReadInv
    PROVE  /\ rd \in [Readers -> Read] /\ \A r \in Readers : Good(rd[r])
           /\ slot \in [Readers -> Slot] /\ flight \in [Docs -> Readers \cup {None}]
           /\ cache \in [Docs -> [tree : Seq(Version), late : BOOLEAN]]
           /\ row \in [Docs -> [ver : Nat, gone : BOOLEAN, by : Writers \cup {None}]]
  BY DEF ReadInv, CacheTypeOK, Read, Slot

LEMMA MoveReads ==
    ASSUME ReadInv, NEW r \in Readers, NEW b, Moves(r, b)
    PROVE  ReadInv'
<1>0. /\ rd \in [Readers -> Read] /\ Good(rd[r]) /\ slot \in [Readers -> Slot]
      /\ flight \in [Docs -> Readers \cup {None}]
      /\ cache \in [Docs -> [tree : Seq(Version), late : BOOLEAN]]
      /\ rd' = [rd EXCEPT ![r] = b] /\ Good(b) /\ b \in Read
  BY ReadFacts DEF Moves, Good
<1>1. rd' \in [Readers -> Read] /\ rd'[r] = b /\ \A s \in Readers : s # r => rd'[s] = rd[s]
  BY <1>0
<1>2. \A s \in Readers : Good(rd'[s])
  BY <1>0, <1>1 DEF ReadInv
<1>3. slot' \in [Readers -> Slot] /\ \A s \in Readers : Filled(slot'[s])
  <2>1. CASE UNCHANGED slot
    BY <1>0, <2>1 DEF ReadInv
  <2>2. ASSUME NEW x, NEW new \in Slot, slot' = [slot EXCEPT ![x] = new], Filled(new)
        PROVE  slot' \in [Readers -> Slot] /\ \A s \in Readers : Filled(slot'[s])
    BY <1>0, <2>2 DEF ReadInv
  <2>3. PICK none \in Seq(Seq(Version)) : none = <<>> /\ Len(none) = 0
    <3>1. <<>> \in Seq(Seq(Version)) /\ Len(<<>>) = 0
      BY EmptySeq
    <3> QED
      BY <3>1, Zenon
  <2>4. ASSUME NEW l \in {"free", "held", "poisoned"}
        PROVE  [val |-> none, lock |-> l] \in Slot /\ Filled([val |-> none, lock |-> l])
    BY <2>3 DEF Slot, Filled
  <2>5. CASE Locks(r, b) \/ Panics(r, b)
    BY <2>2, <2>3, <2>4, <2>5 DEF Locks, Panics
  <2>6. CASE Publishes(r, b)
    <3>1. PICK val : val = <<rd[r].hold>>
      OBVIOUS
    <3>2. rd[r].hold \in Seq(Version) /\ Len(rd[r].hold) <= 1
      BY <1>0 DEF Good, Read
    <3>3. val \in Seq(Seq(Version)) /\ Len(val) <= 1 /\ val[1] = rd[r].hold
      BY <3>1, <3>2
    <3>4. PICK new : new = [val |-> val, lock |-> "free"]
      OBVIOUS
    <3>5. new \in Slot /\ new.val = val
      BY <3>3, <3>4 DEF Slot
    <3>6. Filled(new)
      BY <3>2, <3>3, <3>5, Zenon DEF Filled
    <3>7. slot' = [slot EXCEPT ![rd[r].slot] = new]
      BY <2>6, <3>1, <3>4 DEF Publishes
    <3> QED
      BY <2>2, <3>5, <3>6, <3>7
  <2> QED
    BY <2>1, <2>5, <2>6 DEF Moves, Table, Quiet, Finds, Removes
<1>4. flight' \in [Docs -> Readers \cup {None}]
  BY <1>0 DEF Moves, Table, Quiet, Finds, Locks, Panics, Publishes, Removes
<1>5. /\ cache' \in [Docs -> [tree : Seq(Version), late : BOOLEAN]]
      /\ \A d \in Docs : cache'[d].tree # <<>> => cache'[d].tree[1].doc = d
  <2>1. CASE cache' = cache
    BY <1>0, <2>1 DEF ReadInv, CacheTypeOK
  <2>2. ASSUME NEW d \in Docs, NEW tree \in Seq(Version), tree[1].doc = d, Store(d, tree)
        PROVE  /\ cache' \in [Docs -> [tree : Seq(Version), late : BOOLEAN]]
               /\ \A e \in Docs : cache'[e].tree # <<>> => cache'[e].tree[1].doc = e
    <3>1. Outdated(tree) \in BOOLEAN
      BY Zenon DEF Outdated
    <3>2. PICK new : new = [tree |-> tree, late |-> Outdated(tree)]
      OBVIOUS
    <3>3. new \in [tree : Seq(Version), late : BOOLEAN] /\ new.tree = tree
      BY <3>1, <3>2
    <3>4. cache' = [cache EXCEPT ![d] = new]
      BY <2>2, <3>2 DEF Store
    <3> QED
      BY <1>0, <2>2, <3>3, <3>4 DEF ReadInv, CacheTypeOK
  <2> QED
    BY <2>1, <2>2 DEF Moves, Stores
<1>6. \A s \in Readers : /\ rd'[s].pc \notin {"idle", "panicked"} => rd'[s].path # <<>>
                         /\ Len(rd'[s].path) <= rd'[s].depth + 1
  BY <1>2 DEF Good
<1>7. CacheTypeOK'
  BY <1>1, <1>3, <1>4, <1>5, <1>6 DEF ReadInv, CacheTypeOK, Moves, Read, Slot
<1> QED
  BY <1>2, <1>3, <1>7 DEF ReadInv

(* The owner of a slot is alone with it.                                   *)
LEMMA MoveFlight ==
    ASSUME ReadInv, FlightInv, NEW r \in Readers, NEW b, Moves(r, b)
    PROVE  FlightInv'
<1>0. /\ rd \in [Readers -> Read] /\ slot \in [Readers -> Slot]
      /\ flight \in [Docs -> Readers \cup {None}] /\ None \notin Readers
      /\ rd' = [rd EXCEPT ![r] = b] /\ Good(b) /\ Good(rd[r])
  BY ReadFacts, CacheAssumption DEF Moves
<1>1. rd'[r] = b /\ \A s \in Readers : s # r => rd'[s] = rd[s]
  BY <1>0
<1>2. /\ \A s \in Readers : InFlight(rd[s], flight, slot)
      /\ \A s, x \in Readers :
            OwnerOf(rd[s]) /\ OwnerOf(rd[x]) /\ rd[s].slot = rd[x].slot => s = x
  BY DEF FlightInv
\* The other reads keep what they have in flight, and nobody else owns the slot of b.
<1>3. ASSUME \A s \in Readers : s # r => InFlight(rd[s], flight', slot'),
             InFlight(b, flight', slot'),
             OwnerOf(b) => \A s \in Readers : s # r /\ OwnerOf(rd[s]) => rd[s].slot # b.slot
      PROVE  FlightInv'
  <2>1. \A s \in Readers : InFlight(rd'[s], flight', slot')
    BY <1>1, <1>3
  <2>2. ASSUME NEW s \in Readers, NEW x \in Readers, OwnerOf(rd'[s]), OwnerOf(rd'[x]),
               rd'[s].slot = rd'[x].slot
        PROVE  s = x
    BY <1>1, <1>2, <1>3, <2>2
  <2> QED
    BY <2>1, <2>2 DEF FlightInv
<1>4. ASSUME Outside(b) PROVE InFlight(b, flight', slot') /\ ~OwnerOf(b)
  BY <1>4 DEF Outside, InFlight, OwnerOf
<1>5. CASE Quiet(r, b)
  <2>1. flight' = flight /\ slot' = slot
    BY <1>5 DEF Quiet
  <2>2. CASE Outside(b)
    BY <1>2, <1>3, <1>4, <2>1, <2>2
  <2>3. CASE Own(rd[r]) /\ Own(b) /\ b.path = rd[r].path /\ b.slot = rd[r].slot
    <3>1. InFlight(b, flight, slot)
      <4>1. InFlight(rd[r], flight, slot)
        BY <1>2
      <4> QED
        BY <2>3, <4>1 DEF InFlight, Own, Key
    <3>2. ASSUME NEW s \in Readers, s # r, OwnerOf(rd[s]) PROVE rd[s].slot # b.slot
      BY <1>2, <2>3, <3>2 DEF OwnerOf
    <3> QED
      BY <1>2, <1>3, <2>1, <3>1, <3>2
  <2> QED
    BY <1>5, <2>2, <2>3 DEF Quiet
<1>6. CASE Finds(r, b)
  <2> DEFINE k == Key(rd[r])
  <2>0. k \in Docs
    BY <1>0, <1>6 DEF Finds, Good, Asks
  <2>1. slot' = slot /\ flight' = [flight EXCEPT ![k] = b.slot] /\ b.slot \in Readers
    BY <1>0, <1>6, <2>0 DEF Finds
  <2>2. \A d : flight[d] \in Readers => flight'[d] = flight[d]
    BY <1>0, <1>6, <2>0, <2>1 DEF Finds
  <2>3. ASSUME NEW s \in Readers, s # r PROVE InFlight(rd[s], flight', slot')
    <3>1. InFlight(rd[s], flight, slot)
      BY <1>2
    <3> QED
      BY <2>1, <2>2, <3>1 DEF InFlight
  <2>4. InFlight(b, flight', slot') /\ ~OwnerOf(b)
    <3>1. Key(b) = k /\ b.pc = "lock"
      BY <1>6 DEF Finds, Key
    <3>2. flight'[k] = b.slot
      BY <1>0, <2>0, <2>1
    <3> QED
      BY <2>1, <3>1, <3>2 DEF InFlight, OwnerOf, Own
  <2> QED
    BY <1>3, <2>3, <2>4
<1>7. CASE Locks(r, b)
  <2> DEFINE x == rd[r].slot
  <2>0. /\ InFlight(rd[r], flight, slot) /\ x \in Readers /\ flight' = flight
        /\ flight[Key(rd[r])] = x /\ slot[x].val = <<>> /\ slot[x].lock = "free"
        /\ slot' = [slot EXCEPT ![x] = [val |-> <<>>, lock |-> "held"]]
    BY <1>2, <1>7 DEF Locks, InFlight
  <2>1. /\ slot'[x].val = <<>> /\ slot'[x].lock = "held"
        /\ \A s \in Readers : s # x => slot'[s] = slot[s]
    BY <1>0, <2>0
  <2>2. ASSUME NEW s \in Readers, s # r, OwnerOf(rd[s]) PROVE rd[s].slot # x
    <3>1. InFlight(rd[s], flight, slot)
      BY <1>2
    <3> QED
      BY <2>0, <2>2, <3>1 DEF InFlight, OwnerOf
  <2>3. ASSUME NEW s \in Readers, s # r PROVE InFlight(rd[s], flight', slot')
    <3>1. InFlight(rd[s], flight, slot)
      BY <1>2
    <3>2. CASE rd[s].slot = x
      BY <2>0, <2>1, <2>2, <2>3, <3>1, <3>2 DEF InFlight, OwnerOf
    <3>3. CASE rd[s].slot # x
      BY <2>0, <2>1, <3>1, <3>3 DEF InFlight
    <3> QED
      BY <3>2, <3>3
  <2>4. InFlight(b, flight', slot')
    <3>1. /\ Own(b) /\ Key(b) = Key(rd[r]) /\ b.slot = x /\ b.pc # "remove" /\ b.pc # "lock"
      BY <1>7 DEF Locks, Key, Own
    <3> QED
      BY <2>0, <2>1, <3>1 DEF InFlight
  <2>5. b.slot = x
    BY <1>7 DEF Locks
  <2> QED
    BY <1>3, <2>2, <2>3, <2>4, <2>5
\* Whoever owns a slot may change it: the others do not use it before it has a value.
<1>8. CASE Panics(r, b) \/ Publishes(r, b)
  <2> DEFINE x == rd[r].slot
  <2>0. /\ InFlight(rd[r], flight, slot) /\ Own(rd[r]) /\ x \in Readers /\ flight' = flight
        /\ flight[Key(rd[r])] = x /\ slot[x].val = <<>>
        /\ \A s \in Readers : s # x => slot'[s] = slot[s]
    BY <1>0, <1>2, <1>8 DEF Panics, Publishes, InFlight
  <2>1. ASSUME NEW s \in Readers, s # r, OwnerOf(rd[s]) PROVE rd[s].slot # x
    BY <1>2, <2>0, <2>1 DEF OwnerOf
  <2>2. ASSUME NEW s \in Readers, s # r PROVE InFlight(rd[s], flight', slot')
    <3>1. InFlight(rd[s], flight, slot)
      BY <1>2
    <3>2. CASE rd[s].slot = x
      BY <2>0, <2>1, <2>2, <3>1, <3>2 DEF InFlight, OwnerOf
    <3>3. CASE rd[s].slot # x
      BY <2>0, <3>1, <3>3 DEF InFlight
    <3> QED
      BY <3>2, <3>3
  <2>3. CASE Panics(r, b)
    BY <1>3, <1>4, <2>2, <2>3 DEF Panics
  <2>4. CASE Publishes(r, b)
    <3>1. slot'[x].val = <<rd[r].hold>> /\ <<rd[r].hold>> # <<>>
      BY <1>0, <2>0, <2>4 DEF Publishes
    <3>2. b.pc = "remove" /\ Key(b) = Key(rd[r]) /\ b.slot = x /\ ~Own(b)
      BY <2>4 DEF Publishes, Key, Own
    <3>3. InFlight(b, flight', slot')
      BY <2>0, <3>1, <3>2 DEF InFlight
    <3> QED
      BY <1>3, <2>1, <2>2, <3>2, <3>3
  <2> QED
    BY <1>8, <2>3, <2>4
<1>9. CASE Removes(r, b)
  <2> DEFINE k == Key(rd[r])
             x == rd[r].slot
  <2>0. /\ InFlight(rd[r], flight, slot) /\ OwnerOf(rd[r]) /\ x \in Readers /\ slot' = slot
        /\ flight[k] = x /\ slot[x].val # <<>> /\ flight' = [flight EXCEPT ![k] = None]
    BY <1>2, <1>9 DEF Removes, InFlight, OwnerOf
  <2>1. \A d : d # k => flight'[d] = flight[d]
    BY <1>0, <2>0
  <2>2. ASSUME NEW s \in Readers, s # r PROVE InFlight(rd[s], flight', slot')
    <3>1. InFlight(rd[s], flight, slot)
      BY <1>2
    <3>2. CASE Key(rd[s]) # k
      BY <2>0, <2>1, <3>1, <3>2 DEF InFlight
    <3>3. CASE Key(rd[s]) = k
      <4>1. ~OwnerOf(rd[s]) /\ ~(rd[s].pc = "lock" /\ slot[rd[s].slot].val = <<>>)
        <5>1. OwnerOf(rd[s]) => rd[s].slot = x
          BY <2>0, <3>1, <3>3 DEF InFlight, OwnerOf
        <5>2. rd[s].pc = "lock" /\ slot[rd[s].slot].val = <<>> => rd[s].slot = x
          BY <2>0, <3>1, <3>3 DEF InFlight
        <5> QED
          BY <1>2, <2>0, <2>2, <5>1, <5>2
      <4> QED
        BY <2>0, <3>1, <4>1 DEF InFlight, OwnerOf
    <3> QED
      BY <3>2, <3>3
  <2> QED
    BY <1>3, <1>4, <1>9, <2>2 DEF Removes
<1> QED
  BY <1>5, <1>6, <1>7, <1>8, <1>9 DEF Moves, Table

(* What is stored is current, or marked.                                   *)
LEMMA MoveClear ==
    ASSUME ReadInv, ClearInv, NEW r \in Readers, NEW b, Moves(r, b)
    PROVE  ClearInv'
<1>0. cache \in [Docs -> [tree : Seq(Version), late : BOOLEAN]]
  BY ReadFacts
<1>1. UNCHANGED <<row, wr, left>>
  BY DEF Moves
<1>2. CASE cache' = cache
  BY <1>1, <1>2 DEF ClearInv, Owes
<1>3. ASSUME NEW d \in Docs, NEW tree \in Seq(Version), Store(d, tree)
      PROVE  ClearInv'
  <2>1. /\ cache'[d].tree = tree /\ cache'[d].late = Outdated(tree)
        /\ \A e \in Docs : e # d => cache'[e] = cache[e]
    BY <1>0, <1>3 DEF Store
  <2>2. ~Outdated(tree) => \A i \in DOMAIN tree : tree[i].ver = row[tree[i].doc].ver
    BY DEF Outdated
  <2>3. ASSUME NEW e \in Docs, ~cache'[e].late, NEW i \in DOMAIN cache'[e].tree,
               LET v == cache'[e].tree[i] IN v.ver # row[v.doc].ver
        PROVE  LET v == cache'[e].tree[i]
               IN  /\ row[v.doc].by \in Writers
                   /\ row[v.doc].by \notin Silent => Owes(row[v.doc].by, e)
    <3>1. CASE e = d
      BY <2>1, <2>2, <2>3, <3>1
    <3>2. CASE e # d
      BY <2>1, <2>3, <3>2 DEF ClearInv
    <3> QED
      BY <3>1, <3>2
  <2> QED
    BY <1>1, <2>3 DEF ClearInv, Owes
<1> QED
  BY <1>2, <1>3 DEF Moves, Stores

(* A read that joins those that insert has found room.                     *)
LEMMA MoveCap ==
    ASSUME ReadInv, CapInv, NEW r \in Readers, NEW b, Moves(r, b)
    PROVE  CapInv'
<1>0. /\ rd \in [Readers -> Read] /\ rd' = [rd EXCEPT ![r] = b]
      /\ cache \in [Docs -> [tree : Seq(Version), late : BOOLEAN]]
  BY ReadFacts DEF Moves
<1>1. rd'[r] = b /\ \A s \in Readers : s # r => rd'[s] = rd[s]
  BY <1>0
<1>2. /\ IsFiniteSet(Claimed) /\ Cardinality(Claimed) < MaxEntries + Cardinality(Readers)
      /\ Cardinality(Claimed) \in Nat /\ MaxEntries \in Nat /\ Cardinality(Readers) \in Nat
      /\ IsFiniteSet(Readers)
  BY CacheAssumption, FS_CardinalityType DEF CapInv
<1>3. ASSUME Claimed' \subseteq Claimed PROVE CapInv'
  <2>1. IsFiniteSet(Claimed') /\ Cardinality(Claimed') <= Cardinality(Claimed)
    BY <1>2, <1>3, FS_Subset
  <2>2. Cardinality(Claimed') \in Nat
    BY <2>1, FS_CardinalityType
  <2> QED
    BY <1>2, <2>1, <2>2 DEF CapInv
<1>4. \A s \in Inserting' : s # r => s \in Inserting /\ Place(rd'[s]) = Place(rd[s])
  BY <1>1 DEF Inserting
<1>5. CASE cache' = cache /\ b.pc \notin Inserts
  <2>1. r \notin Inserting' /\ Cached' = Cached
    BY <1>1, <1>5 DEF Inserting, Inserts, Cached
  <2> QED
    BY <1>3, <1>4, <2>1 DEF Claimed
<1>6. CASE cache' = cache /\ Room(Place(b))
  <2>0. Cached' = Cached
    BY <1>6 DEF Cached
  <2>1. CASE Place(b) \in Cached
    BY <1>1, <1>3, <1>4, <2>0, <2>1 DEF Claimed
  <2>2. CASE Cardinality(Cached) < MaxEntries
    <3> DEFINE Places == {Place(rd'[s]) : s \in Inserting'}
               f == [s \in Inserting' |-> Place(rd'[s])]
    <3>1. Inserting' \subseteq Readers
      BY DEF Inserting
    <3>2. IsFiniteSet(Inserting') /\ Cardinality(Inserting') <= Cardinality(Readers)
      BY <1>2, <3>1, FS_Subset
    <3>3. f \in Surjection(Inserting', Places)
      BY DEF Surjection
    <3>4. IsFiniteSet(Places) /\ Cardinality(Places) <= Cardinality(Inserting')
      BY <3>2, <3>3, FS_Surjection
    <3>5. IsFiniteSet(Cached)
      BY <1>2, FS_Subset DEF Claimed
    <3>6. Claimed' = Cached \cup Places
      BY <2>0 DEF Claimed
    <3> HIDE DEF Places, f
    <3>7. /\ IsFiniteSet(Claimed')
          /\ Cardinality(Claimed') = Cardinality(Cached) + Cardinality(Places)
                                     - Cardinality(Cached \cap Places)
      BY <3>4, <3>5, <3>6, FS_Union
    <3>8. /\ Cardinality(Cached \cap Places) \in Nat /\ Cardinality(Cached) \in Nat
          /\ Cardinality(Places) \in Nat /\ Cardinality(Inserting') \in Nat
      BY <3>2, <3>4, <3>5, FS_Intersection, FS_CardinalityType
    <3>9. Cardinality(Claimed') < MaxEntries + Cardinality(Readers)
      BY <1>2, <2>2, <3>2, <3>4, <3>7, <3>8
    <3> QED
      BY <3>7, <3>9 DEF CapInv
  <2> QED
    BY <1>6, <2>1, <2>2 DEF Room
<1>7. ASSUME rd[r].pc \in Inserts, b.pc \notin Inserts, NEW tree, Store(Place(rd[r]), tree)
      PROVE  CapInv'
  <2>1. r \in Inserting /\ r \notin Inserting'
    BY <1>1, <1>7 DEF Inserting, Inserts
  <2>2. Cached' \subseteq Cached \cup {Place(rd[r])}
    BY <1>0, <1>7 DEF Cached, Store
  <2> QED
    BY <1>3, <1>4, <2>1, <2>2 DEF Claimed
<1> QED
  BY <1>5, <1>6, <1>7 DEF Moves, Stores

-----------------------------------------------------------------------------
\* The steps of a read.

Plain == {"unwind", "prefetch", "lookup", "enter", "done", "panicked"}

LEMMA PlainMoves ==
    ASSUME NEW r \in Readers, NEW b, Good(b), rd' = [rd EXCEPT ![r] = b], b.pc \in Plain,
           UNCHANGED <<periodic, row, wr, left, cache, flight, slot>>
    PROVE  Moves(r, b)
<1>1. Outside(b) /\ b.pc \notin Inserts
  BY DEF Outside, OwnerOf, Own, Plain, Inserts
<1> QED
  BY <1>1 DEF Moves, Stores, Table, Quiet

LEMMA SelectFacts ==
    ASSUME ReadInv, NEW d \in Docs
    PROVE  /\ Select(d) \in Seq(Version) /\ Len(Select(d)) <= 1
           /\ Select(d) # <<>> => Len(Select(d)) = 1 /\ Select(d)[1].doc = d
<1>1. row[d].ver \in Nat
  BY ReadFacts
<1>2. PICK v : v = [doc |-> d, ver |-> row[d].ver]
  OBVIOUS
<1>3. v \in Version /\ v.doc = d
  BY <1>1, <1>2 DEF Version
<1>4. <<v>> \in Seq(Version) /\ Len(<<v>>) = 1 /\ <<v>>[1] = v
  BY <1>3
<1>5. <<>> \in Seq(Version) /\ Len(<<>>) = 0
  BY EmptySeq
<1>6. CASE row[d].gone
  BY <1>5, <1>6 DEF Select, Missing
<1>7. CASE ~row[d].gone
  BY <1>2, <1>3, <1>4, <1>7 DEF Select
<1> QED
  BY <1>6, <1>7

LEMMA TakeStep ==
    ASSUME ReadInv, NEW r \in Readers, rd[r].pc \in Asks, NEW got \in Seq(Version), Len(got) <= 1,
           rd' = Take(r, got)
    PROVE  \E b : Good(b) /\ rd' = [rd EXCEPT ![r] = b] /\ b.pc \in {"unwind", "prefetch", "lookup"}
<1> DEFINE o == rd[r]
<1>0. rd \in [Readers -> Read] /\ Good(o)
  BY ReadFacts
<1>1. PICK path : path = o.path \o got
  OBVIOUS
<1>2. PICK b : b = [o EXCEPT !.path = path, !.hold = <<>>, !.slot = None,
                             !.pc = IF got = <<>> THEN "unwind" ELSE Descend(o.mode, o.depth, path)]
  OBVIOUS
<1>3. Good(b) /\ b.pc \in {"unwind", "prefetch", "lookup"}
  BY <1>0, <1>1, <1>2, Takes
<1>4. rd' = [rd EXCEPT ![r] = b]
  BY <1>0, <1>1, <1>2 DEF Take, Missing
<1> QED
  BY <1>3, <1>4

LEMMA NoReadFacts ==
    NoRead \in Read /\ NoRead.path = <<>> /\ Len(NoRead.path) = 0 /\ Len(NoRead.hold) <= 1
<1>1. PICK none \in Seq(Version) : none = <<>> /\ Len(none) = 0 /\ Len(none) <= 1
  <2>1. <<>> \in Seq(Version) /\ Len(<<>>) = 0 /\ Len(<<>>) <= 1
    BY EmptySeq
  <2> QED
    BY <2>1, Zenon
<1>2. PICK n : n = [pc |-> "idle", mode |-> "one", depth |-> 0, path |-> none,
                    slot |-> None, hold |-> none, tail |-> none]
  OBVIOUS
<1>3. n \in Read /\ n.path = none /\ n.hold = none
  BY <1>1, <1>2 DEF Read, Modes
<1>4. NoRead = n
  BY <1>1, <1>2 DEF NoRead
<1> QED
  BY <1>1, <1>3, <1>4, Zenon

LEMMA BeginMoves ==
    ASSUME ReadInv, NEW r \in Readers, NEW q \in Requests, Begin(r, q)
    PROVE  \E b : Moves(r, b)
<1>0. q.mode \in Modes /\ q.root \in Docs /\ q.depth \in Nat
  BY CacheAssumption
<1>1. row[q.root].ver \in Nat
  BY <1>0, ReadFacts
<1>2. PICK path : path = <<[doc |-> q.root, ver |-> row[q.root].ver]>>
  OBVIOUS
<1>3. path \in Seq(Version) /\ Len(path) = 1 /\ path # <<>>
  <2>1. [doc |-> q.root, ver |-> row[q.root].ver] \in Version
    BY <1>0, <1>1 DEF Version
  <2> QED
    BY <1>2, <2>1
<1>4. PICK pc : pc = Descend(q.mode, q.depth, path)
  OBVIOUS
<1>5. /\ pc \in {"unwind", "prefetch", "lookup"}
      /\ pc # "unwind" => Len(path) <= q.depth /\ Ref[Last(path).doc] \in Docs
  BY <1>0, <1>3, <1>4, DescendPc
<1>6. NoRead \in Read /\ Len(NoRead.hold) <= 1
  BY NoReadFacts
<1>7. PICK b : b = [NoRead EXCEPT !.pc = pc, !.mode = q.mode, !.depth = q.depth, !.path = path]
  OBVIOUS
<1>8. rd' = [rd EXCEPT ![r] = b] /\ UNCHANGED <<periodic, row, wr, left, cache, flight, slot>>
  BY <1>2, <1>4, <1>7 DEF Begin, WriteSide
<1>9. /\ b \in Read /\ b.pc = pc /\ b.path = path /\ b.hold = NoRead.hold /\ b.depth = q.depth
  BY <1>0, <1>3, <1>5, <1>6, <1>7 DEF Read
<1>10. 1 <= q.depth + 1
  BY <1>0
<1>11. Len(b.path) <= b.depth + 1 /\ Len(b.hold) <= 1
  BY <1>3, <1>6, <1>9, <1>10
<1>12. b.pc \in Plain /\ (b.pc \in Asks => b.pc # "unwind")
  BY <1>5, <1>9 DEF Plain, Asks
<1>13. Good(b)
  BY <1>3, <1>5, <1>9, <1>11, <1>12 DEF Good, Key
<1> QED
  BY <1>8, <1>12, <1>13, PlainMoves

LEMMA LookupMoves ==
    ASSUME ReadInv, NEW r \in Readers, find_by_ids(r) \/ cache_get_doc(r)
    PROVE  \E b : Moves(r, b)
<1> DEFINE o == rd[r]
           k == Key(o)
<1>0. /\ rd \in [Readers -> Read] /\ Good(o) /\ o \in Read /\ Target(r) = k
      /\ UNCHANGED <<periodic, row, wr, left, cache, flight, slot>>
      /\ o.pc \in {"prefetch", "lookup"}
  BY ReadFacts DEF Good, Target, Key, find_by_ids, cache_get_doc, WriteSide
<1>1. /\ k \in Docs /\ o.pc \in Asks /\ o.hold \in Seq(Version) /\ Len(o.hold) <= 1
      /\ Len(o.path) <= o.depth /\ o.path # <<>> /\ Len(o.path) <= o.depth + 1
  BY <1>0 DEF Good, Asks, Read
<1>2. CASE find_by_ids(r)
  <2>1. PICK got : got = Select(k)
    OBVIOUS
  <2>2. got \in Seq(Version) /\ Len(got) <= 1
    BY <1>1, <2>1, SelectFacts
  <2>3. PICK b : b = [o EXCEPT !.hold = got, !.pc = "lookup"]
    OBVIOUS
  <2>4. /\ b \in Read /\ b.pc = "lookup" /\ b.hold = got /\ b.path = o.path /\ b.depth = o.depth
    BY <1>0, <2>2, <2>3 DEF Read
  <2>5. rd' = [rd EXCEPT ![r] = b]
    BY <1>0, <1>2, <2>1, <2>3 DEF find_by_ids
  <2>6. Good(b) /\ b.pc \in Plain
    BY <1>1, <2>2, <2>4 DEF Good, Key, Plain
  <2> QED
    BY <1>0, <2>5, <2>6, PlainMoves
<1>3. CASE cache_get_doc(r) /\ cache[k].tree # <<>>
  <2>1. PICK none \in Seq(Version) : none = <<>> /\ Len(none) <= 1
    <3>1. <<>> \in Seq(Version) /\ Len(<<>>) <= 1
      BY EmptySeq
    <3> QED
      BY <3>1, Zenon
  <2>2. cache[k].tree \in Seq(Version)
    BY <1>1, ReadFacts
  <2>3. PICK b : b = [o EXCEPT !.tail = cache[k].tree, !.hold = none, !.pc = "unwind"]
    OBVIOUS
  <2>4. /\ b \in Read /\ b.pc = "unwind" /\ b.hold = none /\ b.path = o.path /\ b.depth = o.depth
    BY <1>0, <2>1, <2>2, <2>3 DEF Read
  <2>5. rd' = [rd EXCEPT ![r] = b]
    BY <1>0, <1>3, <2>1, <2>3 DEF cache_get_doc
  <2>6. Good(b) /\ b.pc \in Plain
    BY <1>1, <2>1, <2>4 DEF Good, Key, Plain, Asks
  <2> QED
    BY <1>0, <2>5, <2>6, PlainMoves
<1>4. CASE cache_get_doc(r) /\ cache[k].tree = <<>> /\ o.mode = "many"
  <2>1. rd' = Take(r, o.hold)
    BY <1>0, <1>4 DEF cache_get_doc
  <2>2. \E b : Good(b) /\ rd' = [rd EXCEPT ![r] = b] /\ b.pc \in {"unwind", "prefetch", "lookup"}
    BY <1>1, <2>1, TakeStep
  <2> QED
    BY <1>0, <2>2, PlainMoves DEF Plain
<1>5. CASE cache_get_doc(r) /\ cache[k].tree = <<>> /\ o.mode # "many"
  <2>1. PICK pc \in {"enter", "fetch"} :
           rd' = [rd EXCEPT ![r].pc = pc] /\ pc = IF Shared(r) THEN "enter" ELSE "fetch"
    BY <1>0, <1>5 DEF cache_get_doc
  <2>2. PICK b : b = [o EXCEPT !.pc = pc]
    OBVIOUS
  <2>3. /\ b \in Read /\ b.pc = pc /\ b.hold = o.hold /\ b.path = o.path /\ b.depth = o.depth
        /\ b.mode = o.mode
    BY <1>0, <2>1, <2>2 DEF Read
  <2>4. rd' = [rd EXCEPT ![r] = b]
    BY <1>0, <2>1, <2>2
  <2>5. Good(b)
    BY <1>1, <2>1, <2>3 DEF Good, Key, Shared
  <2>6. Outside(b) /\ b.pc \notin Inserts
    BY <2>1, <2>3 DEF Outside, OwnerOf, Own, Shared, Inserts
  <2> QED
    BY <1>0, <2>4, <2>5, <2>6 DEF Moves, Stores, Table, Quiet
<1> QED
  BY <1>2, <1>3, <1>4, <1>5

LEMMA SlotMoves ==
    ASSUME ReadInv, FlightInv, NEW r \in Readers,
           FindSlot(r) \/ LockSlot(r) \/ LockPoisoned(r) \/ PublishValue(r) \/ RemoveSlot(r)
    PROVE  \E b : Moves(r, b)
<1> DEFINE o == rd[r]
           k == Key(o)
<1>0. /\ rd \in [Readers -> Read] /\ Good(o) /\ o \in Read /\ Target(r) = k
      /\ UNCHANGED <<periodic, row, wr, left, cache>> /\ slot \in [Readers -> Slot]
      /\ flight \in [Docs -> Readers \cup {None}]
      /\ o.pc \in {"enter", "lock", "publish", "remove"}
  BY ReadFacts DEF Good, Target, Key, FindSlot, LockSlot, LockPoisoned, PublishValue, RemoveSlot,
                   WriteSide
<1>1. /\ k \in Docs /\ o.pc \in Asks /\ o.hold \in Seq(Version) /\ Len(o.hold) <= 1
      /\ Len(o.path) <= o.depth /\ o.path # <<>> /\ Len(o.path) <= o.depth + 1
      /\ o.mode = "one" /\ Len(o.path) = 1
  BY <1>0 DEF Good, Asks, Read
<1>2. InFlight(o, flight, slot) /\ (o.pc # "enter" => o.slot \in Readers)
  BY <1>0, <1>1 DEF FlightInv, InFlight, Own
<1>3. CASE FindSlot(r)
  <2>1. PICK s : s = IF flight[k] = None THEN r ELSE flight[k]
    OBVIOUS
  <2>2. s \in Readers
    BY <1>0, <1>1, <2>1
  <2>3. PICK b : b = [o EXCEPT !.pc = "lock", !.slot = s]
    OBVIOUS
  <2>4. /\ b \in Read /\ b.pc = "lock" /\ b.slot = s /\ b.path = o.path /\ b.hold = o.hold
        /\ b.depth = o.depth /\ b.mode = o.mode
    BY <1>0, <2>2, <2>3 DEF Read
  <2>5. /\ rd' = [rd EXCEPT ![r] = b] /\ flight' = [flight EXCEPT ![k] = s] /\ UNCHANGED slot
        /\ o.pc = "enter"
    BY <1>0, <1>3, <2>1, <2>3 DEF FindSlot
  <2>6. Good(b)
    BY <1>1, <2>4 DEF Good, Key
  <2>7. b.pc \notin Inserts
    BY <2>4 DEF Inserts
  <2>8. Finds(r, b)
    BY <2>1, <2>4, <2>5 DEF Finds
  <2> QED
    BY <1>0, <2>5, <2>6, <2>7, <2>8 DEF Moves, Stores, Table
<1>4. CASE LockSlot(r) /\ slot[o.slot].val # <<>>
  <2>1. PICK got : got = slot[o.slot].val[1]
    OBVIOUS
  <2>2. got \in Seq(Version) /\ Len(got) <= 1
    <3>1. o.slot \in Readers
      BY <1>2, <1>4 DEF LockSlot
    <3>2. slot[o.slot].val \in Seq(Seq(Version)) /\ Filled(slot[o.slot])
      BY <1>0, <3>1 DEF Slot, ReadInv
    <3>3. Len(slot[o.slot].val) \in Nat \ {0}
      BY <1>4, <3>2, EmptySeq, LenProperties
    <3> QED
      BY <1>4, <2>1, <3>2, <3>3, ElementOfSeq DEF Filled
  <2>3. rd' = Take(r, got) /\ UNCHANGED <<flight, slot>>
    BY <1>0, <1>4, <2>1 DEF LockSlot
  <2>4. \E b : Good(b) /\ rd' = [rd EXCEPT ![r] = b] /\ b.pc \in {"unwind", "prefetch", "lookup"}
    BY <1>1, <2>2, <2>3, TakeStep
  <2> QED
    BY <1>0, <2>3, <2>4, PlainMoves DEF Plain
<1>5. CASE LockSlot(r) /\ slot[o.slot].val = <<>>
  <2>1. /\ slot[o.slot].lock = "free" /\ rd' = [rd EXCEPT ![r].pc = "fetch"] /\ UNCHANGED flight
        /\ slot' = [slot EXCEPT ![o.slot].lock = "held"] /\ o.pc = "lock"
    BY <1>0, <1>5 DEF LockSlot
  <2>2. slot[o.slot] = [val |-> <<>>, lock |-> "free"]
    BY <1>0, <1>2, <1>5, <2>1 DEF Slot
  <2>3. slot' = [slot EXCEPT ![o.slot] = [val |-> <<>>, lock |-> "held"]]
    <3>1. PICK none : none = <<>>
      OBVIOUS
    <3>2. [slot[o.slot] EXCEPT !.lock = "held"] = [val |-> none, lock |-> "held"]
      BY <2>2, <3>1
    <3>3. slot' = [slot EXCEPT ![o.slot] = [slot[o.slot] EXCEPT !.lock = "held"]]
      BY <2>1
    <3> QED
      BY <3>1, <3>2, <3>3
  <2>4. PICK b : b = [o EXCEPT !.pc = "fetch"]
    OBVIOUS
  <2>5. /\ b \in Read /\ b.pc = "fetch" /\ b.slot = o.slot /\ b.path = o.path /\ b.hold = o.hold
        /\ b.depth = o.depth /\ b.mode = o.mode
    BY <1>0, <2>4 DEF Read
  <2>6. rd' = [rd EXCEPT ![r] = b]
    BY <1>0, <2>1, <2>4
  <2>7. Good(b) /\ b.pc \notin Inserts
    BY <1>1, <2>5 DEF Good, Key, Inserts
  <2>8. Locks(r, b)
    BY <1>1, <2>1, <2>2, <2>3, <2>5 DEF Locks, Own
  <2> QED
    BY <1>0, <2>6, <2>7, <2>8 DEF Moves, Stores, Table
<1>6. CASE LockPoisoned(r)
  <2>1. PICK b : b = [NoRead EXCEPT !.pc = "panicked"]
    OBVIOUS
  <2>2. /\ b \in Read /\ b.pc = "panicked" /\ b.path = NoRead.path /\ b.hold = NoRead.hold
    BY <2>1, NoReadFacts DEF Read
  <2>3. Len(b.path) <= b.depth + 1 /\ Len(b.hold) <= 1
    BY <2>2, NoReadFacts DEF Read
  <2>4. rd' = [rd EXCEPT ![r] = b] /\ UNCHANGED <<flight, slot>>
    BY <1>6, <2>1 DEF LockPoisoned
  <2>5. Good(b) /\ b.pc \in Plain
    BY <2>2, <2>3 DEF Good, Plain, Asks
  <2> QED
    BY <1>0, <2>4, <2>5, PlainMoves
<1>7. CASE PublishValue(r)
  <2>1. PICK b : b = [o EXCEPT !.pc = "remove"]
    OBVIOUS
  <2>2. /\ b \in Read /\ b.pc = "remove" /\ b.slot = o.slot /\ b.path = o.path /\ b.hold = o.hold
        /\ b.depth = o.depth /\ b.mode = o.mode
    BY <1>0, <2>1 DEF Read
  <2>3. /\ rd' = [rd EXCEPT ![r] = b] /\ UNCHANGED flight /\ o.pc = "publish"
        /\ slot' = [slot EXCEPT ![o.slot] = [val |-> <<o.hold>>, lock |-> "free"]]
    BY <1>0, <1>7, <2>1 DEF PublishValue
  <2>4. Good(b) /\ b.pc \notin Inserts
    BY <1>1, <2>2 DEF Good, Key, Inserts
  <2>5. Publishes(r, b)
    BY <1>1, <2>2, <2>3 DEF Publishes, Own
  <2> QED
    BY <1>0, <2>3, <2>4, <2>5 DEF Moves, Stores, Table
<1>8. CASE RemoveSlot(r)
  <2>1. /\ rd' = Take(r, o.hold) /\ flight' = [flight EXCEPT ![k] = None] /\ UNCHANGED slot
        /\ o.pc = "remove"
    BY <1>0, <1>8 DEF RemoveSlot
  <2>2. PICK b : Good(b) /\ rd' = [rd EXCEPT ![r] = b] /\ b.pc \in {"unwind", "prefetch", "lookup"}
    BY <1>1, <2>1, TakeStep
  <2>3. Outside(b) /\ b.pc \notin Inserts
    BY <2>2 DEF Outside, OwnerOf, Own, Inserts
  <2>4. Removes(r, b)
    BY <2>1, <2>3 DEF Removes
  <2> QED
    BY <1>0, <2>2, <2>3, <2>4 DEF Moves, Stores, Table
<1> QED
  BY <1>3, <1>4, <1>5, <1>6, <1>7, <1>8 DEF LockSlot

(* A read that fetches or stores the raw document stays the owner of its   *)
(* slot, if it has one.                                                    *)
LEMMA OwnerMoves ==
    ASSUME ReadInv, NEW r \in Readers, NEW b, Good(b), rd' = [rd EXCEPT ![r] = b],
           UNCHANGED <<periodic, row, wr, left, flight, slot>>, Stores(r, b),
           b.mode = rd[r].mode, b.path = rd[r].path, b.slot = rd[r].slot, Own(rd[r]) <=> Own(b),
           b.pc \notin {"lock", "remove"}
    PROVE  Moves(r, b)
<1>1. CASE Own(b)
  BY <1>1 DEF Moves, Table, Quiet
<1>2. CASE ~Own(b)
  BY <1>2 DEF Moves, Table, Quiet, Outside, OwnerOf
<1> QED
  BY <1>1, <1>2

LEMMA FetchMoves ==
    ASSUME ReadInv, FlightInv, NEW r \in Readers,
           find_by_id(r) \/ FetchFails(r) \/ FetchPanics(r)
    PROVE  \E b : Moves(r, b)
<1> DEFINE o == rd[r]
           k == Key(o)
<1>0. /\ rd \in [Readers -> Read] /\ Good(o) /\ o \in Read /\ Target(r) = k /\ o.pc = "fetch"
      /\ UNCHANGED <<periodic, row, wr, left, cache, flight>> /\ slot \in [Readers -> Slot]
  BY ReadFacts DEF Good, Target, Key, find_by_id, FetchFails, FetchPanics, WriteSide
<1>1. /\ k \in Docs /\ o.pc \in Asks /\ o.hold \in Seq(Version) /\ Len(o.hold) <= 1
      /\ Len(o.path) <= o.depth /\ o.path # <<>> /\ Len(o.path) <= o.depth + 1
  BY <1>0 DEF Good, Asks, Read
<1>2. ASSUME NEW got \in Seq(Version), Len(got) <= 1, rd' = Fetched(r, got), UNCHANGED slot,
             got # <<>> => Len(got) = 1 /\ got[1].doc = k
      PROVE  \E b : Moves(r, b)
  <2>1. CASE o.mode # "one"
    <3>1. \E b : Good(b) /\ rd' = [rd EXCEPT ![r] = b] /\ b.pc \in {"unwind", "prefetch", "lookup"}
      BY <1>1, <1>2, <2>1, TakeStep DEF Fetched
    <3> QED
      BY <1>0, <1>2, <3>1, PlainMoves DEF Plain
  <2>2. CASE o.mode = "one"
    <3>1. PICK pc : pc = IF got # <<>> THEN "set_raw" ELSE IF Shared(r) THEN "publish" ELSE "unwind"
      OBVIOUS
    <3>2. PICK b : b = [o EXCEPT !.hold = got, !.pc = pc]
      OBVIOUS
    <3>3. /\ b \in Read /\ b.pc = pc /\ b.hold = got /\ b.path = o.path /\ b.depth = o.depth
          /\ b.mode = o.mode /\ b.slot = o.slot
      BY <1>0, <1>2, <3>1, <3>2 DEF Read
    <3>4. rd' = [rd EXCEPT ![r] = b]
      BY <1>0, <1>2, <2>2, <3>1, <3>2 DEF Fetched, Missing
    <3>5. Good(b)
      BY <1>1, <1>2, <2>2, <3>1, <3>3 DEF Good, Key, Shared
    <3>6. (Own(o) <=> Own(b)) /\ b.pc \notin {"lock", "remove"} /\ b.pc \notin Inserts
      BY <1>0, <2>2, <3>1, <3>3 DEF Own, Shared, Inserts
    <3>7. Stores(r, b)
      BY <1>0, <3>6 DEF Stores
    <3> QED
      BY <1>0, <1>2, <3>3, <3>4, <3>5, <3>6, <3>7, OwnerMoves
  <2> QED
    BY <2>1, <2>2
<1>3. CASE find_by_id(r)
  <2>1. PICK got : got = Select(k)
    OBVIOUS
  <2>2. got \in Seq(Version) /\ Len(got) <= 1 /\ (got # <<>> => Len(got) = 1 /\ got[1].doc = k)
    BY <1>1, <2>1, SelectFacts
  <2>3. rd' = Fetched(r, got) /\ UNCHANGED slot
    BY <1>0, <1>3, <2>1 DEF find_by_id
  <2> QED
    BY <1>2, <2>2, <2>3
<1>4. CASE FetchFails(r) /\ o.mode = "one"
  <2>1. PICK none \in Seq(Version) : none = <<>> /\ Len(none) <= 1
    <3>1. <<>> \in Seq(Version) /\ Len(<<>>) <= 1
      BY EmptySeq
    <3> QED
      BY <3>1, Zenon
  <2>2. rd' = Fetched(r, none) /\ UNCHANGED slot
    BY <1>4, <2>1 DEF FetchFails, Missing
  <2> QED
    BY <1>2, <2>1, <2>2
<1>5. CASE FetchFails(r) /\ o.mode # "one"
  <2>1. PICK b : b = [o EXCEPT !.pc = "done"]
    OBVIOUS
  <2>2. /\ b \in Read /\ b.pc = "done" /\ b.hold = o.hold /\ b.path = o.path /\ b.depth = o.depth
    BY <1>0, <2>1 DEF Read
  <2>3. rd' = [rd EXCEPT ![r] = b] /\ UNCHANGED slot
    BY <1>0, <1>5, <2>1 DEF FetchFails
  <2>4. Good(b) /\ b.pc \in Plain
    BY <1>1, <2>2 DEF Good, Key, Plain, Asks
  <2> QED
    BY <1>0, <2>3, <2>4, PlainMoves
<1>6. CASE FetchPanics(r)
  <2>1. PICK b : b = [NoRead EXCEPT !.pc = "panicked"]
    OBVIOUS
  <2>2. /\ b \in Read /\ b.pc = "panicked" /\ b.path = NoRead.path /\ b.hold = NoRead.hold
    BY <2>1, NoReadFacts DEF Read
  <2>3. Len(b.path) <= b.depth + 1 /\ Len(b.hold) <= 1
    BY <2>2, NoReadFacts DEF Read
  <2>4. rd' = [rd EXCEPT ![r] = b] /\ slot' = [slot EXCEPT ![o.slot].lock = "poisoned"] /\ Shared(r)
    BY <1>6, <2>1 DEF FetchPanics
  <2>5. Good(b) /\ Outside(b) /\ b.pc \notin Inserts
    BY <2>2, <2>3 DEF Good, Asks, Outside, OwnerOf, Own, Inserts
  <2>6. Own(o)
    BY <1>0, <2>4 DEF Own, Shared
  <2>7. o.slot \in Readers /\ slot[o.slot].val = <<>> /\ slot[o.slot].lock = "held"
    BY <2>6 DEF FlightInv, InFlight
  <2>8. slot' = [slot EXCEPT ![o.slot] = [val |-> <<>>, lock |-> "poisoned"]]
    <3>1. PICK none : none = <<>>
      OBVIOUS
    <3>0. slot[o.slot] = [val |-> none, lock |-> "held"]
      BY <1>0, <2>7, <3>1 DEF Slot
    <3>2. [slot[o.slot] EXCEPT !.lock = "poisoned"] = [val |-> none, lock |-> "poisoned"]
      BY <3>0
    <3>3. slot' = [slot EXCEPT ![o.slot] = [slot[o.slot] EXCEPT !.lock = "poisoned"]]
      BY <2>4
    <3> QED
      BY <3>1, <3>2, <3>3
  <2>9. Panics(r, b)
    BY <1>0, <2>5, <2>6, <2>8 DEF Panics
  <2> QED
    BY <1>0, <2>4, <2>5, <2>9 DEF Moves, Stores, Table
<1> QED
  BY <1>3, <1>4, <1>5, <1>6

LEMMA RawMoves ==
    ASSUME ReadInv, NEW r \in Readers, SetRaw(r) \/ InsertRaw(r)
    PROVE  \E b : Moves(r, b)
<1> DEFINE o == rd[r]
           k == Key(o)
<1>0. /\ rd \in [Readers -> Read] /\ Good(o) /\ o \in Read /\ Target(r) = k
      /\ UNCHANGED <<periodic, row, wr, left, flight, slot>>
      /\ o.pc \in {"set_raw", "insert_raw"}
  BY ReadFacts DEF Good, Target, Key, SetRaw, InsertRaw, WriteSide
<1>1. /\ k \in Docs /\ o.pc \in Asks /\ o.hold \in Seq(Version) /\ Len(o.hold) <= 1
      /\ Len(o.path) <= o.depth /\ o.path # <<>> /\ Len(o.path) <= o.depth + 1
      /\ o.mode = "one" /\ Len(o.hold) = 1 /\ o.hold[1].doc = k
  BY <1>0 DEF Good, Asks, Read
<1>2. ASSUME rd' = AfterRaw(r),
             \/ cache' = cache
             \/ o.pc = "insert_raw" /\ Store(k, o.hold)
      PROVE  \E b : Moves(r, b)
  <2>0. ASSUME NEW b, b.pc \notin Inserts PROVE Stores(r, b)
    <3>1. CASE cache' = cache
      BY <2>0, <3>1 DEF Stores
    <3>2. CASE o.pc = "insert_raw" /\ Store(k, o.hold)
      <4>1. o.hold # <<>>
        BY <1>1, EmptySeq
      <4>2. Place(o) = k /\ o.pc \in Inserts
        BY <3>2 DEF Place, Inserts
      <4> QED
        BY <1>1, <2>0, <3>2, <4>1, <4>2 DEF Stores
    <3> QED
      BY <1>2, <3>1, <3>2
  <2>1. CASE Shared(r)
    <3>1. PICK b : b = [o EXCEPT !.pc = "publish"]
      OBVIOUS
    <3>2. /\ b \in Read /\ b.pc = "publish" /\ b.hold = o.hold /\ b.path = o.path
          /\ b.depth = o.depth /\ b.mode = o.mode /\ b.slot = o.slot
      BY <1>0, <3>1 DEF Read
    <3>3. rd' = [rd EXCEPT ![r] = b]
      BY <1>0, <1>2, <2>1, <3>1 DEF AfterRaw
    <3>4. Good(b)
      BY <1>1, <2>1, <3>2 DEF Good, Key, Shared
    <3>5. (Own(o) <=> Own(b)) /\ b.pc \notin {"lock", "remove"} /\ b.pc \notin Inserts
      BY <1>0, <2>1, <3>2 DEF Own, Shared, Inserts
    <3> QED
      BY <1>0, <2>0, <3>2, <3>3, <3>4, <3>5, OwnerMoves
  <2>2. CASE ~Shared(r)
    <3>1. PICK b : Good(b) /\ rd' = [rd EXCEPT ![r] = b] /\ b.pc \in {"unwind", "prefetch", "lookup"}
      BY <1>1, <1>2, <2>2, TakeStep DEF AfterRaw
    <3>2. Outside(b) /\ b.pc \notin Inserts
      BY <3>1 DEF Outside, OwnerOf, Own, Inserts
    <3> QED
      BY <1>0, <2>0, <3>1, <3>2 DEF Moves, Table, Quiet
  <2> QED
    BY <2>1, <2>2
<1>3. CASE SetRaw(r) /\ Room(k)
  <2>1. PICK b : b = [o EXCEPT !.pc = "insert_raw"]
    OBVIOUS
  <2>2. /\ b \in Read /\ b.pc = "insert_raw" /\ b.hold = o.hold /\ b.path = o.path
        /\ b.depth = o.depth /\ b.mode = o.mode /\ b.slot = o.slot
    BY <1>0, <2>1 DEF Read
  <2>3. rd' = [rd EXCEPT ![r] = b] /\ cache' = cache
    BY <1>0, <1>3, <2>1 DEF SetRaw
  <2>4. Good(b)
    BY <1>1, <2>2 DEF Good, Key
  <2>5. (Own(o) <=> Own(b)) /\ b.pc \notin {"lock", "remove"} /\ Place(b) = k
    BY <1>0, <2>2 DEF Own, Place, Key
  <2>6. Stores(r, b)
    BY <1>3, <2>3, <2>5 DEF Stores
  <2> QED
    BY <1>0, <2>2, <2>3, <2>4, <2>5, <2>6, OwnerMoves
<1>4. CASE SetRaw(r) /\ ~Room(k)
  BY <1>0, <1>2, <1>4 DEF SetRaw
<1>5. CASE InsertRaw(r)
  BY <1>0, <1>2, <1>5 DEF InsertRaw
<1> QED
  BY <1>3, <1>4, <1>5

LEMMA UnwindMoves ==
    ASSUME ReadInv, NEW r \in Readers, cache_set_doc(r) \/ Insert(r) \/ Return(r)
    PROVE  \E b : Moves(r, b)
<1> DEFINE o == rd[r]
<1>0. /\ rd \in [Readers -> Read] /\ Good(o) /\ o \in Read
      /\ UNCHANGED <<periodic, row, wr, left, flight, slot>> /\ o.pc \in {"unwind", "insert"}
  BY ReadFacts DEF Good, cache_set_doc, Insert, Return, WriteSide
<1>1. /\ o.hold \in Seq(Version) /\ Len(o.hold) <= 1 /\ o.path \in Seq(Version)
      /\ o.path # <<>> /\ Len(o.path) <= o.depth + 1 /\ o.tail \in Seq(Version) /\ o.depth \in Nat
  BY <1>0 DEF Good, Read
<1>2. Len(o.path) \in Nat \ {0} /\ Last(o.path) \in Version /\ Last(o.path).doc \in Docs
  BY <1>1, PathFacts
<1>3. PICK tree : tree = Populated(r)
  OBVIOUS
<1>4. tree \in Seq(Version) /\ tree # <<>> /\ tree[1] = Last(o.path)
  <2>1. <<Last(o.path)>> \in Seq(Version) /\ Len(<<Last(o.path)>>) = 1
        /\ <<Last(o.path)>>[1] = Last(o.path)
    BY <1>2
  <2>2. PICK one \in Seq(Version) : one = <<Last(o.path)>> /\ Len(one) = 1 /\ one[1] = Last(o.path)
    BY <2>1, Zenon
  <2>3. tree = one \o o.tail
    BY <1>3, <2>2 DEF Populated
  <2>4. /\ tree \in Seq(Version) /\ Len(tree) = 1 + Len(o.tail) /\ tree[1] = one[1]
        /\ Len(o.tail) \in Nat
    BY <1>1, <2>2, <2>3, ConcatProperties
  <2>5. Len(tree) # 0
    BY <2>4
  <2> QED
    BY <2>2, <2>4, <2>5, EmptySeq
<1>5. ASSUME rd' = Unwound(r), Len(o.path) > 1,
             \/ cache' = cache
             \/ o.pc = "insert" /\ Store(Last(o.path).doc, tree)
      PROVE  \E b : Moves(r, b)
  <2>1. PICK path : path = SubSeq(o.path, 1, Len(o.path) - 1)
    OBVIOUS
  <2>2. path \in Seq(Version) /\ Len(path) = Len(o.path) - 1
    <3>1. /\ 1 \in 1 .. (Len(o.path) + 1) /\ Len(o.path) - 1 \in 0 .. Len(o.path)
          /\ 1 <= Len(o.path) - 1 + 1
      BY <1>2, <1>5
    <3>2. /\ SubSeq(o.path, 1, Len(o.path) - 1) \in Seq(Version)
          /\ Len(SubSeq(o.path, 1, Len(o.path) - 1)) = Len(o.path) - 1
      <4>1. \A i \in 1 .. (Len(o.path) - 1) : i \in 1 .. Len(o.path)
        BY <1>2
      <4>2. Len(o.path) - 1 \in Nat /\ 1 <= Len(o.path)
        BY <1>2, <1>5
      <4> QED
        BY <1>1, <1>2, <3>1, <4>1, <4>2, SubSeqProperties, ElementOfSeq
    <3> QED
      BY <2>1, <3>2
  <2>3. PICK b : b = [o EXCEPT !.pc = "unwind", !.tail = tree, !.path = path]
    OBVIOUS
  <2>4. /\ b \in Read /\ b.pc = "unwind" /\ b.hold = o.hold /\ b.path = path /\ b.depth = o.depth
    BY <1>0, <1>4, <2>2, <2>3 DEF Read
  <2>5. rd' = [rd EXCEPT ![r] = b]
    BY <1>0, <1>3, <1>5, <2>1, <2>3 DEF Unwound
  <2>6. Len(path) # 0 /\ Len(path) <= o.depth + 1
    BY <1>1, <1>2, <1>5, <2>2
  <2>7. path # <<>>
    BY <2>2, <2>6, EmptySeq
  <2>8. Good(b)
    BY <1>1, <2>4, <2>6, <2>7 DEF Good, Asks
  <2>9. Outside(b) /\ b.pc \notin Inserts
    BY <2>4 DEF Outside, OwnerOf, Own, Inserts
  <2>10. Stores(r, b)
    <3>1. CASE cache' = cache
      BY <2>9, <3>1 DEF Stores
    <3>2. CASE o.pc = "insert" /\ Store(Last(o.path).doc, tree)
      <4>1. Place(o) = Last(o.path).doc /\ o.pc \in Inserts
        BY <3>2 DEF Place, Inserts
      <4> QED
        BY <1>2, <1>4, <2>9, <3>2, <4>1 DEF Stores
    <3> QED
      BY <1>5, <3>1, <3>2
  <2> QED
    BY <1>0, <2>5, <2>8, <2>9, <2>10 DEF Moves, Table, Quiet
<1>6. CASE cache_set_doc(r) /\ Room(Last(o.path).doc)
  <2>1. PICK b : b = [o EXCEPT !.pc = "insert"]
    OBVIOUS
  <2>2. /\ b \in Read /\ b.pc = "insert" /\ b.hold = o.hold /\ b.path = o.path /\ b.depth = o.depth
    BY <1>0, <2>1 DEF Read
  <2>3. rd' = [rd EXCEPT ![r] = b] /\ cache' = cache /\ Len(o.path) > 1
    BY <1>0, <1>6, <2>1 DEF cache_set_doc
  <2>4. Good(b)
    BY <1>1, <2>2, <2>3 DEF Good, Asks
  <2>5. Outside(b) /\ Place(b) = Last(o.path).doc
    BY <2>2 DEF Outside, OwnerOf, Own, Place
  <2> QED
    BY <1>0, <1>6, <2>3, <2>4, <2>5 DEF Moves, Stores, Table, Quiet
<1>7. CASE cache_set_doc(r) /\ ~Room(Last(o.path).doc)
  BY <1>5, <1>7 DEF cache_set_doc
<1>8. CASE Insert(r)
  <2>1. Len(o.path) > 1
    BY <1>0, <1>8 DEF Insert, Good
  <2> QED
    BY <1>3, <1>5, <1>8, <2>1 DEF Insert
<1>9. CASE Return(r)
  <2>1. PICK b : b = [o EXCEPT !.pc = "done"]
    OBVIOUS
  <2>2. /\ b \in Read /\ b.pc = "done" /\ b.hold = o.hold /\ b.path = o.path /\ b.depth = o.depth
    BY <1>0, <2>1 DEF Read
  <2>3. rd' = [rd EXCEPT ![r] = b] /\ cache' = cache
    BY <1>0, <1>9, <2>1 DEF Return
  <2>4. Good(b) /\ b.pc \in Plain
    BY <1>1, <2>2 DEF Good, Plain, Asks
  <2> QED
    BY <1>0, <2>3, <2>4, PlainMoves
<1> QED
  BY <1>6, <1>7, <1>8, <1>9

-----------------------------------------------------------------------------
\* The steps of writes and of the clears.

(* Owes, of the values of its variables.                                   *)
Owed(w, d, ws, ls) ==
    ws[w].pc = "committed" \/ (ws[w].pc = "clearing" /\ \E s \in ls[w] : d \in s)

(* A shard is emptied: what is left is what was there.                     *)
LEMMA Empties ==
    ASSUME ReadInv, ClearInv, CapInv, FlightInv, NEW c \in Writers \cup {Timer}, RemoveShard(c)
    PROVE  ReadInv' /\ ClearInv' /\ CapInv' /\ FlightInv'
<1>0. /\ cache \in [Docs -> [tree : Seq(Version), late : BOOLEAN]]
      /\ left \in [Writers \cup {Timer} -> SUBSET Shards]
      /\ UNCHANGED <<periodic, flight, slot, rd, row, wr>>
  BY DEF ReadInv, CacheTypeOK, RemoveShard, ReadSide
<1>1. PICK s \in left[c] : /\ cache' = [d \in Docs |-> IF d \in s THEN NoEntry ELSE cache[d]]
                           /\ left' = [left EXCEPT ![c] = left[c] \ {s}]
  BY DEF RemoveShard
<1>2. \A d \in Docs : cache'[d] = IF d \in s THEN NoEntry ELSE cache[d]
  BY <1>1
<1>3. NoEntry \in [tree : Seq(Version), late : BOOLEAN] /\ NoEntry.tree = <<>>
  <2>1. <<>> \in Seq(Version) /\ FALSE \in BOOLEAN
    BY EmptySeq
  <2> QED
    BY <2>1, Zenon DEF NoEntry
<1>4. ReadInv'
  <2>1. cache' \in [Docs -> [tree : Seq(Version), late : BOOLEAN]]
    BY <1>0, <1>1, <1>3
  <2>2. left' \in [Writers \cup {Timer} -> SUBSET Shards]
    BY <1>0, <1>1
  <2>3. \A d \in Docs : cache'[d].tree # <<>> => cache'[d].tree[1].doc = d
    BY <1>2, <1>3 DEF ReadInv, CacheTypeOK
  <2> QED
    BY <1>0, <2>1, <2>2, <2>3 DEF ReadInv, CacheTypeOK
<1>5. ClearInv'
  <2>1. ASSUME NEW d \in Docs, ~cache'[d].late, NEW i \in DOMAIN cache'[d].tree,
               LET v == cache'[d].tree[i] IN v.ver # row[v.doc].ver
        PROVE  LET v == cache'[d].tree[i]
               IN  /\ row[v.doc].by \in Writers
                   /\ row[v.doc].by \notin Silent => Owed(row[v.doc].by, d, wr', left')
    <3>1. d \notin s /\ cache'[d] = cache[d]
      <4>1. DOMAIN <<>> = {}
        OBVIOUS
      <4> QED
        BY <1>2, <1>3, <2>1, <4>1
    <3>2. PICK w : w = row[cache[d].tree[i].doc].by
      OBVIOUS
    <3>3. w \in Writers /\ (w \notin Silent => Owed(w, d, wr, left))
      BY <2>1, <3>1, <3>2 DEF ClearInv, Owes, Owed
    <3>4. Owed(w, d, wr, left) => Owed(w, d, wr', left')
      <4>1. ASSUME NEW x \in left[w], d \in x PROVE x \in left'[w]
        BY <1>0, <1>1, <3>1, <3>3, <4>1
      <4> QED
        BY <1>0, <3>3, <4>1 DEF Owed
    <3> QED
      BY <1>0, <3>1, <3>2, <3>3, <3>4
  <2> QED
    BY <1>0, <2>1 DEF ClearInv, Owes, Owed
<1>6. CapInv'
  <2>1. Cached' \subseteq Cached
    BY <1>2, <1>3 DEF Cached
  <2>2. Claimed' \subseteq Claimed
    BY <1>0, <2>1 DEF Claimed, Inserting
  <2>3. IsFiniteSet(Claimed') /\ Cardinality(Claimed') <= Cardinality(Claimed)
    BY <2>2, FS_Subset DEF CapInv
  <2>4. /\ Cardinality(Claimed') \in Nat /\ Cardinality(Claimed) \in Nat
        /\ MaxEntries + Cardinality(Readers) \in Nat
    BY <2>3, FS_CardinalityType, CacheAssumption DEF CapInv
  <2> QED
    BY <2>3, <2>4 DEF CapInv
<1>7. FlightInv'
  BY <1>0 DEF FlightInv
<1> QED
  BY <1>4, <1>5, <1>6, <1>7

(* A step that leaves reads and cache alone.                               *)
LEMMA Elsewhere ==
    ASSUME CapInv, FlightInv, UNCHANGED <<flight, slot, rd, cache>>
    PROVE  CapInv' /\ FlightInv'
<1>1. Cached' = Cached /\ Inserting' = Inserting
  BY DEF Cached, Inserting
<1>2. Claimed' = Claimed
  BY <1>1 DEF Claimed
<1> QED
  BY <1>2 DEF CapInv, FlightInv

(* A write: reads and cache stay.  Of the entries that are stale, those of *)
(* the writes that have ended or not begun to commit are owed to nobody,   *)
(* so no step may end a write that still owes.                             *)
LEMMA WriteClears ==
    ASSUME ReadInv, ClearInv, CapInv, FlightInv, NEW w \in Writers, Write(w)
    PROVE  ReadInv' /\ ClearInv' /\ CapInv' /\ FlightInv'
<1>0. /\ UNCHANGED <<periodic, flight, slot, rd, cache>>
      /\ left \in [Writers \cup {Timer} -> SUBSET Shards]
      /\ wr \in [Writers -> [pc : {"idle", "open", "committed", "clearing", "done"},
                             doc : Docs \cup {None}]]
      /\ row \in [Docs -> [ver : Nat, gone : BOOLEAN, by : Writers \cup {None}]]
      /\ cache \in [Docs -> [tree : Seq(Version), late : BOOLEAN]]
  BY DEF ReadInv, CacheTypeOK, Write, BeginWrite, NestedWrite, Commit, Rollback,
         clear_cache, EndWrite, ReadSide
<1>1. CapInv' /\ FlightInv'
  BY <1>0, Elsewhere
\* What is left to show for the invariant of reads.
<1>2. ASSUME left' \in [Writers \cup {Timer} -> SUBSET Shards],
             wr' \in [Writers -> [pc : {"idle", "open", "committed", "clearing", "done"},
                                  doc : Docs \cup {None}]],
             row' \in [Docs -> [ver : Nat, gone : BOOLEAN, by : Writers \cup {None}]]
      PROVE  ReadInv'
  BY <1>0, <1>2 DEF ReadInv, CacheTypeOK
\* And for that of the clears, when no row changes.
<1>3. ASSUME UNCHANGED row,
             \A x \in Writers, d \in Docs : Owed(x, d, wr, left) => Owed(x, d, wr', left')
      PROVE  ClearInv'
  <2>1. ASSUME NEW d \in Docs, ~cache[d].late, NEW i \in DOMAIN cache[d].tree,
               LET v == cache[d].tree[i] IN v.ver # row[v.doc].ver
        PROVE  LET v == cache[d].tree[i]
               IN  /\ row[v.doc].by \in Writers
                   /\ row[v.doc].by \notin Silent => Owed(row[v.doc].by, d, wr', left')
    <3>1. PICK x : x = row[cache[d].tree[i].doc].by
      OBVIOUS
    <3>2. x \in Writers /\ (x \notin Silent => Owed(x, d, wr, left))
      BY <2>1, <3>1 DEF ClearInv, Owes, Owed
    <3> QED
      BY <1>3, <3>1, <3>2
  <2> QED
    BY <1>0, <1>3, <2>1 DEF ClearInv, Owes, Owed
<1>4. CASE BeginWrite(w)
  <2>1. PICK d \in Written[w] : wr' = [wr EXCEPT ![w] = [pc |-> "open", doc |-> d]]
    BY <1>4 DEF BeginWrite
  <2>2. d \in Docs
    BY <2>1, CacheAssumption
  <2>3. wr[w].pc = "idle" /\ UNCHANGED <<row, left>>
    BY <1>4 DEF BeginWrite
  <2>4. ASSUME NEW x \in Writers, NEW e \in Docs, Owed(x, e, wr, left)
        PROVE  Owed(x, e, wr', left')
    BY <1>0, <2>1, <2>3, <2>4 DEF Owed
  <2>5. wr' \in [Writers -> [pc : {"idle", "open", "committed", "clearing", "done"},
                             doc : Docs \cup {None}]]
    BY <1>0, <2>1, <2>2
  <2> QED
    BY <1>0, <1>1, <1>2, <1>3, <2>3, <2>4, <2>5
<1>5. CASE NestedWrite(w)
  <2>1. wr[w].pc = "open" /\ UNCHANGED <<row, wr>> /\ left' = [left EXCEPT ![w] = Shards]
    BY <1>5 DEF NestedWrite
  <2>2. ASSUME NEW x \in Writers, NEW e \in Docs, Owed(x, e, wr, left)
        PROVE  Owed(x, e, wr', left')
    BY <1>0, <2>1, <2>2 DEF Owed
  <2>3. left' \in [Writers \cup {Timer} -> SUBSET Shards]
    BY <1>0, <2>1
  <2> QED
    BY <1>0, <1>1, <1>2, <1>3, <2>1, <2>2, <2>3
<1>6. CASE Commit(w)
  <2>1. PICK gone \in BOOLEAN :
           row' = [row EXCEPT ![wr[w].doc] =
                     [ver |-> row[wr[w].doc].ver + 1, gone |-> gone, by |-> w]]
    BY <1>6 DEF Commit
  <2>2. PICK pc \in {"done", "committed"} :
           pc = (IF w \in Silent THEN "done" ELSE "committed") /\ wr' = [wr EXCEPT ![w].pc = pc]
    BY <1>6 DEF Commit
  <2>3. wr[w].pc = "open" /\ UNCHANGED left
    BY <1>6 DEF Commit
  <2>4. /\ wr' \in [Writers -> [pc : {"idle", "open", "committed", "clearing", "done"},
                                doc : Docs \cup {None}]]
        /\ wr'[w].pc = pc /\ \A x \in Writers : x # w => wr'[x] = wr[x]
    BY <1>0, <2>2
  <2>5. row' \in [Docs -> [ver : Nat, gone : BOOLEAN, by : Writers \cup {None}]]
    <3>1. PICK new : new = [ver |-> row[wr[w].doc].ver + 1, gone |-> gone, by |-> w]
      OBVIOUS
    <3>2. wr[w].doc \in Docs => new \in [ver : Nat, gone : BOOLEAN, by : Writers \cup {None}]
      BY <1>0, <3>1
    <3>3. row' = [row EXCEPT ![wr[w].doc] = new]
      BY <2>1, <3>1
    <3> QED
      BY <1>0, <3>2, <3>3
  <2>6. ASSUME NEW d \in Docs, ~cache[d].late, NEW i \in DOMAIN cache[d].tree,
               LET v == cache[d].tree[i] IN v.ver # row'[v.doc].ver
        PROVE  LET v == cache[d].tree[i]
               IN  /\ row'[v.doc].by \in Writers
                   /\ row'[v.doc].by \notin Silent => Owed(row'[v.doc].by, d, wr', left')
    <3>1. PICK v \in Version : v = cache[d].tree[i]
      <4>1. cache[d].tree \in Seq(Version)
        BY <1>0
      <4>2. i \in 1 .. Len(cache[d].tree)
        BY <2>6, <4>1, LenProperties
      <4> QED
        BY <4>1, <4>2, ElementOfSeq
    <3>2. v.doc \in Docs
      BY <3>1 DEF Version
    <3>3. CASE v.doc = wr[w].doc
      <4>1. row'[v.doc].by = w
        BY <1>0, <2>1, <3>2, <3>3
      <4>2. w \notin Silent => Owed(w, d, wr', left')
        BY <2>2, <2>4 DEF Owed
      <4> QED
        BY <3>1, <4>1, <4>2
    <3>4. CASE v.doc # wr[w].doc
      <4>1. row'[v.doc] = row[v.doc]
        BY <1>0, <2>1, <3>2, <3>4
      <4>2. PICK x : x = row[v.doc].by
        OBVIOUS
      <4>3. x \in Writers /\ (x \notin Silent => Owed(x, d, wr, left))
        BY <2>6, <3>1, <4>1, <4>2 DEF ClearInv, Owes, Owed
      <4>4. Owed(x, d, wr, left) => Owed(x, d, wr', left')
        BY <2>3, <2>4, <4>3 DEF Owed
      <4> QED
        BY <3>1, <4>1, <4>2, <4>3, <4>4
    <3> QED
      BY <3>3, <3>4
  <2>7. ClearInv'
    <3>1. cache' = cache
      BY <1>0
    <3> QED
      BY <2>6, <3>1 DEF ClearInv, Owes, Owed
  <2> QED
    BY <1>0, <1>1, <1>2, <2>3, <2>4, <2>5, <2>7
<1>7. CASE Rollback(w)
  <2>1. wr[w].pc = "open" /\ UNCHANGED <<row, left>> /\ wr' = [wr EXCEPT ![w].pc = "done"]
    BY <1>7 DEF Rollback
  <2>2. ASSUME NEW x \in Writers, NEW e \in Docs, Owed(x, e, wr, left)
        PROVE  Owed(x, e, wr', left')
    BY <1>0, <2>1, <2>2 DEF Owed
  <2>3. wr' \in [Writers -> [pc : {"idle", "open", "committed", "clearing", "done"},
                             doc : Docs \cup {None}]]
    BY <1>0, <2>1
  <2> QED
    BY <1>0, <1>1, <1>2, <1>3, <2>1, <2>2, <2>3
<1>8. CASE clear_cache(w)
  <2>1. /\ wr[w].pc = "committed" /\ UNCHANGED row
        /\ left' = [left EXCEPT ![w] = Shards] /\ wr' = [wr EXCEPT ![w].pc = "clearing"]
    BY <1>8 DEF clear_cache
  <2>2. /\ left' \in [Writers \cup {Timer} -> SUBSET Shards] /\ left'[w] = Shards
        /\ wr' \in [Writers -> [pc : {"idle", "open", "committed", "clearing", "done"},
                                doc : Docs \cup {None}]]
        /\ wr'[w].pc = "clearing"
    BY <1>0, <2>1
  <2>3. ASSUME NEW x \in Writers, NEW e \in Docs, Owed(x, e, wr, left)
        PROVE  Owed(x, e, wr', left')
    <3>1. CASE x = w
      <4>1. \E s \in Shards : e \in s
        BY CacheAssumption
      <4> QED
        BY <2>2, <3>1, <4>1 DEF Owed
    <3>2. CASE x # w
      BY <1>0, <2>1, <2>3, <3>2 DEF Owed
    <3> QED
      BY <3>1, <3>2
  <2> QED
    BY <1>0, <1>1, <1>2, <1>3, <2>1, <2>2, <2>3
<1>9. CASE EndWrite(w)
  <2>1. /\ wr[w].pc = "clearing" /\ left[w] = {} /\ UNCHANGED <<row, left>>
        /\ wr' = [wr EXCEPT ![w].pc = "done"]
    BY <1>9 DEF EndWrite
  <2>2. ASSUME NEW x \in Writers, NEW e \in Docs, Owed(x, e, wr, left)
        PROVE  Owed(x, e, wr', left')
    BY <1>0, <2>1, <2>2 DEF Owed
  <2>3. wr' \in [Writers -> [pc : {"idle", "open", "committed", "clearing", "done"},
                             doc : Docs \cup {None}]]
    BY <1>0, <2>1
  <2> QED
    BY <1>0, <1>1, <1>2, <1>3, <2>1, <2>2, <2>3
<1> QED
  BY <1>4, <1>5, <1>6, <1>7, <1>8, <1>9 DEF Write

(* The periodic clear begins: no write owes it anything.                   *)
LEMMA TimerClears ==
    ASSUME ReadInv, ClearInv, CapInv, FlightInv, spawn_periodic_cache_clear
    PROVE  ReadInv' /\ ClearInv' /\ CapInv' /\ FlightInv'
<1>0. /\ UNCHANGED <<periodic, flight, slot, rd, cache, row, wr>>
      /\ left \in [Writers \cup {Timer} -> SUBSET Shards]
      /\ left' = [left EXCEPT ![Timer] = Shards]
  BY DEF ReadInv, CacheTypeOK, spawn_periodic_cache_clear, ReadSide
<1>1. CapInv' /\ FlightInv'
  BY <1>0, Elsewhere
<1>2. /\ left' \in [Writers \cup {Timer} -> SUBSET Shards]
      /\ \A x \in Writers : left'[x] = left[x]
  BY <1>0, CacheAssumption
<1>3. ReadInv'
  BY <1>0, <1>2 DEF ReadInv, CacheTypeOK
<1>4. ClearInv'
  <2>1. ASSUME NEW d \in Docs, ~cache[d].late, NEW i \in DOMAIN cache[d].tree,
               LET v == cache[d].tree[i] IN v.ver # row[v.doc].ver
        PROVE  LET v == cache[d].tree[i]
               IN  /\ row[v.doc].by \in Writers
                   /\ row[v.doc].by \notin Silent => Owed(row[v.doc].by, d, wr', left')
    <3>1. PICK x : x = row[cache[d].tree[i].doc].by
      OBVIOUS
    <3>2. x \in Writers /\ (x \notin Silent => Owed(x, d, wr, left))
      BY <2>1, <3>1 DEF ClearInv, Owes, Owed
    <3> QED
      BY <1>0, <1>2, <3>1, <3>2 DEF Owed
  <2> QED
    BY <1>0, <2>1 DEF ClearInv, Owes, Owed
<1> QED
  BY <1>1, <1>3, <1>4

-----------------------------------------------------------------------------
\* The theorems.

CacheInv == ReadInv /\ FlightInv /\ ClearInv /\ CapInv

LEMMA CacheInit == Init => CacheInv
<1> SUFFICES ASSUME Init PROVE CacheInv
  OBVIOUS
<1>0. <<>> \in Seq(Version) /\ <<>> \in Seq(Seq(Version)) /\ Len(<<>>) = 0
  BY EmptySeq
<1>1. /\ \A r \in Readers : rd[r] = NoRead /\ slot[r] = NoSlot
      /\ \A d \in Docs : cache[d] = NoEntry
  BY DEF Init
<1>2. NoRead \in Read /\ Good(NoRead) /\ NoRead.pc = "idle"
      /\ NoRead.path = <<>> /\ NoRead.depth = 0
  <2>1. PICK none \in Seq(Version) : none = <<>> /\ Len(none) = 0
    BY <1>0, Zenon
  <2>2. NoRead = [pc |-> "idle", mode |-> "one", depth |-> 0, path |-> none,
                  slot |-> None, hold |-> none, tail |-> none]
    BY <2>1, Zenon DEF NoRead
  <2>3. NoRead \in Read /\ NoRead.pc = "idle" /\ NoRead.path = none /\ NoRead.depth = 0
        /\ NoRead.hold = none
    BY <2>2 DEF Read, Modes
  <2> QED
    BY <2>1, <2>3 DEF Good, Asks
<1>3. NoSlot \in Slot /\ Filled(NoSlot)
  <2>1. PICK none \in Seq(Seq(Version)) : none = <<>> /\ Len(none) = 0
    BY <1>0, Zenon
  <2>2. NoSlot = [val |-> none, lock |-> "free"]
    BY <2>1, Zenon DEF NoSlot
  <2> QED
    BY <2>1, <2>2 DEF Slot, Filled
<1>4. NoEntry \in [tree : Seq(Version), late : BOOLEAN] /\ NoEntry.tree = <<>>
  <2>1. <<>> \in Seq(Version) /\ FALSE \in BOOLEAN
    BY EmptySeq
  <2> QED
    BY <2>1, Zenon DEF NoEntry
<1>5. ReadInv
  <2>1. rd \in [Readers -> Read] /\ slot \in [Readers -> Slot]
        /\ cache \in [Docs -> [tree : Seq(Version), late : BOOLEAN]]
    BY <1>2, <1>3, <1>4 DEF Init
  <2>2. /\ row \in [Docs -> [ver : Nat, gone : BOOLEAN, by : Writers \cup {None}]]
        /\ flight \in [Docs -> Readers \cup {None}] /\ periodic \in BOOLEAN
        /\ wr \in [Writers -> [pc : {"idle", "open", "committed", "clearing", "done"},
                               doc : Docs \cup {None}]]
        /\ left \in [Writers \cup {Timer} -> SUBSET Shards]
    BY DEF Init
  <2>3. \A r \in Readers : /\ rd[r].pc = "idle" /\ Len(rd[r].path) <= rd[r].depth + 1
                           /\ Good(rd[r]) /\ Filled(slot[r])
    BY <1>0, <1>1, <1>2, <1>3
  <2>4. \A d \in Docs : cache[d].tree = <<>>
    BY <1>1, <1>4
  <2> QED
    BY <2>1, <2>2, <2>3, <2>4 DEF ReadInv, CacheTypeOK, Read, Slot
<1>6. FlightInv
  BY <1>1, <1>2 DEF FlightInv, InFlight, OwnerOf, Own
<1>7. ClearInv
  <2>1. \A d \in Docs : DOMAIN cache[d].tree = {}
    BY <1>1, <1>4
  <2> QED
    BY <2>1 DEF ClearInv
<1>8. CapInv
  <2>1. Claimed = {}
    BY <1>1, <1>2, <1>4 DEF Claimed, Cached, Inserting
  <2>2. Cardinality(Readers) \in Nat
    BY CacheAssumption, FS_CardinalityType
  <2> QED
    BY <2>1, <2>2, FS_EmptySet, CacheAssumption DEF CapInv
<1> QED
  BY <1>5, <1>6, <1>7, <1>8 DEF CacheInv

LEMMA CacheStep == CacheInv /\ [Next]_vars => CacheInv'
<1> SUFFICES ASSUME CacheInv, [Next]_vars PROVE CacheInv'
  OBVIOUS
<1>0. ReadInv /\ FlightInv /\ ClearInv /\ CapInv
  BY DEF CacheInv
<1>1. ASSUME NEW r \in Readers, NEW b, Moves(r, b) PROVE CacheInv'
  BY <1>0, <1>1, MoveReads, MoveFlight, MoveClear, MoveCap DEF CacheInv
<1>2. ASSUME NEW r \in Readers, NEW q \in Requests, Begin(r, q) PROVE CacheInv'
  BY <1>0, <1>1, <1>2, BeginMoves
<1>3. ASSUME NEW r \in Readers, Step(r) PROVE CacheInv'
  BY <1>0, <1>1, <1>3, LookupMoves, SlotMoves, FetchMoves, RawMoves, UnwindMoves DEF Step
<1>4. ASSUME NEW w \in Writers, Write(w) PROVE CacheInv'
  BY <1>0, <1>4, WriteClears DEF CacheInv
<1>5. ASSUME NEW c \in Writers \cup {Timer}, RemoveShard(c) PROVE CacheInv'
  BY <1>0, <1>5, Empties DEF CacheInv
<1>6. CASE spawn_periodic_cache_clear
  BY <1>0, <1>6, TimerClears DEF CacheInv
<1>7. CASE UNCHANGED vars
  <2>1. CapInv' /\ FlightInv'
    BY <1>0, <1>7, Elsewhere DEF vars
  <2>2. ReadInv'
    BY <1>0, <1>7 DEF vars, ReadInv, CacheTypeOK
  <2>3. ClearInv'
    BY <1>0, <1>7 DEF vars, ClearInv, Owes
  <2> QED
    BY <2>1, <2>2, <2>3 DEF CacheInv
<1> QED
  BY <1>2, <1>3, <1>4, <1>5, <1>6, <1>7 DEF Next

LEMMA CacheInvariant == Spec => []CacheInv
  BY CacheInit, CacheStep, PTL DEF Spec

(* Every reachable state of the cache, the single-flight table, the reads  *)
(* and the writes is well typed: no path of a read grows beyond its depth, *)
(* and an entry holds the document of its key.                             *)
THEOREM CacheTypeCorrect == Spec => []CacheTypeOK
<1>1. CacheInv => CacheTypeOK
  BY DEF CacheInv, ReadInv
<1> QED
  BY <1>1, CacheInvariant, PTL

(* A write that commits clears every entry it makes stale, at any depth    *)
(* of embedding and whatever reads and other clears do meanwhile: until it *)
(* has, it is still on its way.                                            *)
THEOREM CommitClearsHolds == Spec => []CommitClears
<1>1. CacheInv => CommitClears
  <2> SUFFICES ASSUME CacheInv PROVE CommitClears
    OBVIOUS
  <2>1. \A d \in Cached : d \in Docs
    BY DEF Cached
  <2> QED
    BY <2>1 DEF CacheInv, ClearInv, CommitClears
<1> QED
  BY <1>1, CacheInvariant, PTL

(* The single-flight table lets one read at a time fetch a key, panics of  *)
(* the fetch included.                                                     *)
THEOREM OneFetchHolds == Spec => []OneFetch
<1>1. CacheInv => OneFetch
  <2> SUFFICES ASSUME CacheInv, NEW r \in Readers, NEW s \in Readers,
                      Fetching(r), Fetching(s), Target(r) = Target(s)
               PROVE  r = s
    BY DEF OneFetch
  <2>1. Own(rd[r]) /\ Own(rd[s]) /\ Key(rd[r]) = Key(rd[s])
    BY DEF Fetching, Shared, Own, Key, Target
  <2>2. rd[r].slot = rd[s].slot
    BY <2>1 DEF CacheInv, FlightInv, InFlight
  <2> QED
    BY <2>1, <2>2 DEF CacheInv, FlightInv, OwnerOf
<1> QED
  BY <1>1, CacheInvariant, PTL

(* Reads that check the size of the cache and insert later, in any number  *)
(* and order, exceed max_entries by at most one each but the first.        *)
THEOREM SoftCapHolds == Spec => []SoftCap
<1>1. CacheInv => SoftCap
  <2> SUFFICES ASSUME CacheInv PROVE SoftCap
    OBVIOUS
  <2>1. /\ IsFiniteSet(Claimed) /\ Cardinality(Claimed) < MaxEntries + Cardinality(Readers)
        /\ Cached \subseteq Claimed
    BY DEF CacheInv, CapInv, Claimed
  <2>2. Cardinality(Cached) <= Cardinality(Claimed) /\ IsFiniteSet(Cached)
    BY <2>1, FS_Subset
  <2>3. /\ Cardinality(Cached) \in Nat /\ Cardinality(Claimed) \in Nat
        /\ MaxEntries + Cardinality(Readers) \in Nat
    BY <2>1, <2>2, FS_CardinalityType, CacheAssumption
  <2> QED
    BY <2>1, <2>2, <2>3 DEF SoftCap
<1> QED
  BY <1>1, CacheInvariant, PTL

=============================================================================

--------------------------- MODULE PopulateCache ---------------------------
(***************************************************************************)
(* The populate cache: reads that embed the documents a document refers to *)
(* and keep them, populated, in a cache shared by all requests; the        *)
(* single-flight table that lets concurrent misses share one fetch; writes *)
(* that clear the cache after their commit; the periodic clear.            *)
(*                                                                         *)
(* Every document has at most one reference, so a populated document is a  *)
(* sequence of the versions it embeds.  The key of an entry is the         *)
(* document: neither depth nor the path that led to it is part of it.      *)
(***************************************************************************)
EXTENDS Integers, Sequences, FiniteSets

CONSTANTS
    Docs, None,
    Ref,          \* the document each one refers to, or None
    Readers,      \* calls of FindByID and Find, each made once
    Requests,     \* what they ask for
    Writers,      \* write calls, each made once
    Written,      \* the documents each may write
    Silent,       \* those of job handlers, which have no cache to clear
    Timer,        \* the task that clears the cache every max_age_secs
    Shards,       \* of the map that holds the entries
    MaxEntries,
    MaxPanics, MaxNestedClears  \* bounds on faults and on nested writes

Modes == {"one", "many", "batch"}

ASSUME CacheAssumption ==
    /\ IsFiniteSet(Docs) /\ None \notin Docs
    /\ Ref \in [Docs -> Docs \cup {None}]
    /\ IsFiniteSet(Readers) /\ Readers # {} /\ None \notin Readers
    /\ Requests \subseteq [mode : Modes, root : Docs, depth : Nat]
    /\ Silent \subseteq Writers /\ Timer \notin Writers /\ None \notin Writers
    /\ Written \in [Writers -> SUBSET Docs]
    /\ UNION Shards = Docs
    /\ MaxEntries \in Nat \ {0} /\ MaxPanics \in Nat /\ MaxNestedClears \in Nat

VARIABLES
    periodic, \* fixed: max_age_secs > 0
    row,      \* the committed row of each document
    cache,    \* its entry, or NoEntry
    flight,   \* the slot in flight for each key, named after its creator
    slot,     \* each slot
    rd,       \* each read
    wr,       \* each write
    left,     \* the shards each clear has still to empty
    panics, nested

vars == <<periodic, row, cache, flight, slot, rd, wr, left, panics, nested>>

Version == [doc : Docs, ver : Nat]
NoEntry == [tree |-> <<>>, late |-> FALSE]
NoSlot  == [val |-> <<>>, lock |-> "free"]
NoRead  == [pc |-> "idle", mode |-> "one", depth |-> 0, path |-> <<>>,
            slot |-> None, hold |-> <<>>, tail |-> <<>>]

Missing == <<>>   \* of a fetch: there is no such row

CacheTypeOK ==
    /\ periodic \in BOOLEAN
    /\ row \in [Docs -> [ver : Nat, gone : BOOLEAN, by : Writers \cup {None}]]
    /\ cache \in [Docs -> [tree : Seq(Version), late : BOOLEAN]]
    /\ flight \in [Docs -> Readers \cup {None}]
    /\ slot \in [Readers -> [val : Seq(Seq(Version)),
                             lock : {"free", "held", "poisoned"}]]
    /\ rd \in [Readers ->
                 [pc : {"idle", "prefetch", "lookup", "enter", "lock", "fetch",
                        "set_raw", "insert_raw", "publish", "remove",
                        "unwind", "insert", "done", "panicked"},
                  mode : Modes, depth : Nat, path : Seq(Version),
                  slot : Readers \cup {None}, hold : Seq(Version), tail : Seq(Version)]]
    /\ wr \in [Writers -> [pc : {"idle", "open", "committed", "clearing", "done"},
                           doc : Docs \cup {None}]]
    /\ left \in [Writers \cup {Timer} -> SUBSET Shards]
    /\ \A r \in Readers : /\ rd[r].pc \notin {"idle", "panicked"} => rd[r].path # <<>>
                           /\ Len(rd[r].path) <= rd[r].depth + 1
    /\ \A d \in Docs : cache[d].tree # <<>> => cache[d].tree[1].doc = d

Init ==
    /\ periodic \in BOOLEAN
    /\ row = [d \in Docs |-> [ver |-> 0, gone |-> FALSE, by |-> None]]
    /\ cache = [d \in Docs |-> NoEntry]
    /\ flight = [d \in Docs |-> None]
    /\ slot = [r \in Readers |-> NoSlot]
    /\ rd = [r \in Readers |-> NoRead]
    /\ wr = [w \in Writers |-> [pc |-> "idle", doc |-> None]]
    /\ left = [w \in Writers \cup {Timer} |-> {}]
    /\ panics = 0 /\ nested = 0

Cached == {d \in Docs : cache[d].tree # <<>>}

Outdated(tree) == \E i \in DOMAIN tree : tree[i].ver # row[tree[i].doc].ver

-----------------------------------------------------------------------------
(* A read descends from its root: path holds the versions on the way, the  *)
(* root first, and tail what has been embedded below its end.              *)

WriteSide == <<periodic, row, wr, left, nested>>

Last(p) == p[Len(p)]

Target(r) == Ref[Last(rd[r].path).doc]

(* The single path keeps what it has visited; a batch starts afresh on     *)
(* every level.                                                            *)
Visited(mode, path) ==
    IF mode = "batch" THEN {Last(path).doc} ELSE {path[i].doc : i \in DOMAIN path}

(* Where a read goes on with the end of its path.                          *)
Descend(mode, depth, path) ==
    IF \/ depth < Len(path)
       \/ Ref[Last(path).doc] \in Visited(mode, path) \cup {None}
    THEN "unwind"
    ELSE IF mode = "many" THEN "prefetch" ELSE "lookup"

(* The row at the root has been read; it does not go through the cache.    *)
Begin(r, q) ==
    /\ rd[r].pc = "idle" /\ ~row[q.root].gone
    /\ LET path == <<[doc |-> q.root, ver |-> row[q.root].ver]>>
       IN  rd' = [rd EXCEPT ![r] = [NoRead EXCEPT !.pc = Descend(q.mode, q.depth, path),
                                       !.mode = q.mode, !.depth = q.depth, !.path = path]]
    /\ UNCHANGED <<WriteSide, cache, flight, slot, panics>>

Select(d) == IF row[d].gone THEN Missing ELSE <<[doc |-> d, ver |-> row[d].ver]>>

(* The read goes on with what it has fetched, or found missing.            *)
Take(r, got) ==
    LET path == rd[r].path \o got
    IN  [rd EXCEPT ![r].path = path, ![r].hold = <<>>, ![r].slot = None,
                   ![r].pc = IF got = Missing THEN "unwind"
                             ELSE Descend(rd[r].mode, rd[r].depth, path)]

(* has_many fetches all its targets before it looks any of them up.        *)
find_by_ids(r) ==
    /\ rd[r].pc = "prefetch"
    /\ rd' = [rd EXCEPT ![r].hold = Select(Target(r)), ![r].pc = "lookup"]
    /\ UNCHANGED <<WriteSide, cache, flight, slot, panics>>

(* Only the top level shares the single-flight table of the process.       *)
Shared(r) == rd[r].mode = "one" /\ Len(rd[r].path) = 1

cache_get_doc(r) ==
    /\ rd[r].pc = "lookup"
    /\ rd' = IF cache[Target(r)].tree # <<>>
             THEN [rd EXCEPT ![r].tail = cache[Target(r)].tree, ![r].hold = <<>>,
                             ![r].pc = "unwind"]
             ELSE IF rd[r].mode = "many" THEN Take(r, rd[r].hold)
             ELSE [rd EXCEPT ![r].pc = IF Shared(r) THEN "enter" ELSE "fetch"]
    /\ UNCHANGED <<WriteSide, cache, flight, slot, panics>>

-----------------------------------------------------------------------------
(* Singleflight::get_or_fetch.                                             *)

FindSlot(r) ==
    /\ rd[r].pc = "enter"
    /\ LET s == IF flight[Target(r)] = None THEN r ELSE flight[Target(r)]
       IN  /\ flight' = [flight EXCEPT ![Target(r)] = s]
           /\ rd' = [rd EXCEPT ![r].pc = "lock", ![r].slot = s]
    /\ UNCHANGED <<WriteSide, cache, slot, panics>>

\* Mutant of LockSlot: the first arriver takes the slot off the table at once.
LockAndRemove(r) ==
    /\ rd[r].pc = "lock" /\ slot[rd[r].slot].lock = "free"
    /\ IF slot[rd[r].slot].val # <<>>
       THEN /\ rd' = Take(r, slot[rd[r].slot].val[1])
            /\ UNCHANGED <<slot, flight>>
       ELSE /\ slot' = [slot EXCEPT ![rd[r].slot].lock = "held"]
            /\ rd' = [rd EXCEPT ![r].pc = "fetch"]
            /\ flight' = [flight EXCEPT ![Target(r)] = None]
    /\ UNCHANGED <<WriteSide, cache, panics>>

LockSlot(r) ==
    /\ rd[r].pc = "lock" /\ slot[rd[r].slot].lock = "free"
    /\ IF slot[rd[r].slot].val # <<>>
       THEN /\ rd' = Take(r, slot[rd[r].slot].val[1])
            /\ UNCHANGED slot
       ELSE /\ slot' = [slot EXCEPT ![rd[r].slot].lock = "held"]
            /\ rd' = [rd EXCEPT ![r].pc = "fetch"]
    /\ UNCHANGED <<WriteSide, cache, flight, panics>>

(* A poisoned slot stays in the table.                                     *)
LockPoisoned(r) ==
    /\ rd[r].pc = "lock" /\ slot[rd[r].slot].lock = "poisoned"
    /\ rd' = [rd EXCEPT ![r] = [NoRead EXCEPT !.pc = "panicked"]]
    /\ UNCHANGED <<WriteSide, cache, flight, slot, panics>>

(* A fetch by id that fails counts as missing.                             *)
Fetched(r, got) ==
    IF rd[r].mode # "one" THEN Take(r, got)
    ELSE [rd EXCEPT ![r].hold = got,
                    ![r].pc = IF got # Missing THEN "set_raw"
                              ELSE IF Shared(r) THEN "publish" ELSE "unwind"]

find_by_id(r) ==
    /\ rd[r].pc = "fetch"
    /\ rd' = Fetched(r, Select(Target(r)))
    /\ UNCHANGED <<WriteSide, cache, flight, slot, panics>>

FetchFails(r) ==
    /\ rd[r].pc = "fetch"
    /\ rd' = IF rd[r].mode = "one" THEN Fetched(r, Missing)
             ELSE [rd EXCEPT ![r].pc = "done"]
    /\ UNCHANGED <<WriteSide, cache, flight, slot, panics>>

\* Mutant of FetchPanics: a lock that is neither released nor poisoned.
PanicKeepsLock(r) ==
    /\ rd[r].pc = "fetch" /\ Shared(r) /\ panics < MaxPanics
    /\ panics' = panics + 1
    /\ rd' = [rd EXCEPT ![r] = [NoRead EXCEPT !.pc = "panicked"]]
    /\ UNCHANGED <<WriteSide, cache, flight, slot>>

FetchPanics(r) ==
    /\ rd[r].pc = "fetch" /\ Shared(r) /\ panics < MaxPanics
    /\ panics' = panics + 1
    /\ slot' = [slot EXCEPT ![rd[r].slot].lock = "poisoned"]
    /\ rd' = [rd EXCEPT ![r] = [NoRead EXCEPT !.pc = "panicked"]]
    /\ UNCHANGED <<WriteSide, cache, flight>>

(* The value is put in the slot and the guard dropped ...                  *)
PublishValue(r) ==
    /\ rd[r].pc = "publish"
    /\ slot' = [slot EXCEPT ![rd[r].slot] = [val |-> <<rd[r].hold>>, lock |-> "free"]]
    /\ rd' = [rd EXCEPT ![r].pc = "remove"]
    /\ UNCHANGED <<WriteSide, cache, flight, panics>>

(* ... and then the slot is removed.                                       *)
RemoveSlot(r) ==
    /\ rd[r].pc = "remove"
    /\ flight' = [flight EXCEPT ![Target(r)] = None]
    /\ rd' = Take(r, rd[r].hold)
    /\ UNCHANGED <<WriteSide, cache, slot, panics>>

-----------------------------------------------------------------------------
(* MemoryCache::set looks at the size and then inserts.  A miss stores the *)
(* raw document at once, and every read the populated one on its way back. *)

\* Mutant of Room: an off-by-one at the cap.
RoomOffByOne(d) == Cardinality(Cached) <= MaxEntries \/ d \in Cached

Room(d) == Cardinality(Cached) < MaxEntries \/ d \in Cached

Store(d, tree) ==
    cache' = [cache EXCEPT ![d] = [tree |-> tree, late |-> Outdated(tree)]]

AfterRaw(r) == IF Shared(r) THEN [rd EXCEPT ![r].pc = "publish"] ELSE Take(r, rd[r].hold)

SetRaw(r) ==
    /\ rd[r].pc = "set_raw"
    /\ rd' = IF Room(Target(r)) THEN [rd EXCEPT ![r].pc = "insert_raw"] ELSE AfterRaw(r)
    /\ UNCHANGED <<WriteSide, cache, flight, slot, panics>>

InsertRaw(r) ==
    /\ rd[r].pc = "insert_raw"
    /\ Store(Target(r), rd[r].hold)
    /\ rd' = AfterRaw(r)
    /\ UNCHANGED <<WriteSide, flight, slot, panics>>

Populated(r) == <<Last(rd[r].path)>> \o rd[r].tail

Unwound(r) ==
    [rd EXCEPT ![r].pc = "unwind", ![r].tail = Populated(r),
               ![r].path = SubSeq(@, 1, Len(@) - 1)]

cache_set_doc(r) ==
    /\ rd[r].pc = "unwind" /\ Len(rd[r].path) > 1
    /\ rd' = IF Room(Last(rd[r].path).doc) THEN [rd EXCEPT ![r].pc = "insert"] ELSE Unwound(r)
    /\ UNCHANGED <<WriteSide, cache, flight, slot, panics>>

Insert(r) ==
    /\ rd[r].pc = "insert"
    /\ Store(Last(rd[r].path).doc, Populated(r))
    /\ rd' = Unwound(r)
    /\ UNCHANGED <<WriteSide, flight, slot, panics>>

Return(r) ==
    /\ rd[r].pc = "unwind" /\ Len(rd[r].path) = 1
    /\ rd' = [rd EXCEPT ![r].pc = "done"]
    /\ UNCHANGED <<WriteSide, cache, flight, slot, panics>>

-----------------------------------------------------------------------------
(* Writes.  A write of a hook clears too, while the transaction is open.   *)

ReadSide == <<periodic, flight, slot, rd, panics>>

BeginWrite(w) ==
    /\ wr[w].pc = "idle"
    /\ \E d \in Written[w] : wr' = [wr EXCEPT ![w] = [pc |-> "open", doc |-> d]]
    /\ UNCHANGED <<ReadSide, row, cache, left, nested>>

NestedWrite(w) ==
    /\ wr[w].pc = "open" /\ w \notin Silent /\ left[w] = {} /\ nested < MaxNestedClears
    /\ left' = [left EXCEPT ![w] = Shards]
    /\ nested' = nested + 1
    /\ UNCHANGED <<ReadSide, row, cache, wr>>

Commit(w) ==
    /\ wr[w].pc = "open" /\ left[w] = {} /\ ~row[wr[w].doc].gone
    /\ \E gone \in BOOLEAN :
          row' = [row EXCEPT ![wr[w].doc] = [ver |-> @.ver + 1, gone |-> gone, by |-> w]]
    /\ wr' = [wr EXCEPT ![w].pc = IF w \in Silent THEN "done" ELSE "committed"]
    /\ UNCHANGED <<ReadSide, cache, left, nested>>

Rollback(w) ==
    /\ wr[w].pc = "open" /\ left[w] = {}
    /\ wr' = [wr EXCEPT ![w].pc = "done"]
    /\ UNCHANGED <<ReadSide, row, cache, left, nested>>

\* Mutant of clear_cache: only the entry of the document that was written.
ClearWritten(w) ==
    /\ wr[w].pc = "committed"
    /\ left' = [left EXCEPT ![w] = {s \in Shards : wr[w].doc \in s}]
    /\ wr' = [wr EXCEPT ![w].pc = "clearing"]
    /\ UNCHANGED <<ReadSide, row, cache, nested>>

clear_cache(w) ==
    /\ wr[w].pc = "committed"
    /\ left' = [left EXCEPT ![w] = Shards]
    /\ wr' = [wr EXCEPT ![w].pc = "clearing"]
    /\ UNCHANGED <<ReadSide, row, cache, nested>>

(* Neither DashMap nor Redis removes all entries at once.                  *)
RemoveShard(c) ==
    /\ \E s \in left[c] :
          /\ cache' = [d \in Docs |-> IF d \in s THEN NoEntry ELSE cache[d]]
          /\ left' = [left EXCEPT ![c] = @ \ {s}]
    /\ UNCHANGED <<ReadSide, row, wr, nested>>

EndWrite(w) ==
    /\ wr[w].pc = "clearing" /\ left[w] = {}
    /\ wr' = [wr EXCEPT ![w].pc = "done"]
    /\ UNCHANGED <<ReadSide, row, cache, left, nested>>

\* Mutant of spawn_periodic_cache_clear: it clears what writes have cleared.
ClearEmpty ==
    /\ periodic /\ left[Timer] = {} /\ Cached # {}
    /\ left' = [left EXCEPT ![Timer] = {s \in Shards : s \cap Cached = {}}]
    /\ UNCHANGED <<ReadSide, row, cache, wr, nested>>

(* A tick that finds the cache empty changes nothing.                      *)
spawn_periodic_cache_clear ==
    /\ periodic /\ left[Timer] = {} /\ Cached # {}
    /\ left' = [left EXCEPT ![Timer] = Shards]
    /\ UNCHANGED <<ReadSide, row, cache, wr, nested>>

-----------------------------------------------------------------------------
Step(r) ==
    \/ find_by_ids(r) \/ cache_get_doc(r)
    \/ FindSlot(r) \/ LockSlot(r) \/ LockPoisoned(r)
    \/ find_by_id(r) \/ FetchFails(r) \/ FetchPanics(r)
    \/ PublishValue(r) \/ RemoveSlot(r)
    \/ SetRaw(r) \/ InsertRaw(r) \/ cache_set_doc(r) \/ Insert(r) \/ Return(r)

Write(w) ==
    \/ BeginWrite(w) \/ NestedWrite(w) \/ Commit(w) \/ Rollback(w)
    \/ clear_cache(w) \/ EndWrite(w)

Next ==
    \/ \E r \in Readers : Step(r) \/ \E q \in Requests : Begin(r, q)
    \/ \E w \in Writers : Write(w)
    \/ \E c \in Writers \cup {Timer} : RemoveShard(c)
    \/ spawn_periodic_cache_clear

(* A read that has begun runs on its blocking thread, a mutex is handed to *)
(* its waiters, and the timer ticks.                                       *)
Fairness ==
    /\ \A r \in Readers : WF_vars(Step(r))
    /\ WF_vars(RemoveShard(Timer))
    /\ WF_vars(spawn_periodic_cache_clear)

Spec     == Init /\ [][Next]_vars
FairSpec == Spec /\ Fairness

-----------------------------------------------------------------------------
(* The write that made an entry stale has still to remove it.  The only    *)
(* other stale entries are those that a read stored when they were stale   *)
(* already, and those of writes that do not clear.                         *)
Owes(w, d) ==
    \/ wr[w].pc = "committed"
    \/ wr[w].pc = "clearing" /\ \E s \in left[w] : d \in s

CommitClears ==
    \A d \in Cached : ~cache[d].late =>
        \A i \in DOMAIN cache[d].tree :
            LET v == cache[d].tree[i]
            IN  v.ver # row[v.doc].ver /\ row[v.doc].by \notin Silent =>
                    Owes(row[v.doc].by, d)

(* Concurrent misses of one key fetch it one at a time, although a slot is *)
(* found, locked, filled and removed in separate steps.                    *)
Fetching(r) ==
    Shared(r) /\ rd[r].pc \in {"fetch", "set_raw", "insert_raw", "publish"}

OneFetch ==
    \A r, s \in Readers : Fetching(r) /\ Fetching(s) /\ Target(r) = Target(s) => r = s

(* Reads that pass the check of the size together exceed the soft cap by   *)
(* at most one entry for each of them but the first.                       *)
SoftCap == Cardinality(Cached) < MaxEntries + Cardinality(Readers)

(* With the periodic clear, whatever was stored late or left by a job      *)
(* handler goes: once the writes are over, the cache holds current         *)
(* documents for good.                                                     *)
FreshAtLast == periodic => <>[](\A d \in Cached : ~Outdated(cache[d].tree))

(* A read that has begun ends: a waiter gets its leader's document, or     *)
(* fails with it.                                                          *)
ReadsEnd == \A r \in Readers : rd[r].pc # "idle" ~> rd[r].pc \in {"done", "panicked"}
=============================================================================

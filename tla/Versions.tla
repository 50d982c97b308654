------------------------------ MODULE Versions ------------------------------
(***************************************************************************)
(* The version log of one versioned document: its row in the main table,   *)
(* its rows in _versions_<slug>, and the transactions that publish, save   *)
(* drafts, unpublish, restore and delete.  On SQLite a write transaction   *)
(* is IMMEDIATE and runs alone; on Postgres transactions overlap under     *)
(* READ COMMITTED, so every statement is an action of its own.             *)
(*                                                                         *)
(* A content (all columns and join rows) is named after the save that      *)
(* wrote it.                                                               *)
(***************************************************************************)
EXTENDS Integers, FiniteSets, FiniteSetsExt

CONSTANTS
    Saves,        \* the save operations, each run at most once
    Created,      \* the content the document was created with
    NoContent,
    Deployments   \* backend, max_versions (0: unlimited), and whether the
                  \* document is a global

ASSUME VersionsAssumption ==
    /\ IsFiniteSet(Saves)
    /\ Created \notin Saves
    /\ NoContent \notin Saves \cup {Created}
    /\ Deployments \subseteq [pg : BOOLEAN, max_versions : Nat, global : BOOLEAN]

VARIABLES
    deploy,   \* the deployment at hand, fixed
    main,     \* the committed main row
    rows,     \* the committed version rows
    tx,       \* the transaction of each save
    last,     \* history: what the last committed save recorded
    restored  \* history: restores committed since the last other save

vars == <<deploy, main, rows, tx, last, restored>>

Contents == Saves \cup {Created}
Kinds    == {"publish", "draft", "unpublish", "restore", "delete"}
Gone     == [content |-> NoContent, status |-> "gone"]
MainRow  == [content : Contents, status : {"draft", "published"}] \cup {Gone}
VersionRow ==
    [id : Contents, _version : Nat \ {0}, _status : {"draft", "published"},
     _latest : BOOLEAN, snapshot : Contents]

(* pc is the statement the transaction runs next: see the actions.         *)
Pcs == {"none", "read", "hooks", "main", "max", "clear", "clearing", "insert",
        "prune", "pruning", "commit", "done", "failed"}

Tx == [pc : Pcs, kind : Kinds,
       doc : Contents \cup {NoContent},    \* the content to record
       next : Nat,                         \* next_version
       targets : SUBSET Contents,          \* rows a statement has matched
       cleared : SUBSET Contents,          \* rows whose _latest it cleared
       pruned : SUBSET Contents,           \* rows it deleted
       inserted : BOOLEAN,
       locks : BOOLEAN]                    \* holds the lock of the main row

NoTx == [pc |-> "none", kind |-> "draft", doc |-> NoContent, next |-> 0,
         targets |-> {}, cleared |-> {}, pruned |-> {},
         inserted |-> FALSE, locks |-> FALSE]

VersionsTypeOK ==
    /\ deploy \in Deployments
    /\ main \in MainRow
    /\ rows \subseteq VersionRow
    /\ tx \in [Saves -> Tx]
    /\ last \in Contents
    /\ restored \in Nat

Init ==
    /\ deploy \in Deployments
    /\ main = [content |-> Created, status |-> "published"]
    /\ rows = {[id |-> Created, _version |-> 1, _status |-> "published",
                _latest |-> TRUE, snapshot |-> Created]}
    /\ tx = [t \in Saves |-> NoTx]
    /\ last = Created
    /\ restored = 0

-----------------------------------------------------------------------------
(* What a transaction sees and what it keeps others from.                  *)

Open(t) == tx[t].pc \notin {"none", "done", "failed"}

\* Mutant of Status: every version is recorded as published.
AlwaysPublished(t) == "published"

Status(t) == IF tx[t].kind \in {"draft", "unpublish"} THEN "draft" ELSE "published"

OwnRow(t) ==
    [id |-> t, _version |-> tx[t].next, _status |-> Status(t),
     _latest |-> TRUE, snapshot |-> tx[t].doc]

Cleared(r, t) == IF r.id \in tx[t].cleared THEN [r EXCEPT !._latest = FALSE] ELSE r

(* The version rows as t sees them: the committed ones under its writes.   *)
Visible(t) ==
    {Cleared(r, t) : r \in {x \in rows : x.id \notin tx[t].pruned}}
        \cup (IF tx[t].inserted /\ t \notin tx[t].pruned THEN {OwnRow(t)} ELSE {})

Ids(R)      == {r.id : r \in R}
Versions(R) == {r._version : r \in R}
Newest(R)   == Max(Versions(R) \cup {0})

(* A row another transaction has updated or deleted is locked until that   *)
(* transaction ends.                                                       *)
RowsFree(t, ids) ==
    \A u \in Saves \ {t} : Open(u) => ids \cap (tx[u].cleared \cup tx[u].pruned) = {}

MainFree(t) == \A u \in Saves \ {t} : Open(u) => ~tx[u].locks

(* An INSERT holds a key-share lock of its parent until its transaction    *)
(* ends: a DELETE of the parent waits for it, an UPDATE does not.          *)
ParentFree(t) == \A u \in Saves \ {t} : Open(u) => ~tx[u].inserted

DeleteWaiting(t) == \E u \in Saves \ {t} : Open(u) /\ tx[u].locks /\ tx[u].kind = "delete"

Step(t, new) == tx' = [tx EXCEPT ![t] = new]
Fail(t)      == Step(t, [tx[t] EXCEPT !.pc = "failed"])
Tables       == <<deploy, main, rows, last, restored>>

-----------------------------------------------------------------------------
(* The start of each save.  transaction_immediate takes the write lock on  *)
(* SQLite and is a plain BEGIN on Postgres.                                *)
(*                                                                         *)
(* The BeforeChange hooks of an unpublish may save the document themselves *)
(* (crap.collections.update, crap.globals.update and the like), inside its *)
(* transaction.  Such a save is modelled as one of its own that runs while *)
(* the unpublish waits in "hooks".  On SQLite nobody else reads meanwhile; *)
(* and when the unpublish fails later, and takes the hook's save back, the *)
(* model keeps a state in which that save ran alone.  Other hooks need no  *)
(* step: those of an update run before it reads or writes, AfterChange     *)
(* hooks run after its last statement, and a restore runs none.            *)

InHooks(t) == tx[t].pc = "hooks"

transaction_immediate(t, kind, pc) ==
    /\ tx[t].pc = "none"
    /\ ~deploy.pg => \A u \in Saves : Open(u) => InHooks(u)
    /\ Step(t, [NoTx EXCEPT !.pc = pc, !.kind = kind])
    /\ UNCHANGED Tables

Alone(t) == ~deploy.pg => \A u \in Saves \ {t} : ~Open(u)

BeginUpdate(t)    == transaction_immediate(t, "publish", "main")
BeginDraft(t)     == transaction_immediate(t, "draft", "read")
BeginUnpublish(t) == Alone(t) /\ transaction_immediate(t, "unpublish", "read")
BeginRestore(t)   == transaction_immediate(t, "restore", "read")
BeginDelete(t)    == ~deploy.global /\ transaction_immediate(t, "delete", "main")

(* A draft save reads the document only to merge its data over it; the     *)
(* main table is not written and not locked.                               *)
persist_draft_version(t) ==
    /\ tx[t].pc = "read" /\ tx[t].kind = "draft"
    /\ IF main = Gone THEN Fail(t)
       ELSE Step(t, [tx[t] EXCEPT !.pc = "max", !.doc = t])
    /\ UNCHANGED Tables

(* Unpublish reads the document and hands it to its BeforeChange hooks.    *)
unpublish_document_in_conn(t) ==
    /\ tx[t].pc = "read" /\ tx[t].kind = "unpublish"
    /\ IF main = Gone THEN Fail(t)
       ELSE Step(t, [tx[t] EXCEPT !.pc = "hooks", !.doc = main.content])
    /\ UNCHANGED Tables

\* Mutant of persist_unpublish: the document as it was before the hooks.
KeepFirstRead(t) ==
    /\ ~deploy.global
    /\ InHooks(t) /\ Alone(t)
    /\ Step(t, [tx[t] EXCEPT !.pc = "main"])
    /\ UNCHANGED Tables

(* A collection's unpublish reads the document again when its hooks have   *)
(* returned: that is what it records, and it has not locked the row yet.   *)
persist_unpublish(t) ==
    /\ ~deploy.global
    /\ InHooks(t) /\ Alone(t)
    /\ IF main = Gone THEN Fail(t)
       ELSE Step(t, [tx[t] EXCEPT !.pc = "main", !.doc = main.content])
    /\ UNCHANGED Tables

(* A global's unpublish records the document as read before its hooks.     *)
unpublish_global_document(t) ==
    /\ deploy.global
    /\ InHooks(t) /\ Alone(t)
    /\ Step(t, [tx[t] EXCEPT !.pc = "main"])
    /\ UNCHANGED Tables

(* Restore looks its version up by id.                                     *)
find_version_by_id(t) ==
    /\ tx[t].pc = "read" /\ tx[t].kind = "restore"
    /\ \/ \E r \in rows : Step(t, [tx[t] EXCEPT !.pc = "main", !.doc = r.snapshot])
       \/ rows = {} /\ Fail(t)
    /\ UNCHANGED Tables

(* The UPDATE of the main row and of its _status, one lock for both.       *)
WriteMain(t, kind, doc) ==
    /\ tx[t].pc = "main" /\ tx[t].kind = kind
    /\ MainFree(t)
    /\ IF main = Gone THEN Fail(t)
       ELSE Step(t, [tx[t] EXCEPT !.pc = "max", !.locks = TRUE, !.doc = doc])
    /\ UNCHANGED Tables

persist_update(t)          == ~deploy.global /\ WriteMain(t, "publish", t)
persist_global_update(t)   == deploy.global /\ WriteMain(t, "publish", t)
unpublish_with_snapshot(t) == WriteMain(t, "unpublish", tx[t].doc)

\* Mutant of restore_version: the restored content gets no version.
RestoreUnrecorded(t) ==
    /\ tx[t].pc = "main" /\ tx[t].kind = "restore" /\ ~deploy.global
    /\ MainFree(t)
    /\ main # Gone
    /\ Step(t, [tx[t] EXCEPT !.pc = "commit", !.locks = TRUE])
    /\ UNCHANGED Tables

restore_version(t)         == ~deploy.global /\ WriteMain(t, "restore", tx[t].doc)
restore_global_version(t)  == deploy.global /\ WriteMain(t, "restore", tx[t].doc)

(* The DELETE of the main row cascades to the version rows.                *)
DeleteMain(t) ==
    /\ tx[t].pc = "main" /\ tx[t].kind = "delete"
    /\ MainFree(t) /\ ParentFree(t) /\ RowsFree(t, Ids(rows))
    /\ IF main = Gone THEN Fail(t)
       ELSE Step(t, [tx[t] EXCEPT !.pc = "commit", !.locks = TRUE, !.pruned = Ids(rows)])
    /\ UNCHANGED Tables

-----------------------------------------------------------------------------
(* create_version: three statements.                                       *)

SelectMax(t) ==
    /\ tx[t].pc = "max"
    /\ Step(t, [tx[t] EXCEPT !.pc = "clear", !.next = Newest(Visible(t)) + 1])
    /\ UNCHANGED Tables

(* The UPDATE of _latest matches the rows its snapshot shows, waits for    *)
(* those that are locked, and looks at each of them again.                 *)

\* Mutant of MatchLatest: the previous version keeps its flag.
MatchNone(t) ==
    /\ tx[t].pc = "clear"
    /\ Step(t, [tx[t] EXCEPT !.pc = "clearing"])
    /\ UNCHANGED Tables

MatchLatest(t) ==
    /\ tx[t].pc = "clear"
    /\ Step(t, [tx[t] EXCEPT !.pc = "clearing",
                             !.targets = Ids({r \in Visible(t) : r._latest})])
    /\ UNCHANGED Tables

ClearLatest(t) ==
    /\ tx[t].pc = "clearing"
    /\ RowsFree(t, tx[t].targets)
    /\ Step(t, [tx[t] EXCEPT !.pc = "insert", !.targets = {},
                             !.cleared = tx[t].targets \cap Ids({r \in rows : r._latest})])
    /\ UNCHANGED Tables

(* The unique index on (_parent, _version): an INSERT waits for an open    *)
(* transaction that has inserted the number or deletes the row that has    *)
(* it, and fails when a row has it.  The foreign key fails without parent. *)
Taken(t) == {r \in rows : r._version = tx[t].next}

InsertFree(t) ==
    /\ \A u \in Saves \ {t} : Open(u) /\ tx[u].inserted => tx[u].next # tx[t].next
    /\ RowsFree(t, Ids(Taken(t)))
    /\ ~DeleteWaiting(t)

\* Mutant of InsertVersion: no foreign key to the main row.
InsertOrphan(t) ==
    /\ tx[t].pc = "insert"
    /\ InsertFree(t)
    /\ IF Taken(t) # {} THEN Fail(t)
       ELSE Step(t, [tx[t] EXCEPT !.pc = "prune", !.inserted = TRUE])
    /\ UNCHANGED Tables

InsertVersion(t) ==
    /\ tx[t].pc = "insert"
    /\ InsertFree(t)
    /\ IF Taken(t) # {} \/ main = Gone THEN Fail(t)
       ELSE Step(t, [tx[t] EXCEPT !.pc = "prune", !.inserted = TRUE])
    /\ UNCHANGED Tables

\* Mutant of Surplus: one row too many is kept.
SurplusOffByOne(R) ==
    {r \in R : Cardinality({x \in R : x._version > r._version}) > deploy.max_versions}

(* The rows beyond the max_versions newest.                                *)
Surplus(R) ==
    {r \in R : Cardinality({x \in R : x._version > r._version}) >= deploy.max_versions}

(* restore_version ends without pruning.                                   *)
Prunes(t) == deploy.max_versions > 0 /\ tx[t].kind # "restore"

prune_versions(t) ==
    /\ tx[t].pc = "prune"
    /\ IF Prunes(t)
       THEN Step(t, [tx[t] EXCEPT !.pc = "pruning", !.targets = Ids(Surplus(Visible(t)))])
       ELSE Step(t, [tx[t] EXCEPT !.pc = "commit"])
    /\ UNCHANGED Tables

DeleteSurplus(t) ==
    /\ tx[t].pc = "pruning"
    /\ RowsFree(t, tx[t].targets)
    /\ Step(t, [tx[t] EXCEPT !.pc = "commit", !.targets = {},
                             !.pruned = tx[t].targets \cap Ids(Visible(t))])
    /\ UNCHANGED Tables

-----------------------------------------------------------------------------
Commit(t) ==
    /\ tx[t].pc = "commit"
    /\ Step(t, [tx[t] EXCEPT !.pc = "done"])
    /\ rows' = Visible(t)
    /\ main' = CASE tx[t].kind = "draft"  -> main
                 [] tx[t].kind = "delete" -> Gone
                 [] tx[t].kind = "unpublish" -> [main EXCEPT !.status = "draft"]
                 [] OTHER -> [content |-> tx[t].doc, status |-> "published"]
    /\ last' = IF tx[t].kind = "delete" THEN last ELSE tx[t].doc
    /\ restored' = IF tx[t].kind = "restore" THEN restored + 1 ELSE 0
    /\ UNCHANGED deploy

(* An error of a hook or of the database, a deadlock that Postgres breaks, *)
(* or the end of the process: the transaction is rolled back.              *)
Rollback(t) ==
    /\ Open(t)
    /\ Fail(t)
    /\ UNCHANGED Tables

Save(t) ==
    \/ BeginUpdate(t) \/ BeginDraft(t) \/ BeginUnpublish(t)
    \/ BeginRestore(t) \/ BeginDelete(t)
    \/ persist_draft_version(t) \/ unpublish_document_in_conn(t)
    \/ persist_unpublish(t) \/ unpublish_global_document(t) \/ find_version_by_id(t)
    \/ persist_update(t) \/ persist_global_update(t) \/ unpublish_with_snapshot(t)
    \/ restore_version(t) \/ restore_global_version(t) \/ DeleteMain(t)
    \/ SelectMax(t) \/ MatchLatest(t) \/ ClearLatest(t) \/ InsertVersion(t)
    \/ prune_versions(t) \/ DeleteSurplus(t)
    \/ Commit(t) \/ Rollback(t)

Next == \E t \in Saves : Save(t)

Spec == Init /\ [][Next]_vars

-----------------------------------------------------------------------------
(* What find_by_id_full returns of a collection's document for draft =     *)
(* true: the latest version if it is a draft, else the main row.           *)
find_by_id_full ==
    IF \E r \in rows : r._latest /\ r._status = "draft"
    THEN (CHOOSE r \in rows : r._latest).snapshot
    ELSE main.content

(* While the document exists exactly one version has the _latest flag of   *)
(* create_version, and it has the highest number.                          *)
LatestIsHighest ==
    main # Gone =>
        \E r \in rows : /\ r._latest
                        /\ \A x \in rows \ {r} : ~x._latest /\ x._version < r._version

(* An editor who opens a document of a collection (find_by_id_full with    *)
(* draft = true) gets what the save that committed last has recorded,      *)
(* although draft saves lock nothing and overlap publishes, restores and   *)
(* unpublishes.  A global is read by get_global, which knows no drafts.    *)
EditorSeesLastSave == ~deploy.global /\ main # Gone => find_by_id_full = last

(* The published content is on record: as long as some published version   *)
(* has not been pruned, the newest of them is what the main row holds.     *)
PublishedOnRecord ==
    LET published == {r \in rows : r._status = "published"}
    IN  main.status = "published" /\ published # {} =>
            \E r \in published :
                r._version = Newest(published) /\ r.snapshot = main.content

(* Pruning keeps the log at max_versions rows; only restores, which do not *)
(* prune, add to it until the next save.                                   *)
LogWithinCap ==
    deploy.max_versions > 0 =>
        Cardinality(rows) <= deploy.max_versions + restored

(* On SQLite the draft that the unpublish of a collection's document has   *)
(* recorded is the content of the row it took offline, also when its       *)
(* BeforeChange hooks have saved the document after it was first read.     *)
UnpublishKeepsContent ==
    ~deploy.pg /\ ~deploy.global /\ main # Gone =>
        \A r \in rows :
            r._latest /\ r.id \in Saves /\ tx[r.id].kind = "unpublish" =>
                r.snapshot = main.content

(* A document that was deleted stays so: no save that was under way, and   *)
(* had read the document or numbered its version, brings the row or a      *)
(* version back.                                                           *)
DeletedForGood == [][main = Gone => main' = Gone /\ rows' = {}]_vars
=============================================================================

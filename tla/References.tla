----------------------------- MODULE References -----------------------------
(***************************************************************************)
(* Documents, the references between them and the column _ref_count that   *)
(* protects a referenced document from being deleted.                      *)
(*                                                                         *)
(* On SQLite every write of the service layer runs in one IMMEDIATE        *)
(* transaction, so at most one is open; what runs inside it is the         *)
(* operation of the request and the operations its Lua hooks call on the   *)
(* same connection.  There are no savepoints.  A hard delete checks        *)
(* _ref_count, runs its before-delete hooks and only then removes the row. *)
(***************************************************************************)
EXTENDS Integers, Sequences, FiniteSets

CONSTANTS
    Docs,        \* document ids (nanoid: never used twice)
    None,        \* an empty reference
    Columns,     \* the reference slots of a document: columns, array rows
    Localized,   \* the slots that are columns of localized has-one fields
    SoftDelete,  \* the documents of collections with soft_delete
    Uses,        \* what the deployment does beyond plain service calls
    MaxOps,      \* bound: operations in one transaction
    MaxNest      \* bound: deletes nested in each other's hooks

ASSUME ReferencesAssumption ==
    /\ IsFiniteSet(Docs)
    /\ IsFiniteSet(Columns)
    /\ None \notin Docs
    /\ Localized \subseteq Columns
    /\ SoftDelete \subseteq Docs
    /\ Uses \subseteq {"cli", "hook_ref", "lua_delete"}

VARIABLES
    db,        \* the tables, as the open transaction sees them
    saved,     \* the tables as last committed, while a transaction is open
    open,      \* a transaction is open
    ops,       \* operations done in it
    deleting,  \* stack of hard deletes that passed the check (in hooks)
    pending,   \* upload_doc_fields of rows it deleted, cleaned after commit
    todo,      \* files to remove after a commit
    files      \* the documents whose upload files are in storage

vars == <<db, saved, open, ops, deleting, pending, todo, files>>

-----------------------------------------------------------------------------
Targets == Docs \cup {None}
Rows == [Columns -> Targets]           \* the references of one document
EmptyRow == [c \in Columns |-> None]

\* The tables.  leaked and forced are history: the references to t that a
\* delete dropped without decrementing _ref_count of t, and the documents
\* deleted while their own _ref_count was not zero.
Tables == [state : [Docs -> {"absent", "live", "trash", "gone"}],
           ref : [Docs -> Rows], count : [Docs -> Nat],
           leaked : [Docs -> Nat], forced : SUBSET Docs]

Stored(b, d) == b.state[d] \in {"live", "trash"}
Committed == IF open THEN saved ELSE db

EmptyTables ==
    [state |-> [d \in Docs |-> "absent"], ref |-> [d \in Docs |-> EmptyRow],
     count |-> [d \in Docs |-> 0], leaked |-> [d \in Docs |-> 0], forced |-> {}]

Init ==
    /\ db = EmptyTables
    /\ saved = EmptyTables
    /\ open = FALSE
    /\ ops = 0
    /\ deleting = <<>>
    /\ pending = {} /\ todo = {} /\ files = {}

-----------------------------------------------------------------------------
\* The deltas of _ref_count and how they are applied.

Slots(row, t) == {c \in Columns : row[c] = t}

to_delta_map(old, new, t) == Cardinality(Slots(new, t)) - Cardinality(Slots(old, t))

\* Mutant of CanApply: an increment of a missing row passes unnoticed.
AnyTarget(b, old, new) == TRUE

\* An increment of a row that does not exist fails the transaction; a
\* decrement of one is skipped.
CanApply(b, old, new) ==
    \A t \in Docs : to_delta_map(old, new, t) > 0 => Stored(b, t)

\* Mutant of Clamp: the count may fall below zero.
NoClamp(n) == n

Clamp(n) == IF n < 0 THEN 0 ELSE n

apply_deltas(b, old, new) ==
    [t \in Docs |-> IF Stored(b, t) THEN Clamp(b.count[t] + to_delta_map(old, new, t))
                                    ELSE b.count[t]]

\* compute_refs_from_data looks a localized reference up under the names of
\* its locale columns, and the data of a create holds it under the name of
\* the field: it is written, but neither counted nor checked.
compute_refs_from_data(row) ==
    [c \in Columns |-> IF c \in Localized THEN None ELSE row[c]]

\* A row is written; its references are the id of a document that existed.
WriteRow(b, d, row, counts) ==
    [b EXCEPT !.state[d] = "live", !.ref[d] = row, !.count = counts]

Known(b, row) == \A c \in Columns : row[c] # None => b.state[row[c]] # "absent"

\* What a write inside the hooks of a delete may refer to.
HookRefs(row) ==
    \/ "hook_ref" \in Uses
    \/ \A i \in 1..Len(deleting) : Slots(row, deleting[i].doc) = {}

-----------------------------------------------------------------------------
\* The transaction of a request.

Begin ==
    /\ ~open
    /\ open' = TRUE
    /\ saved' = db
    /\ UNCHANGED <<db, ops, deleting, pending, todo, files>>

Op == open /\ ops < MaxOps /\ ops' = ops + 1

Commit ==
    /\ open
    /\ deleting = <<>>
    /\ open' = FALSE
    /\ saved' = db
    /\ ops' = 0
    /\ pending' = {}
    /\ todo' = todo \cup pending
    /\ UNCHANGED <<db, deleting, files>>

\* The documents the open transaction created.
Created == {d \in Docs : saved.state[d] = "absent" /\ db.state[d] # "absent"}

Undo ==
    /\ db' = saved
    /\ open' = FALSE
    /\ ops' = 0
    /\ deleting' = <<>>
    /\ pending' = {}
    /\ UNCHANGED saved

\* An error rolls back; CleanupGuard removes the files of a new upload.
Rollback ==
    /\ open
    /\ Undo
    /\ files' = files \ Created
    /\ UNCHANGED todo

Crash ==
    /\ Undo
    /\ todo' = {}
    /\ UNCHANGED files

\* Upload files are removed after the commit.
delete_upload_files(d) ==
    /\ d \in todo
    /\ todo' = todo \ {d}
    /\ files' = files \ {d}
    /\ UNCHANGED <<db, saved, open, ops, deleting, pending>>

-----------------------------------------------------------------------------
\* The operations, each on the connection of the open transaction.

persist_create(d, row) ==
    /\ Op
    /\ db.state[d] = "absent"
    /\ Slots(row, d) = {}
    /\ Known(db, row)
    /\ HookRefs(row)
    /\ LET counted == compute_refs_from_data(row)
       IN  /\ CanApply(db, EmptyRow, counted)
           /\ db' = WriteRow(db, d, row, apply_deltas(db, EmptyRow, counted))
    /\ files' = files \cup {d}
    /\ UNCHANGED <<saved, open, deleting, pending, todo>>

\* Updates, bulk updates and restored versions; a trashed document is not
\* found after its update and the transaction fails.
persist_update(d, row) ==
    /\ Op
    /\ db.state[d] = "live"
    /\ row # db.ref[d]
    /\ Known(db, row)
    /\ HookRefs(row)
    /\ CanApply(db, db.ref[d], row)
    /\ db' = WriteRow(db, d, row, apply_deltas(db, db.ref[d], row))
    /\ UNCHANGED <<saved, open, deleting, pending, todo, files>>

soft_delete(d) ==
    /\ Op
    /\ d \in SoftDelete
    /\ db.state[d] = "live"
    /\ db' = [db EXCEPT !.state[d] = "trash"]
    /\ UNCHANGED <<saved, open, deleting, pending, todo, files>>

undelete_document(d) ==
    /\ Op
    /\ db.state[d] = "trash"
    /\ db' = [db EXCEPT !.state[d] = "live"]
    /\ UNCHANGED <<saved, open, deleting, pending, todo, files>>

\* The row disappears, with its references.
RemoveRow(b, d) == [b EXCEPT !.state[d] = "gone", !.ref[d] = EmptyRow,
                             !.forced = IF b.count[d] > 0 THEN @ \cup {d} ELSE @]

Unreferenced(b, d) == b.count[d] = 0

\* A hard delete passes its check and calls its hooks.  A delete called from
\* Lua (always so inside the hooks of another delete) runs on the caller's
\* connection.  Live documents with soft_delete are only deleted for good by
\* Lua's forceHardDelete.
CheckDelete(d, lua) ==
    /\ Op
    /\ lua => "lua_delete" \in Uses
    /\ deleting # <<>> => lua
    /\ Len(deleting) < MaxNest
    /\ Stored(db, d)
    /\ d \in SoftDelete /\ ~lua => db.state[d] = "trash"
    /\ Unreferenced(db, d)
    /\ deleting' = Append(deleting, [doc |-> d, lua |-> lua])
    /\ UNCHANGED <<db, saved, open, pending, todo, files>>

\* Mutant of HardDelete: before_hard_delete is not called.
DeleteWithoutDecrement(b, d) == RemoveRow(b, d)

\* What before_hard_delete and DELETE do to the tables.
HardDelete(b, d) ==
    [RemoveRow(b, d) EXCEPT !.count = apply_deltas(b, b.ref[d], EmptyRow)]

\* The hooks have returned: the targets are decremented and the row removed.
\* Lua's delete removes the files at once, a request's after its commit.
DeleteRow ==
    /\ deleting # <<>>
    /\ LET top == deleting[Len(deleting)]
       IN  /\ Stored(db, top.doc)
           /\ db' = HardDelete(db, top.doc)
           /\ deleting' = SubSeq(deleting, 1, Len(deleting) - 1)
           /\ files' = IF top.lua THEN files \ {top.doc} ELSE files
           /\ pending' = IF top.lua THEN pending ELSE pending \cup {top.doc}
    /\ UNCHANGED <<saved, open, ops, todo>>

\* crap-cms trash purge: trashed rows are deleted in a transaction of its
\* own, without looking at _ref_count and without touching that of the
\* targets; the files go first, even when the transaction then fails.
purge_documents(d, fails) ==
    /\ "cli" \in Uses
    /\ ~open
    /\ db.state[d] = "trash"
    /\ files' = files \ {d}
    /\ db' = IF fails THEN db
             ELSE [RemoveRow(db, d) EXCEPT
                     !.leaked = [t \in Docs |-> @[t] + Cardinality(Slots(db.ref[d], t))]]
    /\ saved' = db'
    /\ UNCHANGED <<open, ops, deleting, pending, todo>>

-----------------------------------------------------------------------------
Write(d) ==
    \/ \E row \in Rows : persist_create(d, row) \/ persist_update(d, row)
    \/ soft_delete(d)
    \/ undelete_document(d)
    \/ \E lua \in BOOLEAN : CheckDelete(d, lua)

Undone == Rollback \/ Crash

Proceed ==
    \/ Begin \/ Commit \/ DeleteRow
    \/ \E d \in Docs :
          \/ Write(d)
          \/ delete_upload_files(d)
          \/ \E fails \in BOOLEAN : purge_documents(d, fails)

RefNext == Undone \/ Proceed

Spec == Init /\ [][RefNext]_vars

-----------------------------------------------------------------------------
\* Properties.

\* Every table and every set has its type; _ref_count never goes negative.
RefTypeOK ==
    /\ db \in Tables /\ saved \in Tables
    /\ open \in BOOLEAN
    /\ ops \in Nat
    /\ deleting \in Seq([doc : Docs, lua : BOOLEAN])
    /\ pending \subseteq Docs /\ todo \subseteq Docs /\ files \subseteq Docs

\* The reference slots that hold t, in live and in trashed documents.
Referrers(b, t) == {p \in Docs \X Columns : b.ref[p[1]][p[2]] = t}

Accounted(b) ==
    \A t \in Docs : Stored(b, t) => b.count[t] = Cardinality(Referrers(b, t)) + b.leaked[t]

\* _ref_count of a stored document is the number of references to it, plus
\* the ones that crap-cms trash purge dropped without decrementing it.
CountsAccounted == Accounted(db)

LeadsSomewhere(b) ==
    \A d \in Docs, c \in Columns :
       b.ref[d][c] # None => Stored(b, b.ref[d][c]) \/ b.ref[d][c] \in b.forced

\* A reference leads to a stored document, unless that document was deleted
\* while it was counted as referenced (by the CLI, or because the hooks of
\* its own delete referred to it after the check).
DanglingIsForced == LeadsSomewhere(db)

\* A reference leads to a stored document (when neither the CLI purge nor a
\* hook that refers to the document being deleted is in use).
NoDangling ==
    \A d \in Docs, c \in Columns : db.ref[d][c] # None => Stored(db, db.ref[d][c])

\* A committed document still has its files: they are removed after the
\* transaction that deletes its row, never before.
FilesKept == \A d \in Docs : Stored(Committed, d) => d \in files

=============================================================================

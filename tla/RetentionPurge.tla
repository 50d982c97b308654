--------------------------- MODULE RetentionPurge ---------------------------
(***************************************************************************)
(* The retention purge of a scheduler beside the writers of References:    *)
(* purge_collection deletes the trashed documents whose retention has      *)
(* passed.  It opens no transaction: each of its statements commits by     *)
(* itself, and a writer's transaction may run between any two of them.     *)
(*                                                                         *)
(* A step of the purge waits until no transaction is open: its writes have *)
(* to, and what it reads before a commit is what it would have read before *)
(* that transaction began.                                                 *)
(***************************************************************************)
EXTENDS References

CONSTANT MaxAborts   \* bound: purges that stop at a database error

VARIABLES
    expired,   \* documents in the trash for longer than the retention
    kept,      \* the same, as last committed
    purge,     \* the purge in progress
    aborts     \* purges stopped so far

purgeVars == <<expired, kept, purge, aborts>>
allVars == <<vars, purgeVars>>

\* ids: rows still to visit; id: the one at hand; old: its references as
\* read; uploads: the documents whose files are removed at the end.
Idle == [pc |-> "idle", ids |-> {}, id |-> None, old |-> EmptyRow, uploads |-> {}]

PurgeInit == Init /\ expired = {} /\ kept = {} /\ purge = Idle /\ aborts = 0

PurgeStep(pc) == ~open /\ purge.pc = pc /\ UNCHANGED aborts

\* _deleted_at falls behind the retention threshold.
Expire(d) ==
    /\ ~open
    /\ db.state[d] = "trash"
    /\ expired' = expired \cup {d}
    /\ kept' = expired'
    /\ UNCHANGED <<vars, purge, aborts>>

\* The SELECT of the rows past the threshold.
PurgeSelect ==
    /\ PurgeStep("idle")
    /\ \E d \in expired : db.state[d] = "trash"
    /\ purge' = [purge EXCEPT !.pc = "row",
                              !.ids = {d \in expired : db.state[d] = "trash"}]
    /\ UNCHANGED <<vars, expired, kept>>

\* Mutant of PurgeCheck: the comparison lets no row through.
PurgeCheckNone(d) ==
    /\ PurgeStep("row")
    /\ d \in purge.ids
    /\ purge' = IF Stored(db, d) /\ db.count[d] >= 0
                THEN [purge EXCEPT !.ids = @ \ {d}]
                ELSE [purge EXCEPT !.ids = @ \ {d}, !.id = d, !.pc = "read"]
    /\ UNCHANGED <<vars, expired, kept>>

\* The next row is skipped when it is referenced.
PurgeCheck(d) ==
    /\ PurgeStep("row")
    /\ d \in purge.ids
    /\ purge' = IF Stored(db, d) /\ db.count[d] > 0
                THEN [purge EXCEPT !.ids = @ \ {d}]
                ELSE [purge EXCEPT !.ids = @ \ {d}, !.id = d, !.pc = "read"]
    /\ UNCHANGED <<vars, expired, kept>>

\* before_hard_delete reads the references of the row, then decrements their
\* targets; the DELETE follows.
PurgeRead ==
    /\ PurgeStep("read")
    /\ purge' = [purge EXCEPT !.old = db.ref[purge.id], !.pc = "decrement"]
    /\ UNCHANGED <<vars, expired, kept>>

\* Mutant of PurgeDecrement: the files of the row go before the row.
DecrementAndCleanUp ==
    /\ PurgeStep("decrement")
    /\ db' = [db EXCEPT !.count = apply_deltas(db, purge.old, EmptyRow)]
    /\ saved' = db'
    /\ files' = files \ {purge.id}
    /\ purge' = [purge EXCEPT !.pc = "delete"]
    /\ UNCHANGED <<open, ops, deleting, pending, todo, expired, kept>>

PurgeDecrement ==
    /\ PurgeStep("decrement")
    /\ db' = [db EXCEPT !.count = apply_deltas(db, purge.old, EmptyRow)]
    /\ saved' = db'
    /\ purge' = [purge EXCEPT !.pc = "delete"]
    /\ UNCHANGED <<open, ops, deleting, pending, todo, files, expired, kept>>

\* The row is deleted whatever has happened to it since the SELECT.
PurgeDelete ==
    /\ PurgeStep("delete")
    /\ db' = IF Stored(db, purge.id) THEN RemoveRow(db, purge.id) ELSE db
    /\ saved' = db'
    /\ purge' = [purge EXCEPT !.uploads = IF Stored(db, purge.id)
                                          THEN @ \cup {purge.id} ELSE @,
                              !.id = None, !.old = EmptyRow, !.pc = "row"]
    /\ UNCHANGED <<open, ops, deleting, pending, todo, files, expired, kept>>

\* The files go after all rows.
PurgeFiles ==
    /\ purge.pc = "row"
    /\ purge.ids = {}
    /\ purge' = Idle
    /\ files' = files \ purge.uploads
    /\ UNCHANGED <<db, saved, open, ops, deleting, pending, todo, expired, kept, aborts>>

\* A statement fails: the error ends the purge and its files stay.
PurgeAborts ==
    /\ purge.pc # "idle"
    /\ aborts < MaxAborts
    /\ aborts' = aborts + 1
    /\ purge' = Idle
    /\ UNCHANGED <<vars, expired, kept>>

\* A document that leaves the trash starts a new retention when it returns.
WriterStep ==
    /\ \/ Undone /\ expired' = kept
       \/ Proceed /\ expired' = {d \in expired : db'.state[d] = "trash"}
    /\ kept' = IF open' THEN kept ELSE expired'
    /\ UNCHANGED <<purge, aborts>>

PurgeRun ==
    \/ PurgeSelect \/ PurgeRead \/ PurgeDecrement \/ PurgeDelete \/ PurgeFiles
    \/ \E d \in Docs : PurgeCheck(d)

PurgeNext ==
    \/ WriterStep
    \/ PurgeRun
    \/ PurgeAborts
    \/ \E d \in Docs : Expire(d)

PurgeSpec == PurgeInit /\ [][PurgeNext]_allVars

\* Time passes and transactions end; the busy timeout of SQLite lets the
\* purge in between the transactions of the writers.
Fairness ==
    /\ WF_allVars((Commit \/ Rollback) /\ WriterStep)
    /\ \A d \in Docs : SF_allVars(Expire(d))
    /\ SF_allVars(PurgeRun)

FairPurgeSpec == PurgeSpec /\ Fairness

-----------------------------------------------------------------------------
\* Properties.

\* A document that stays in the trash unreferenced does not stay for ever.
ExpiredGoes ==
    \A d \in Docs : ~<>[](Committed.state[d] = "trash" /\ Committed.count[d] = 0)

=============================================================================

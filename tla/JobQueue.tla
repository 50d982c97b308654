------------------------------ MODULE JobQueue ------------------------------
(***************************************************************************)
(* The persistent job queue (table _crap_jobs) and the schedulers that     *)
(* share it.  A scheduler polls the table, claims pending rows inside the  *)
(* concurrency caps and starts one execution per claimed row: a blocking   *)
(* thread running the handler, and an async task that awaits the thread    *)
(* under a timeout.  The task cannot stop the thread, so a timed-out       *)
(* handler runs on ("zombie") and still writes its verdict.  None of the   *)
(* verdict updates looks at the status the row has by then.                *)
(***************************************************************************)
EXTENDS Integers, FiniteSets

CONSTANTS
    Jobs,         \* row ids (nanoid, never reused)
    Slugs,        \* job slugs
    Queues,       \* queue names
    Nodes,        \* scheduler processes
    Pollers,      \* in-flight polls: one tokio task per poll tick
    Home,         \* Home[p]: the process a poll runs in
    Slug, Queue, Prio, MaxAttempts,   \* columns a row keeps for life
    UniqueKey,    \* unique_key of a row, or NoKey
    NoKey,
    Defined,      \* slugs resolve_job_def finds (registry and system jobs)
    ImageSlug,    \* the slug of the image conversion system job
    SlugCap,      \* per-slug cap; a slug outside its domain has none
    QueueCap,     \* per-queue cap; a queue outside its domain has none
    MaxConcurrent,
    Backend,      \* "sqlite" or "postgres"
    Faults        \* which of {"panic", "timeout", "stop", "db"} may happen

Statuses  == {"absent", "pending", "running", "completed", "failed", "stale", "deleted"}
Terminal  == {"completed", "failed", "stale"}
Active    == {"pending", "running"}
RowStates == Active \cup Terminal

ASSUME ConstantsAssumption ==
    /\ IsFiniteSet(Jobs)
    /\ Home \in [Pollers -> Nodes]
    /\ Slug \in [Jobs -> Slugs]
    /\ Queue \in [Jobs -> Queues]
    /\ Prio \in [Jobs -> Int]
    /\ MaxAttempts \in [Jobs -> Nat \ {0}]
    /\ \A s \in DOMAIN SlugCap : SlugCap[s] \in Nat
    /\ \A q \in DOMAIN QueueCap : QueueCap[q] \in Nat \ {0}
    /\ MaxConcurrent \in Nat
    /\ Backend \in {"sqlite", "postgres"}

VARIABLES
    status,    \* status column; "absent" before the INSERT, "deleted" after the DELETE
    attempt,   \* attempt column
    due,       \* retry_after is NULL or in the past
    beat,      \* heartbeat_at lies in the current second
    pc,        \* where each poll is in poll_and_execute
    limit,     \* free slots the poll counted
    cands,     \* candidate rows it has still to look at
    snap,      \* attempt column of its candidates when it selected them
    seen,      \* rows it counted as running
    claimed,   \* rows it has taken and not dispatched yet
    exec,      \* executions still alive
    node,      \* life cycle of each scheduler process
    recov,     \* rows a starting scheduler found stale and has not marked yet
    requeued   \* history: which verdict of which attempt put the row back

row  == <<status, attempt, due, beat>>
poll == <<pc, limit, cands, snap, seen, claimed>>
vars == <<row, poll, exec, node, recov, requeued>>

-----------------------------------------------------------------------------
(* Types                                                                   *)

Verdicts == {"timeout", "handler"}

(* "live": handler running, task awaiting it.  "wrote": the verdict is in  *)
(* the table, the thread has not returned yet.  "zombie": the task has     *)
(* timed out, the handler still runs.                                      *)
Execution == [job : Jobs, att : Nat, node : Nodes, st : {"live", "wrote", "zombie"}]

PollStates == {"idle", "counted", "selected", "claim", "dispatch"}

(* Every variable holds a value of its type.                               *)
TypeOK ==
    /\ status \in [Jobs -> Statuses]
    /\ attempt \in [Jobs -> Nat]
    /\ due \in [Jobs -> BOOLEAN]
    /\ beat \in [Jobs -> BOOLEAN]
    /\ pc \in [Pollers -> PollStates]
    /\ limit \in [Pollers -> Nat]
    /\ cands \in [Pollers -> SUBSET Jobs]
    /\ snap \in [Pollers -> [Jobs -> Nat]]
    /\ seen \in [Pollers -> SUBSET Jobs]
    /\ claimed \in [Pollers -> SUBSET Jobs]
    /\ exec \subseteq Execution
    /\ node \in [Nodes -> {"down", "recovering", "up"}]
    /\ recov \in [Nodes -> SUBSET Jobs]
    /\ requeued \in [Jobs -> SUBSET (Nat \X Verdicts)]

-----------------------------------------------------------------------------
(* Rows                                                                    *)

Running == {j \in Jobs : status[j] = "running"}

SlugRows(s, J)  == {j \in J : Slug[j] = s}
QueueRows(q, J) == {j \in J : Queue[j] = q}

(* Mutant: a deferred transaction.                                         *)
NeverLocked == FALSE

(* The IMMEDIATE transaction of a claim holds SQLite's only write lock.    *)
WriteLocked ==
    Backend = "sqlite" /\ \E p \in Pollers : pc[p] \in {"selected", "claim"}

(* idx_crap_jobs_unique_active would reject row j becoming active.         *)
UniqueConflict(j) ==
    /\ UniqueKey[j] # NoKey
    /\ \E k \in Jobs \ {j} :
          /\ Slug[k] = Slug[j]
          /\ UniqueKey[k] = UniqueKey[j]
          /\ status[k] \in Active

(* UPDATE ... SET status = s WHERE id = j                                  *)
SetStatus(j, s) ==
    IF status[j] \in RowStates THEN [status EXCEPT ![j] = s] ELSE status

complete_job(j) ==
    /\ status' = SetStatus(j, "completed")
    /\ UNCHANGED <<attempt, due, beat, requeued>>

(* Mutant: a status that no reader knows.                                  *)
MarkInterrupted(j) ==
    /\ status' = SetStatus(j, "interrupted")
    /\ UNCHANGED <<attempt, due, beat, requeued>>

(* mark_stale is complete_job with another status.                         *)
mark_stale(j) ==
    /\ status' = SetStatus(j, "stale")
    /\ UNCHANGED <<attempt, due, beat, requeued>>

(* Mutant: a retry that the unique index does not see.                     *)
RequeueReplaced(j) == Backend = "sqlite" /\ status[j] \in RowStates

(* The UPDATE that puts row j back into the queue succeeds.  The unique    *)
(* index may reject it; on Postgres its "+N seconds" text is no argument   *)
(* of make_interval.  An error leaves the row alone.                       *)
Requeues(j) == Backend = "sqlite" /\ status[j] \in RowStates /\ ~UniqueConflict(j)

(* The verdict v of attempt a failed.  Callers go on when there is no      *)
(* connection, or drop the error ("db").                                   *)
fail_job(j, retry, a, v) ==
    \/ /\ "db" \in Faults
       /\ UNCHANGED <<row, requeued>>
    \/ /\ ~retry
       /\ status' = SetStatus(j, "failed")
       /\ UNCHANGED <<attempt, due, beat, requeued>>
    \/ /\ retry /\ Requeues(j)
       /\ status' = [status EXCEPT ![j] = "pending"]
       /\ due' = [due EXCEPT ![j] = FALSE]
       /\ beat' = [beat EXCEPT ![j] = FALSE]
       /\ requeued' = [requeued EXCEPT ![j] = @ \cup {<<a, v>>}]
       /\ UNCHANGED attempt
    \/ /\ retry /\ ~Requeues(j)
       /\ UNCHANGED <<row, requeued>>

-----------------------------------------------------------------------------
Init ==
    /\ status = [j \in Jobs |-> "absent"]
    /\ attempt = [j \in Jobs |-> 0]
    /\ due = [j \in Jobs |-> FALSE]
    /\ beat = [j \in Jobs |-> FALSE]
    /\ pc = [p \in Pollers |-> "idle"]
    /\ limit = [p \in Pollers |-> 0]
    /\ cands = [p \in Pollers |-> {}]
    /\ snap = [p \in Pollers |-> [j \in Jobs |-> 0]]
    /\ seen = [p \in Pollers |-> {}]
    /\ claimed = [p \in Pollers |-> {}]
    /\ exec = {}
    /\ node = [n \in Nodes |-> "down"]
    /\ recov = [n \in Nodes |-> {}]
    /\ requeued = [j \in Jobs |-> {}]

-----------------------------------------------------------------------------
(* Producers and operators: Lua, gRPC, CLI, cron                           *)

(* insert_job_with: a conflicting unique key returns the existing row.     *)
(* Postgres adds the negated delay: a delayed row is due at once.          *)
insert_job_with(j) ==
    /\ ~WriteLocked
    /\ status[j] = "absent"
    /\ ~UniqueConflict(j)
    /\ status' = [status EXCEPT ![j] = "pending"]
    /\ \E now \in BOOLEAN :
          /\ Backend = "postgres" => now
          /\ due' = [due EXCEPT ![j] = now]
    /\ UNCHANGED <<attempt, beat, poll, exec, node, recov, requeued>>

(* cancel_pending_jobs with a slug, or with none (S = Slugs).              *)
cancel_pending_jobs(S) ==
    /\ ~WriteLocked
    /\ \E j \in Jobs : status[j] = "pending" /\ Slug[j] \in S
    /\ status' = [j \in Jobs |-> IF status[j] = "pending" /\ Slug[j] \in S
                                 THEN "deleted" ELSE status[j]]
    /\ UNCHANGED <<attempt, due, beat, poll, exec, node, recov, requeued>>

(* purge_old_jobs: created_at decides, so any set of terminal rows may go. *)
purge_old_jobs ==
    /\ ~WriteLocked
    /\ \E J \in SUBSET {j \in Jobs : status[j] \in Terminal} :
          /\ J # {}
          /\ status' = [j \in Jobs |-> IF j \in J THEN "deleted" ELSE status[j]]
    /\ UNCHANGED <<attempt, due, beat, poll, exec, node, recov, requeued>>

(* Time: a delay or a backoff expires.  Time that passes inside a claim    *)
(* transaction is not seen by it: its SELECT has evaluated "now".          *)
BecomeDue(j) ==
    /\ ~WriteLocked
    /\ status[j] = "pending" /\ ~due[j]
    /\ due' = [due EXCEPT ![j] = TRUE]
    /\ UNCHANGED <<status, attempt, beat, poll, exec, node, recov, requeued>>

(* Time: the second in which heartbeats were written is over.              *)
SecondPasses ==
    /\ \E j \in Running : beat[j]
    /\ beat' = [j \in Jobs |-> FALSE]
    /\ UNCHANGED <<status, attempt, due, poll, exec, node, recov, requeued>>

-----------------------------------------------------------------------------
(* poll_and_execute                                                        *)

(* The count of running rows is read before, and outside, the claim.       *)
PollCount(p) ==
    /\ node[Home[p]] = "up"
    /\ pc[p] = "idle"
    /\ Cardinality(Running) < MaxConcurrent
    /\ pc' = [pc EXCEPT ![p] = "counted"]
    /\ limit' = [limit EXCEPT ![p] = MaxConcurrent - Cardinality(Running)]
    /\ UNCHANGED <<row, cands, snap, seen, claimed, exec, node, recov, requeued>>

Eligible == {j \in Jobs : status[j] = "pending" /\ due[j]}

(* Mutant: ORDER BY created_at only.                                       *)
AnyCandidates(n) ==
    {C \in SUBSET Eligible :
        Cardinality(C) = IF Cardinality(Eligible) < n THEN Cardinality(Eligible) ELSE n}

(* The results of SELECT ... ORDER BY priority DESC, created_at LIMIT n:   *)
(* created_at has a resolution of one second, equal ones come in any order.*)
Candidates(n) ==
    {C \in SUBSET Eligible :
        /\ Cardinality(C) = IF Cardinality(Eligible) < n THEN Cardinality(Eligible) ELSE n
        /\ \A c \in C, k \in Eligible \ C : Prio[k] <= Prio[c]}

(* BEGIN IMMEDIATE on SQLite, and the SELECT of limit * 2 candidates.      *)
ClaimSelect(p) ==
    /\ pc[p] = "counted"
    /\ ~WriteLocked
    /\ \E C \in Candidates(2 * limit[p]) :
          /\ cands' = [cands EXCEPT ![p] = C]
          /\ snap' = [snap EXCEPT ![p] = [j \in Jobs |-> IF j \in C THEN attempt[j] ELSE 0]]
    /\ pc' = [pc EXCEPT ![p] = "selected"]
    /\ UNCHANGED <<row, limit, seen, claimed, exec, node, recov, requeued>>

(* count_running_per_slug and count_running_per_queue.                     *)
ClaimCounts(p) ==
    /\ pc[p] = "selected"
    /\ pc' = [pc EXCEPT ![p] = "claim"]
    /\ seen' = [seen EXCEPT ![p] = Running]
    /\ UNCHANGED <<row, limit, cands, snap, claimed, exec, node, recov, requeued>>

SlugFull(s, J) == s \in DOMAIN SlugCap /\ Cardinality(SlugRows(s, J)) >= SlugCap[s]

QueueFull(q, J) == q \in DOMAIN QueueCap /\ Cardinality(QueueRows(q, J)) >= QueueCap[q]

(* A cap is reached by the rows counted and those this claim has taken.    *)
Capped(j, p) ==
    LET J == seen[p] \cup claimed[p]
    IN  SlugFull(Slug[j], J) \/ QueueFull(Queue[j], J)

(* j is the next row of the candidate loop.                                *)
NextCandidate(p, j) ==
    /\ pc[p] = "claim"
    /\ Cardinality(claimed[p]) < limit[p]
    /\ j \in cands[p]
    /\ \A k \in cands[p] : Prio[k] <= Prio[j]

SkipRow(p, j) ==
    /\ NextCandidate(p, j)
    /\ Capped(j, p)
    /\ cands' = [cands EXCEPT ![p] = @ \ {j}]
    /\ UNCHANGED <<row, pc, limit, snap, seen, claimed, exec, node, recov, requeued>>

(* SQLite: the UPDATE stays inside the transaction until the commit.       *)
TakeRow(p, j) ==
    /\ Backend = "sqlite"
    /\ NextCandidate(p, j)
    /\ ~Capped(j, p)
    /\ cands' = [cands EXCEPT ![p] = @ \ {j}]
    /\ claimed' = [claimed EXCEPT ![p] = @ \cup {j}]
    /\ UNCHANGED <<row, pc, limit, snap, seen, exec, node, recov, requeued>>

(* Mutant: the UPDATE without AND status = 'pending'.                      *)
TakeAnyRow(p, j) ==
    /\ Backend = "postgres"
    /\ NextCandidate(p, j)
    /\ ~Capped(j, p)
    /\ status' = [status EXCEPT ![j] = "running"]
    /\ attempt' = [attempt EXCEPT ![j] = @ + 1]
    /\ beat' = [beat EXCEPT ![j] = TRUE]
    /\ cands' = [cands EXCEPT ![p] = @ \ {j}]
    /\ claimed' = [claimed EXCEPT ![p] = @ \cup {j}]
    /\ UNCHANGED <<due, pc, limit, snap, seen, exec, node, recov, requeued>>

(* Postgres: no transaction, every UPDATE commits by itself.               *)
TakeRowNow(p, j) ==
    /\ Backend = "postgres"
    /\ NextCandidate(p, j)
    /\ ~Capped(j, p)
    /\ status[j] = "pending"
    /\ status' = [status EXCEPT ![j] = "running"]
    /\ attempt' = [attempt EXCEPT ![j] = @ + 1]
    /\ beat' = [beat EXCEPT ![j] = TRUE]
    /\ cands' = [cands EXCEPT ![p] = @ \ {j}]
    /\ claimed' = [claimed EXCEPT ![p] = @ \cup {j}]
    /\ UNCHANGED <<due, pc, limit, snap, seen, exec, node, recov, requeued>>

(* Postgres: the row is no longer pending, the UPDATE affects nothing.     *)
LoseRow(p, j) ==
    /\ Backend = "postgres"
    /\ NextCandidate(p, j)
    /\ ~Capped(j, p)
    /\ status[j] # "pending"
    /\ cands' = [cands EXCEPT ![p] = @ \ {j}]
    /\ UNCHANGED <<row, pc, limit, snap, seen, claimed, exec, node, recov, requeued>>

ClaimEnds(p) ==
    /\ pc[p] = "claim"
    /\ cands[p] = {} \/ Cardinality(claimed[p]) >= limit[p]
    /\ pc' = [pc EXCEPT ![p] = "dispatch"]
    /\ limit' = [limit EXCEPT ![p] = 0]
    /\ cands' = [cands EXCEPT ![p] = {}]
    /\ seen' = [seen EXCEPT ![p] = {}]
    /\ UNCHANGED <<due, snap, claimed, exec, node, recov, requeued>>

(* SQLite: COMMIT makes every row taken visible at once.                   *)
ClaimCommit(p) ==
    /\ Backend = "sqlite"
    /\ ClaimEnds(p)
    /\ status' = [j \in Jobs |-> IF j \in claimed[p] THEN "running" ELSE status[j]]
    /\ attempt' = [j \in Jobs |-> IF j \in claimed[p] THEN attempt[j] + 1 ELSE attempt[j]]
    /\ beat' = [j \in Jobs |-> j \in claimed[p] \/ beat[j]]

ClaimDone(p) ==
    /\ Backend = "postgres"
    /\ ClaimEnds(p)
    /\ UNCHANGED <<status, attempt, beat>>

(* resolve_job_def found a definition: spawn_job_execution.  The JobRun it *)
(* passes on carries the attempt read by the SELECT, plus one.             *)
Spawn(p, j) ==
    /\ pc[p] = "dispatch"
    /\ j \in claimed[p]
    /\ Slug[j] \in Defined
    /\ claimed' = [claimed EXCEPT ![p] = @ \ {j}]
    /\ exec' = exec \cup {[job |-> j, att |-> snap[p][j] + 1,
                           node |-> Home[p], st |-> "live"]}
    /\ UNCHANGED <<row, pc, limit, cands, snap, seen, node, recov, requeued>>

(* resolve_job_def found none: the row fails without a retry.              *)
FailUndefined(p, j) ==
    /\ ~WriteLocked
    /\ pc[p] = "dispatch"
    /\ j \in claimed[p]
    /\ Slug[j] \notin Defined
    /\ claimed' = [claimed EXCEPT ![p] = @ \ {j}]
    /\ fail_job(j, FALSE, 0, "handler")
    /\ UNCHANGED <<pc, limit, cands, snap, seen, exec, node, recov>>

(* The claim fails: no connection, no lock, an error in a statement.  On   *)
(* Postgres the rows taken so far stay running, and nobody executes them.  *)
PollFails(p) ==
    /\ "db" \in Faults
    /\ pc[p] \in {"counted", "selected", "claim"}
    /\ pc' = [pc EXCEPT ![p] = "idle"]
    /\ limit' = [limit EXCEPT ![p] = 0]
    /\ cands' = [cands EXCEPT ![p] = {}]
    /\ snap' = [snap EXCEPT ![p] = [j \in Jobs |-> 0]]
    /\ seen' = [seen EXCEPT ![p] = {}]
    /\ claimed' = [claimed EXCEPT ![p] = {}]
    /\ UNCHANGED <<row, exec, node, recov, requeued>>

PollEnds(p) ==
    /\ pc[p] = "dispatch" /\ claimed[p] = {}
    /\ pc' = [pc EXCEPT ![p] = "idle"]
    /\ snap' = [snap EXCEPT ![p] = [j \in Jobs |-> 0]]
    /\ UNCHANGED <<row, limit, cands, seen, claimed, exec, node, recov, requeued>>

-----------------------------------------------------------------------------
(* spawn_job_execution and execute_job                                     *)

Move(e, st) ==
    exec' = (exec \ {e}) \cup {[job |-> e.job, att |-> e.att, node |-> e.node, st |-> st]}

Finish(e) == exec' = exec \ {e}

(* Mutant: off by one.                                                     *)
RetryOnceMore(e) == e.att <= MaxAttempts[e.job]

Retry(e) == e.att < MaxAttempts[e.job]

AfterWrite(e) == IF e.st = "live" THEN Move(e, "wrote") ELSE Finish(e)

(* The handler returned: its thread writes the verdict.                    *)
HandlerOk(e) ==
    /\ ~WriteLocked
    /\ e.st \in {"live", "zombie"}
    /\ complete_job(e.job)
    /\ AfterWrite(e)
    /\ UNCHANGED <<poll, node, recov>>

HandlerErr(e) ==
    /\ ~WriteLocked
    /\ e.st \in {"live", "zombie"}
    /\ fail_job(e.job, Retry(e), e.att, "handler")
    /\ AfterWrite(e)
    /\ UNCHANGED <<poll, node, recov>>

(* Image conversion refuses bad identifiers in its data, without a retry.  *)
HandlerReject(e) ==
    /\ ~WriteLocked
    /\ Slug[e.job] = ImageSlug
    /\ e.st \in {"live", "zombie"}
    /\ fail_job(e.job, FALSE, e.att, "handler")
    /\ AfterWrite(e)
    /\ UNCHANGED <<poll, node, recov>>

(* The thread panics, or execute_job returns Err before it has written a   *)
(* verdict (no e-mail provider, undecodable data, no connection): the task *)
(* only logs.                                                              *)
HandlerDies(e) ==
    /\ "panic" \in Faults
    /\ e.st \in {"live", "zombie"}
    /\ Finish(e)
    /\ UNCHANGED <<row, poll, node, recov, requeued>>

(* The task joins its thread.                                              *)
Join(e) ==
    /\ e.st = "wrote"
    /\ Finish(e)
    /\ UNCHANGED <<row, poll, node, recov, requeued>>

(* Mutant: the task only logs its timeout.                                 *)
SilentTimeout(e) ==
    /\ "timeout" \in Faults
    /\ e.st \in {"live", "wrote"}
    /\ IF e.st = "live" THEN Move(e, "zombie") ELSE Finish(e)
    /\ UNCHANGED <<row, requeued, poll, node, recov>>

(* The timeout elapses before the task has joined its thread.              *)
Timeout(e) ==
    /\ "timeout" \in Faults
    /\ ~WriteLocked
    /\ e.st \in {"live", "wrote"}
    /\ fail_job(e.job, Retry(e), e.att, "timeout")
    /\ IF e.st = "live" THEN Move(e, "zombie") ELSE Finish(e)
    /\ UNCHANGED <<poll, node, recov>>

(* update_heartbeats, one id of the node's running_jobs.                   *)
update_heartbeat(e) ==
    /\ ~WriteLocked
    /\ e.st \in {"live", "wrote"}
    /\ status[e.job] = "running" /\ ~beat[e.job]   \* only a running row's is ever read
    /\ beat' = [beat EXCEPT ![e.job] = TRUE]
    /\ UNCHANGED <<status, attempt, due, poll, exec, node, recov, requeued>>

-----------------------------------------------------------------------------
(* Start and stop of a scheduler process                                   *)

(* recover_stale_jobs: find_stale_jobs with a threshold of 0 seconds.      *)
NodeStart(n) ==
    /\ node[n] = "down"
    /\ node' = [node EXCEPT ![n] = "recovering"]
    /\ recov' = [recov EXCEPT ![n] = {j \in Running : ~beat[j]}]
    /\ UNCHANGED <<row, poll, exec, requeued>>

RecoverMark(n, j) ==
    /\ ~WriteLocked
    /\ node[n] = "recovering"
    /\ j \in recov[n]
    /\ recov' = [recov EXCEPT ![n] = @ \ {j}]
    /\ mark_stale(j)
    /\ UNCHANGED <<poll, exec, node>>

NodeReady(n) ==
    /\ node[n] = "recovering" /\ recov[n] = {}
    /\ node' = [node EXCEPT ![n] = "up"]
    /\ UNCHANGED <<row, poll, exec, recov, requeued>>

(* The process ends: threads and tasks die, an open claim rolls back.      *)
NodeStop(n) ==
    /\ "stop" \in Faults
    /\ node[n] # "down"
    /\ node' = [node EXCEPT ![n] = "down"]
    /\ recov' = [recov EXCEPT ![n] = {}]
    /\ pc' = [p \in Pollers |-> IF Home[p] = n THEN "idle" ELSE pc[p]]
    /\ limit' = [p \in Pollers |-> IF Home[p] = n THEN 0 ELSE limit[p]]
    /\ cands' = [p \in Pollers |-> IF Home[p] = n THEN {} ELSE cands[p]]
    /\ snap' = [p \in Pollers |-> IF Home[p] = n THEN [j \in Jobs |-> 0] ELSE snap[p]]
    /\ seen' = [p \in Pollers |-> IF Home[p] = n THEN {} ELSE seen[p]]
    /\ claimed' = [p \in Pollers |-> IF Home[p] = n THEN {} ELSE claimed[p]]
    /\ exec' = {e \in exec : e.node # n}
    /\ UNCHANGED <<row, requeued>>

-----------------------------------------------------------------------------
ClaimStep(p) ==
    \/ ClaimSelect(p)
    \/ ClaimCounts(p)
    \/ \E j \in Jobs : SkipRow(p, j) \/ TakeRow(p, j) \/ TakeRowNow(p, j) \/ LoseRow(p, j)
    \/ ClaimCommit(p)
    \/ ClaimDone(p)

PollStep(p) ==
    \/ PollCount(p)
    \/ ClaimStep(p)
    \/ \E j \in Jobs : Spawn(p, j) \/ FailUndefined(p, j)
    \/ PollEnds(p)
    \/ PollFails(p)

ExecStep(e) ==
    \/ HandlerOk(e)
    \/ HandlerErr(e)
    \/ HandlerReject(e)
    \/ HandlerDies(e)
    \/ Join(e)
    \/ Timeout(e)
    \/ update_heartbeat(e)

NodeStep(n) ==
    \/ NodeStart(n)
    \/ \E j \in Jobs : RecoverMark(n, j)
    \/ NodeReady(n)
    \/ NodeStop(n)

Next ==
    \/ \E j \in Jobs : insert_job_with(j) \/ BecomeDue(j)
    \/ \E S \in {{s} : s \in Slugs} \cup {Slugs} : cancel_pending_jobs(S)
    \/ purge_old_jobs
    \/ SecondPasses
    \/ \E p \in Pollers : PollStep(p)
    \/ \E e \in exec : ExecStep(e)
    \/ \E n \in Nodes : NodeStep(n)

Spec == Init /\ [][Next]_vars

(* The tickers poll forever, time passes, and tokio resolves every join or *)
(* timeout.  Writers compete for the write lock a claim holds for a moment *)
(* per poll interval: strong fairness.  Handlers owe nothing.              *)
Fairness ==
    /\ \A p \in Pollers : SF_vars(PollStep(p) /\ ~PollFails(p))
    /\ \A n \in Nodes : SF_vars(NodeStart(n) \/ NodeReady(n) \/ \E j \in Jobs : RecoverMark(n, j))
    /\ \A j \in Jobs :
          /\ SF_vars(BecomeDue(j))
          /\ SF_vars(\E e \in exec : e.job = j /\ (Join(e) \/ Timeout(e)))

FairSpec == Spec /\ Fairness

-----------------------------------------------------------------------------
(* Safety                                                                  *)

(* claim_pending_jobs promises the per-slug cap over the whole table.      *)
SlugCapHeld ==
    \A s \in DOMAIN SlugCap : Cardinality(SlugRows(s, Running)) <= SlugCap[s]

(* ... and the aggregate cap of every queue that has one.                  *)
QueueCapHeld ==
    \A q \in DOMAIN QueueCap : Cardinality(QueueRows(q, Running)) <= QueueCap[q]

(* At most one active row per (slug, unique_key), also when the late retry *)
(* of a row that has been replaced arrives.                                *)
UniqueActive ==
    \A j, k \in Jobs :
        /\ j # k /\ Slug[j] = Slug[k] /\ UniqueKey[j] = UniqueKey[k] /\ UniqueKey[j] # NoKey
        => ~(status[j] \in Active /\ status[k] \in Active)

(* No attempt of a job is executed twice, whatever polls overlap.          *)
OneExecutionPerAttempt ==
    \A e, f \in exec : e.job = f.job /\ e.att = f.att => e = f

(* An attempt below max_attempts is counted against at most twice, by its  *)
(* timeout and by its own late failure: attempts stay below 2 * max.       *)
RetryBudget ==
    \A j \in Jobs : attempt[j] <= 2 * MaxAttempts[j] - 1

(* A running row has an execution of its current attempt, or is about to   *)
(* get one: nothing else ever takes a row out of "running".                *)
RunningIsOwned ==
    \A j \in Running :
        \/ \E e \in exec : e.job = j /\ e.att = attempt[j] /\ e.st = "live"
        \/ \E p \in Pollers : pc[p] = "dispatch" /\ j \in claimed[p]

(* No verdict looks at the status of its row, so a job that has timed out  *)
(* or completed can still fail, complete or come back to pending; but only *)
(* by the hand of an execution of it, of a poll that has claimed it or of  *)
(* a scheduler that found it stale.  Once the last of them is gone, a job  *)
(* that has ended keeps its verdict and never runs again, whatever polls   *)
(* had it among their candidates.                                          *)
Unheld(j) ==
    /\ \A e \in exec : e.job # j
    /\ \A p \in Pollers : j \notin claimed[p]
    /\ \A n \in Nodes : j \notin recov[n]

SettledIsFinal ==
    [][\A j \in Jobs :
          status[j] \in Terminal /\ Unheld(j) =>
              status'[j] \in {status[j], "deleted"} /\ Unheld(j)']_vars

(* Without timeouts and with one scheduler there is no late verdict: a     *)
(* finished job stays finished until it is purged.                         *)
TerminalIsFinal ==
    [][\A j \in Jobs : status[j] \in Terminal => status'[j] \in {status[j], "deleted"}]_vars

(* A claim that takes a row leaves no row of higher priority behind that   *)
(* was claimable, unless a cap is reached.                                 *)
StrictPriority ==
    [][\A p \in Pollers :
          pc[p] = "claim" /\ pc'[p] = "dispatch" =>
          \A j \in claimed[p], k \in Eligible \ claimed[p] :
              Prio[k] > Prio[j] =>
                  SlugFull(Slug[k], Running') \/ QueueFull(Queue[k], Running')]_vars

-----------------------------------------------------------------------------
(* The inductive invariants behind SlugCapHeld, QueueCapHeld,              *)
(* OneExecutionPerAttempt and RetryBudget on SQLite                        *)

Locking(p) == pc[p] \in {"selected", "claim"}

CapsIn(J) ==
    /\ \A s \in DOMAIN SlugCap : Cardinality(SlugRows(s, J)) <= SlugCap[s]
    /\ \A r \in DOMAIN QueueCap : Cardinality(QueueRows(r, J)) <= QueueCap[r]

(* One claim at a time; what it has read is still true, and with the rows  *)
(* it has taken the running rows respect every cap.                        *)
ClaimInv ==
    /\ \A p, r \in Pollers : Locking(p) /\ Locking(r) => p = r
    /\ \A p \in Pollers : pc[p] \in {"idle", "counted", "selected"} => claimed[p] = {}
    /\ \A p \in Pollers : Locking(p) =>
          \A j \in cands[p] \cup claimed[p] : status[j] = "pending" /\ snap[p][j] = attempt[j]
    /\ \A p \in Pollers : pc[p] = "claim" =>
          /\ seen[p] = Running
          /\ CapsIn(seen[p] \cup claimed[p])
    /\ CapsIn(Running)

(* Attempt number a of row j has been handed out.                          *)
HandedOut(j, a) ==
    \/ \E e \in exec : e.job = j /\ e.att = a
    \/ \E v \in Verdicts : <<a, v>> \in requeued[j]

ToDispatch(p, j) == pc[p] = "dispatch" /\ j \in claimed[p]

Pending(j) == IF status[j] = "pending" THEN 1 ELSE 0

(* A row that was never inserted was never claimed.                        *)
FreshRows == \A j \in Jobs : status[j] = "absent" => attempt[j] = 0

ExecBounds == \A e \in exec : 1 <= e.att /\ e.att <= attempt[e.job]

(* Only an attempt below the maximum puts its row back.                    *)
RequeueBounds ==
    \A j \in Jobs : \A x \in requeued[j] :
        1 <= x[1] /\ x[1] <= attempt[j] /\ x[1] < MaxAttempts[j]

(* A verdict that an execution has yet to give has not been given.         *)
VerdictsOnce ==
    \A e \in exec :
        /\ e.st \in {"live", "wrote"} => <<e.att, "timeout">> \notin requeued[e.job]
        /\ e.st \in {"live", "zombie"} => <<e.att, "handler">> \notin requeued[e.job]

(* A claimed row is dispatched under an attempt number of its own.         *)
DispatchFresh ==
    \A p \in Pollers, j \in Jobs : ToDispatch(p, j) =>
        /\ snap[p][j] + 1 <= attempt[j]
        /\ ~HandedOut(j, snap[p][j] + 1)
        /\ \A r \in Pollers : ToDispatch(r, j) /\ snap[r][j] = snap[p][j] => r = p

(* Each claim is paid for by the INSERT or by a verdict that put the row   *)
(* back.                                                                   *)
ClaimsPaid ==
    \A j \in Jobs : attempt[j] + Pending(j) <= 1 + Cardinality(requeued[j])

AttemptInv ==
    /\ FreshRows
    /\ ExecBounds
    /\ OneExecutionPerAttempt
    /\ RequeueBounds
    /\ VerdictsOnce
    /\ DispatchFresh
    /\ ClaimsPaid

-----------------------------------------------------------------------------
(* Liveness                                                                *)

(* Every queued job is finished, failed for good or cancelled eventually.  *)
JobsSettle ==
    \A j \in Jobs : status[j] = "pending" ~> status[j] \in Terminal \cup {"deleted"}

=============================================================================

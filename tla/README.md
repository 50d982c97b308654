# A TLA+ model of crap-cms

This directory specifies parts of crap-cms, a content management system written
in Rust with Lua hooks, in TLA+. It is read beside the source: every definition
that stands for code is listed with its lines in `PROJECT.json` ("map"). The
modules are model-checked with TLC on small instances, and what matters most in
them is proved with TLAPS for every value of the constants.

Three decisions shape the models:

* crap-cms keeps almost all of its state in the database, so the models are
  about rows, transactions and what runs between two statements;
* control is kept (each guard, early return, error path and the order of
  writes), data is reduced to what the properties tell apart (a document is its
  references, a job is its columns);
* on SQLite, the default backend, a write goes through an IMMEDIATE transaction
  and there is one writer at a time. Where the code opens no transaction, each
  statement is an action of its own. Postgres is modelled where the code takes a
  different path on it.

## The system

| Component | State | Operations | Interacts with |
|---|---|---|---|
| Job queue (`src/src/scheduler`, `src/src/db/query/jobs`) | table `_crap_jobs`; per process the polls, executions and running ids | insert, claim, execute, verdict, retry, heartbeat, recover, cancel, purge | Lua, gRPC, CLI and cron insert rows; handlers call the service layer |
| Cron (`scheduler/runner.rs`, `db/query/jobs/cron.rs`) | table `_crap_cron_fired`; per process `last_cron_check` and a purge counter | tick, claim a window, queue a job, claim the purge | job queue, retention purge |
| Documents and references (`service/persist`, `service/write`, `db/query/ref_count`) | collection tables with `_ref_count` and `_deleted_at`, join tables | create, update, trash, undelete, delete, each with hooks | everything that writes |
| Retention purge (`scheduler/runner.rs`) | none of its own | delete expired trash | documents, uploads |
| Uploads (`service/upload.rs`, `core/upload`) | files in storage | store, remove, convert | documents, job queue |
| Versions and drafts (`service/versions`, `db/query/versions`) | `_versions_*` tables, `_status` | snapshot, draft save, unpublish, restore, prune | documents |
| Populate cache (`db/query/populate`, `core/cache`) | cached documents, single-flight table | fill on read, clear after commit | every write |
| Live events (`core/event`) | bounded channels, sequence numbers | queue in a transaction, flush after commit, forward | subscribers over SSE and gRPC |
| Authentication (`service/auth`, `core/rate_limit`, `admin/handlers/auth`) | password, version, lock and token columns; session tokens held by clients; counters of failures | log in, refresh, reset, verify, second factor, lock, log out | live events |
| Listings (`service/read/find.rs`, `db/query/read/find`, `db/query/cursor.rs`) | none on the server: a cursor holds the position | find the first page, the page after or before a cursor, a numbered page | every write |
| Globals, filters and locales, full-text search, migrations, hooks, API, admin UI, MCP, CLI, type generation, mail | | | |

What is hard in it, and what makes each part correct:

* **Concurrency.** Polls of one scheduler overlap, schedulers share one table,
  a timed-out handler goes on running, the purge runs beside writers. A job
  attempt must be executed once, caps must hold, an instant must fire once.
  Readers fill a cache that writers clear; a client walks through a listing that
  others change; saves of one document overlap on
  Postgres; a session is refreshed while it is being revoked.
* **Order inside a transaction.** Hooks run between the check of a delete and
  the delete, and call the same operations again. `_ref_count` must stay equal
  to the number of references, and no reference may be left without a target.
* **Failure.** Processes stop between two statements, statements fail, and some
  errors are only logged. A job must not stay running, a document must not lose
  its files while its row stays, a panic in a fetch must not block other readers.
* **Delivery.** Streams lag, stall and hang up, Redis connections break, and
  queues are bounded. A stream gets committed events, in order and once, and
  does not go on past a gap unnoticed where the transport can know of it.
* **Time.** Clocks of nodes differ and jump; timestamps have a resolution of one
  second; windows touch.

`PROJECT.json` lists the components with what is modelled of each, and the
hazards at the lines where they bite.

## The modules

| Module | Models |
|---|---|
| `JobQueue` | the job table and the schedulers that share it |
| `JobQueueProofs` | proofs about caps, unique keys, attempts, ownership, settled jobs and priorities |
| `Cron`, `CronProofs` | the cron tick of every node; proofs |
| `References` | documents, references, delete protection, upload files |
| `RetentionPurge` | the purge beside the writers of `References` (it extends that module) |
| `ReferencesProofs` | proofs about `References` and `RetentionPurge` |
| `Versions`, `VersionsProofs` | the version log of a document and the transactions that write it; proofs |
| `EventLog` | what live updates promise: a log, and readers at positions in it |
| `LiveEvents`, `LiveProofs` | publishers, transports and streams; proof that it implements `EventLog` |
| `PopulateCache`, `CacheProofs` | reads that share and cache documents, beside writers that clear; proofs |
| `AuthSessions`, `AuthProofs` | one account, its tokens, and the calls that use and revoke them; proofs |
| `Keyset` | the order of a listing and the clause of a cursor |
| `Pagination` | a client that walks through a listing beside writers (it extends `Keyset`) |
| `KeysetProofs` | proofs about both |
| `MC_*` | constants and symmetry for TLC |

Operators named "Mutant" in a comment are defects of the kind a change could
introduce. Nothing uses them in the specifications. `PROJECT.json` pairs each
with the definition it replaces and the property that must then fail.

### JobQueue

`status`, `attempt`, `due` (retry_after has passed) and `beat` (heartbeat_at is
in the current second) are columns. `pc`, `limit`, `cands`, `snap`, `seen` and
`claimed` are the locals of a poll; polls are tokio tasks, and several of one
process may be in flight. `exec` holds the executions: a blocking thread with
the handler and the task that awaits it under a timeout. `requeued` is history.

| Actions | Code |
|---|---|
| `insert_job_with`, `cancel_pending_jobs`, `purge_old_jobs` | the functions of those names |
| `PollCount` | the count of running rows in `poll_and_execute`, before the claim |
| `ClaimSelect`, `ClaimCounts`, `SkipRow`, `TakeRow`, `TakeRowNow`, `LoseRow`, `ClaimCommit`, `ClaimDone` | `claim_pending_jobs`: on SQLite in one IMMEDIATE transaction, on Postgres statement by statement |
| `Spawn`, `FailUndefined` | `resolve_job_def`, `spawn_job_execution` |
| `HandlerOk`, `HandlerErr`, `HandlerReject`, `HandlerDies` | the ways `execute_job` ends, each with its write |
| `Join`, `Timeout` | the task gets its answer, or its timeout elapses first |
| `update_heartbeat`, `SecondPasses`, `BecomeDue` | heartbeats and time |
| `NodeStart`, `RecoverMark`, `NodeReady`, `NodeStop` | recovery at startup, and the end of a process at any moment |
| `PollFails`, the first disjunct of `fail_job` | database errors, which callers log or drop |

No verdict looks at the status the row has by then: the model keeps that, so a
row that has ended may be overwritten or queued again as long as somebody holds
it (`Unheld` says when nobody does). On
Postgres the UPDATE of a retry fails (its interval text is not an argument of
make_interval), so a failed attempt leaves its row running (`Requeues`). A
scheduler that starts finds stale every running row whose heartbeat is not of
the current second: the threshold is zero seconds.

Abstracted: results and error texts, `priority_decay`, and `created_at` beyond
the fact that equal priorities may come in any order.

### Cron

Each node has a clock of its own. `Tick` reads it before the transaction,
`check_cron_schedules` claims the window of each due slug and queues a job
unless skip_if_running applies (the window is consumed all the same), and
`CheckFails` is every way the check can fail: `last_cron_check` advances anyway
and the instants in between are lost. `run_periodic_purges` is the purge turn of
every tenth tick. A cron expression is the set of its instants; the comparison
of RFC 3339 strings in UTC is the order of the instants.

### References

`db` holds the tables as the open transaction sees them and `saved` as they were
committed last. `deleting` is the stack of hard deletes that have passed their
check and are in their before-delete hooks, which may run any operation on the
same connection. A document is a row of reference slots, one for each place that
can hold a reference: the columns of has-one fields, the entries of has-many,
array and block rows. `leaked` and `forced` are history: references that the CLI
purge dropped without a decrement, and documents deleted while their own count
was positive.

| Actions | Code |
|---|---|
| `Begin`, `Commit`, `Rollback`, `Crash` | the transaction of a request, or of `crap.transaction` |
| `persist_create`, `persist_update` | the functions of those names with the deltas they apply last; updates are also bulk updates and restored versions |
| `soft_delete`, `undelete_document` | trash and restore |
| `CheckDelete`, `DeleteRow` | `delete_document_in_conn` up to its hooks, and after them |
| `purge_documents` | `crap-cms trash purge`, in a transaction of its own |
| `delete_upload_files` | removal of files after the commit |

`Uses` says what the deployment does beyond plain service calls: `"cli"` (the
CLI purge), `"hook_ref"` (a before-delete hook refers to the document being
deleted), `"lua_delete"` (deletes called from Lua, which remove files at once).
`MaxOps` bounds the operations of one transaction and `MaxNest` the depth of
deletes; the proofs hold for any value of both.

Every document is treated as one with upload files, and its files are those it
was created with. A nested operation that fails and is caught with `pcall` is
not modelled, nor is Postgres, where transactions overlap.

### RetentionPurge

`purge_collection` runs on a connection without a transaction, so the check, the
read of the references, the decrement and the DELETE are actions of their own,
and writers run in between. `expired` is the set of documents past their
retention; `kept` is the same at the last commit. A step of the purge waits for
the open transaction to end. For its writes that is the lock of SQLite. For its
reads it loses nothing: what a read sees during a transaction is what it would
have seen before it.

### Versions

One document with its main row and its rows in `_versions_<slug>`. A save is a
transaction of several statements: read MAX(_version), clear `_latest`, INSERT,
prune, commit, and for a publish or an unpublish the write of the main row
before them. On SQLite a transaction runs alone, except that the BeforeChange
hooks of an unpublish may save the document themselves on its connection: the
unpublish reads it, waits in `hooks` while such saves run one after another, and
then a collection reads it again (`persist_unpublish`) while a global keeps what
it read first (`unpublish_global_document`). Such a save is one of `Saves` that
commits at once. That is exact: nobody else reads before the outer transaction
ends; if it rolls back, the model goes on as though the save had been made on its
own, and the behaviour in which neither ran is one of the model's too. Other hooks need no step: those of an update run
before its first statement or after its last, and a restore runs none. An
unpublish within the hooks of another, and hooks that save on Postgres, are not
modelled. On Postgres statements of
several interleave: a statement sees what has committed by then, waits for row
locks (`RowsFree`, `MainFree`), and an UPDATE works on the rows it matched when
it began (`targets`). A content is named after the save that wrote it. `last`
and `restored` are history.

### EventLog and LiveEvents

`EventLog` is the abstract specification: writes that have committed publish
events to a log, a stream begins at a position, and reads on from there; when
the transport may omit events it may skip, and never goes back. `LiveEvents` is
the code. A write queues the events of nested writes and, after its commit,
publishes its own and then the queue, each stamped with a number and sent in a
separate step, or suppressed by `live` settings and `before_broadcast`. A stream
takes one of the counted slots, resolves its user, subscribes, and then a pump
forwards: it holds one item while the outbound channel is full and gives up
after the send timeout. In process the transport is a ring of fixed capacity
that tells a receiver it lagged; over Redis it is a task per receiver with a
queue, a marker sent with `try_send`, and connections that break (`breaks`,
bounded by `MaxBreaks`). `lock_user` and hard deletes send a signal that ends
the streams of that user. `ImplementsLog` is the refinement.

### PopulateCache

`cache` is the shared cache, `flight` the single-flight table, `slot` the slots
in it with their locks, values and poisoning, `rd` the reads in progress and
`wr` the writes. A read descends along references to its depth: it looks into
the cache, finds or makes a slot, waits for its lock, fetches or takes the
value, publishes it, removes the slot, stores. Batches and has-many fields take
their own shorter ways. A write commits and then clears, shard by shard, as a
`DashMap` or a Redis scan does; nested writes of hooks clear before the commit
(`MaxNestedClears`), writes of job handlers do not clear at all (`Silent`), and
the periodic clear runs when max_age_secs is set (`periodic`).

### AuthSessions

`user` is the row of one account, `sessions` the session tokens in the hands of
clients, `pendings` those of logins that wait for their second factor, `log` the
times the login limiter keeps. A token's `login` (when the password was checked)
and `dead` (it existed when a revocation completed) are history, as are the
counts in `used`; the length of `used` numbers the reset tokens.

| Actions | Code |
|---|---|
| `LoginBegin` ... `build_session_response`, `record_failure`, `LoginError` | `login_action` and gRPC `login_impl` around `authenticate_local`, read by read |
| `verify_mfa_action` | the session made from a pending login; the code itself is not modelled |
| `RefreshBegin`, `check_session_status`, `session_refresh`, `RefreshFails` | the refresh of a session |
| `generate_reset_token`, `ResetBegin` ... `consume_reset_token`, `ResetFails` | password reset, by gRPC (IMMEDIATE) and from the admin pages (DEFERRED) |
| `lock_user`, `bump_session_version`, `LockFails`, `unlock_user`, `logout_action`, `persist_update` | lock (two statements), unlock, logout, a new password |

A DEFERRED transaction on SQLite reads its snapshot and fails when it writes
after another commit (`stale`, `CanWrite`). On Postgres the same statements read
what has committed and the row lock serialises the writes only. `Leeway` is the
time the JWT library accepts a token past its end. `Budgets` bounds how often
each operation starts in a behaviour.

### Keyset and Pagination

`Keyset` has no state. `apply_order_by` is the order of the rows (drafts first
where the collection has drafts, then the sort column, then the id),
`apply_cursor_keyset` the WHERE clause of a cursor, both translated condition by
condition with NULLs as SQL treats them, and `cursor_from_doc` what a cursor
remembers of a row. `Exact` is the scope in which the clause agrees with the
order: without NULLs, or on SQLite towards larger values, and when the answer
still holds the sort value and the status.

In `Pagination`, `query` is fixed at the start, `rows` are the documents that
match, `req` is a request that has read its page and not yet counted, `page` the
last answer; `walk` is history. `FindFirst`, `FindAfter` and `FindBefore` read a
page (`find`, with one row more when there is a cursor), `find_documents` counts
and builds the answer, and `Create`, `Delete` and `Update` are the writes of
others, between any two of these. A document that leaves or joins the filters is
deleted or created here. Not covered: a page number in cursor mode, and listings
sorted by `_status` itself.

## What the runs show

| Run | Instance | Result |
|---|---|---|
| `jobs_overlap` | 2 jobs of one slug with cap 1, 2 overlapping polls of one node, all faults, SQLite | `SlugCapHeld`, `RetryBudget`, `SettledIsFinal` hold; one execution per attempt is proved for SQLite and checked in `jobs_postgres` |
| `jobs_no_timeout` | 3 jobs of 2 slugs (one undefined), a slug and a queue with cap 1, 2 overlapping polls, panics, SQLite | `QueueCapHeld`, `StrictPriority` hold |
| `jobs_postgres` | 2 jobs with the same key, 2 nodes, timeouts, stops and errors, Postgres | `OneExecutionPerAttempt` holds |
| `jobs_live` | 2 jobs with the same key, one of them with a retry, timeouts, SQLite, fair | `UniqueActive`, `RunningIsOwned`, `JobsSettle` hold |
| `cron_dedup` | 2 nodes, clocks 0..2 that may be set back | `DueFiresOnce`, `PurgesApart` hold |
| `refs` | 3 documents, one without soft delete, every use | `CountsAccounted`, `DanglingIsForced` hold |
| `purge` | 2 documents, one purge at a time, one abort, fair | `FilesKept`, `ExpiredGoes` hold, counts stay natural numbers |
| `versions` | 3 saves of any kind that overlap or run in the hooks of an unpublish; SQLite with caps 0, 1, 2 and a global with cap 2, Postgres without a cap | `LatestIsHighest`, `EditorSeesLastSave`, `PublishedOnRecord`, `LogWithinCap`, `UnpublishKeepsContent`, `DeletedForGood` hold (the second and the fifth of a collection's document) |
| `events` | 2 writes and a stream, or a write and 2 streams, in process; one of each over Redis; the owner of a stream may be locked or deleted; a ring of 1, fair | `ImplementsLog`, `SlotsCounted`, `RevokedStreamEnds` hold |
| `cache` | 2 reads and a write with panics; 1 read and 2 writes with nested and periodic clears; 2 reads of three keys; fair | `CommitClears`, `OneFetch`, `SoftCap`, `FreshAtLast`, `ReadsEnd` hold |
| `auth` | 2 request threads, 6 mixes of operations, SQLite with and without MFA and age cap, Postgres | `RevokedStaysOut`, `TokenOnce`, `ResetIsCurrent`, `SessionAgeCapped`, `AttemptsBounded` hold |
| `pages` | up to 4 documents, 2 values, pages of 1 and 2, both directions and backends, drafts, NULLs, at most one write | `WalkCovers`, `WalkComplete`, `FlagsTrue`, `Symmetric` hold |

**Bounds.** Two polls and two rows of the same slug are the least that race for
one place under a cap; a maximum of two attempts is the least with a retry and a
last attempt. Three rows give one claim a more urgent row at the cap of its slug, a
row whose queue is full and a row of an undefined slug. Two rows with one key, the
first with a retry, are a row that times out for good, is replaced, and whose late
failure then asks for a retry. Three instants and two nodes give
windows that overlap, touch and repeat after a clock is set back. Three
documents are a deleted one, its referrer and its target, and a nested delete
needs two operations; one slot per document suffices because deltas are
computed per target. Three saves are one that stalls between two statements and
two that commit meanwhile, or an unpublish and two saves of its hooks, and a cap of two versions is the least with one kept
and one pruned. Two writes with a nested event overrun a ring of one, so a stream
lags; two streams contend for one slot. A cache cap of one with two
shards and three keys gives a full cache and a clear that is half done. In
`AuthSessions` seconds are scaled down: a token lives 2, its leeway is 1, the
age cap 2 and the clock runs to 6, so a session can be refreshed until past its
cap; two attempts per window and five logins on two threads pass the limit with
both in flight. Four documents with two values give ties, three pages of one or
two, and a walk that turns round in the middle. Nothing but the constants bounds the state: there are no state
constraints. Each `MC_` module says which mixes of operations it starts from.

**Deadlock** is not checked in the job runs: when every row has been deleted and
no node can stop, nothing is left to do. Nor is it in `versions`, `events`,
`cache`, `auth` and `pages`, where a behaviour ends when its operations are used up;
`ReadsEnd` says that no read is stuck. It is checked in all others.

**Fairness.** In `JobQueue`: the tickers of a running scheduler poll for ever,
time passes, and tokio resolves each join or timeout. Handlers owe nothing.
Fairness is strong because a claim holds SQLite's write lock for a moment again
and again, and a waiting writer gets it within busy_timeout. In `RetentionPurge`:
a transaction ends, a trashed document expires, and the purge, which ticks for
ever, gets the write lock between transactions. That too is strong fairness by
busy_timeout; aborts are bounded by `MaxAborts`, so a purge succeeds eventually.
In `LiveEvents`: a lock that has bumped the version publishes its signal, a pump
handles what it has received and its forward ends within the send timeout (weak
fairness of running tasks), and `select!` picks a ready branch at random, so a
signal that stays ready is received in the end although events are ready too
(strong). Clients owe nothing. In `PopulateCache`: reads, clears and the periodic
task run on (weak); locks are held only across a fetch, which returns or panics.

## What is proved

All theorems are stated over any finite sets of rows, documents and slots, any
caps and any nodes, readers, streams and saves, under the assumptions the
modules name (`ConstantsAssumption`, `CronAssumption`, `ReferencesAssumption`,
`VersionsAssumption`, `LiveAssumption`, `CacheAssumption`, `AuthAssumption`,
`KeysetAssumption`, `PaginationAssumption`), which TLC evaluates in every run of the module. Where a
theorem has a hypothesis on the deployment, the behaviour without it is one of
those listed below under "What else the modelling showed". Every inductive
invariant was model-checked before it was proved.

Every component has its type invariant proved: `TypeCorrect`, `CronTypeCorrect`,
`RefTypeCorrect`, `VersionsTypeCorrect`, `LiveTypeCorrect`, `CacheTypeCorrect`,
`AuthTypeCorrect`, `PaginationTypeCorrect`.

**Job queue and cron.**

* `SlugCapTheorem` and `QueueCapTheorem` (SQLite). The cap alone is not
  inductive: a claim commits what it computed from rows it read earlier.
  `ClaimInv` says that at most one claim holds the lock, that its candidates are
  still pending with the attempt it read, that the rows it counted are exactly
  the running ones, and that these together with the rows it has taken respect
  every cap. `ClaimSerialised` proves `ClaimInv`.
* `UniqueTheorem` (both backends): at most one active row per unique key. Every
  action that makes a row active is guarded by the index, retries included.
* `OneExecutionTheorem` and `RetryBudgetTheorem` (SQLite), from `AttemptInv`:
  each claim of a row is paid for by its INSERT or by one verdict that put it
  back, each of the two verdicts of an attempt is given at most once, and only
  attempts below the maximum put a row back. Hence a row is attempted at most
  `1 + 2 * (max - 1)` times, and each attempt number is handed out once.
* `RunningIsOwnedTheorem` (SQLite, no faults but timeouts), from `OwnInv`: each
  running row has an execution of its current attempt that is alive, or a poll
  that has claimed it and is about to dispatch it with that attempt. It rests on
  `ClaimInv` (a claim commits the attempt it read plus one) and on `UniqueActive`:
  the index cannot refuse the retry of a row that is already active.
* `TerminalIsFinalTheorem` (SQLite, no timeouts, one node), from `FinalInv`.
  `AloneInv` says there is no execution without a task awaiting it, and that what
  is claimed or executing is a running row with its current attempt, so by
  `AttemptInv` no second verdict can come. `StartInv` says that a process which
  is starting has nothing running yet, and that what its recovery found stale is
  still running when it is marked. Both hypotheses are needed: the late verdict
  of a handler that timed out, or the recovery of another node, overwrites a
  verdict.
* `SettledIsFinalTheorem` (both backends, any nodes, polls and faults): once a
  job has ended and no execution, claim or recovery holds it, it keeps its verdict
  and is not run again. Only a claim could take hold of it: on SQLite `ClaimInv`
  says its candidates are pending, on Postgres the UPDATE of each row asks for that.
* `StrictPriorityTheorem` (SQLite), from `PrioInv`: a claimable row that a claim
  no longer looks at has met a cap, which stays met because the claim's counts
  only grow, or is no more urgent than any row it takes.
* `DueFiresOnceTheorem` and `PurgesApartTheorem`, from `CronOrdered`: nothing
  that has fired is later than the row in the table, so a window that begins at
  or after that row contains nothing that has fired.

**Documents and the purge.**

* `CountsTheorem` and `DanglingTheorem`, from `TablesGood`, when no has-one
  reference is localized. Both the open tables and the committed ones satisfy
  `Good`: a row that is not stored is empty, counts are the number of references
  plus what the CLI leaked, and every reference leads to a stored document or to
  a forced one. The committed tables are part of the invariant because a
  rollback returns to them.
* `NoDanglingTheorem`: without the CLI purge, without hooks that refer to the
  document being deleted and without localized has-one references, no reference
  dangles. It adds that documents on the delete stack keep the count of zero
  that their check read.
* `FilesKeptTheorem` (no CLI purge, no deletes called from Lua), of the purge
  beside the writers, from `FilesInv`: a document that is stored, in the open
  transaction or at the last commit, has its files; those whose files wait for
  removal, after a delete or in the purge, are gone in both, and what is gone
  does not come back. The two uses are excluded because both remove files before
  the row is certain to go.

**Versions.** Saves overlap, so the invariants say what a save knows at each of
its statements. `BaseInv` (types, what a transaction has done by now, which may overlap) holds
on every deployment. `OrderInv` holds under `Supported`, SQLite or an unlimited
log: one committed row is on top of the log, alone has the flag and is what the
last save recorded; a transaction that may still insert has found that row and
the next number, while the number of any other is taken, so its INSERT fails;
what a prune deletes is older than what it keeps.

* `LatestIsHighestHolds`, `EditorSeesLastSaveHolds`, `PublishedOnRecordHolds`
  under `Supported`, the second of collections; `LogWithinCapHolds` on SQLite;
  `UnpublishKeepsContentHolds`, whose property is about collections on SQLite. The
  saves of an unpublish's hooks are part of the invariants: a transaction in its
  hooks has written nothing yet and holds no lock that matters to them.
* `DeletedForGoodHolds`, on every deployment: a save that overlaps a delete does
  not bring the row or its versions back.

**Live events.** `SlotInv` ties the slot counter to the streams that hold a
slot. `WriteInv` says that what is published comes from a write that has
committed, each event once, and that every sequence number is drawn once.
`StreamInv` describes what is under way to a stream: what the client has read,
the outbound channel, the item in hand and, over Redis, the receiver's queue
follow one another in the order of the channel; in process nothing between them
is missing unless the stream is about to end.

* `SlotsCountedHolds`: the counter never drifts from the streams, whatever the
  order of refusals, hang-ups, timeouts and locks.
* `ImplementsLogHolds`: `LiveEvents` implements `EventLog`, initial states and
  every step, so streams get committed events in order and once over both
  transports, and in process without a gap.

**Populate cache.** `ReadInv` says what the locals of a read are at each step,
`FlightInv` that the slot of a read that fetches is the one in the table and has
no other owner, `ClearInv` that an entry which was current when it was stored is
stale only while the write that made it so has still to clear it, and `CapInv`
bounds the entries together with those about to be inserted.

* `CommitClearsHolds`, `OneFetchHolds`, and `SoftCapHolds`: the cache exceeds
  max_entries by less than the number of readers.

**Sessions.**

* `RevokedStaysOutHolds`, from `RevokedInv`: no token or login in progress is
  ahead of the version of the row, and each token that existed at a revocation
  is behind it. Versions only grow.
* `SessionAgeCappedHolds`, from `AgeInv`: along a chain of refreshes auth_time
  stays the time of the login, and the cap is checked against it.
* `TokenOnceHolds` and `ResetIsCurrentHolds` (SQLite), from `ResetInv`: a
  transaction that is not stale sees the row as it is, and one that has written
  holds the lock, so what a reset checked still holds when it commits.
* `AttemptsBoundedHolds`, from `LogSorted`: the failures of a window and the
  calls the limiter has admitted stay below the limit plus the number of calls.

**Listings.**

* `ListingOrdered`: the order of a listing is irreflexive, transitive and total
  on documents with different ids, in each direction, on both backends, with
  NULLs and drafts. The id at the end makes it total.
* `KeysetExact`: within `Exact`, a row satisfies the clause of a cursor if and
  only if it comes after (before) the cursor's row in that order, for any ids
  and values.
* `WalkCoversHolds` and `WalkCompleteHolds`, for any collection, any limit and any
  writes: a walk forwards shows each document that stays once, up to the last row
  shown and none beyond it, and all of them when an answer says there is no more.
  The invariant, `CoverInv`, says of a page that is under way that it holds the
  documents that stay from the position of the walk to the last row of the page
  (`Contiguous`); with `KeysetExact` a request by cursor makes this so and writes
  leave it so. That nothing follows the page (`NoMore`) survives a write because
  a deletion before the count is recorded (`raced`).
* `FlagsTrueHolds` and `SymmetricHolds`, while nothing is written, in cursor and in
  page mode: `WindowInv` says that a page is the part of the listing from one
  place to another, full unless it ends the listing, and where the page before it
  began. Two windows with the same bounds are the same page.

`Ordered` gives a row the place that is one more than the number of rows before
it, so what it returns needs no induction (`Sorted`): two rows of a total order
have different numbers, and an injection of a finite set into 1..n is onto when
the set has n elements.

**Only model-checked.** Everything about liveness (`JobsSettle`, `ExpiredGoes`,
`RevokedStreamEnds`, `FreshAtLast`, `ReadsEnd`), which is out of the reach of
this prover. The job queue on Postgres apart from types, unique keys and settled jobs. That
counts stay natural numbers under the retention purge.

## What else the modelling showed

These follow from the models but have no run of their own.

* A job that times out and then fails late is attempted more than max_attempts
  times; `docs/src/jobs/overview.md` calls it the total attempts allowed.
  `RetryBudget` is the bound that holds.
* The verdict of a handler that has timed out, or of one whose row a starting
  scheduler has marked stale, is written over a row that has ended: a failed job
  may become completed, or be queued again. It stays ended when the last holder
  of the row is gone (`SettledIsFinal`).
* `max_concurrent` is compared with a count read before the claim, so polls that
  overlap exceed it; `docs/src/configuration/crap-toml.md` calls it a
  cluster-wide cap. On Postgres, where the claim has no transaction, the
  per-slug caps can be exceeded the same way.
* Rows marked stale at startup are never queued again; overview.md says that
  jobs with remaining attempts are. A starting scheduler also marks rows stale
  that another scheduler is running, unless they had a heartbeat in this second.
* The purge checks `_ref_count`, decrements and deletes in separate statements
  (`PurgeCheck`, `PurgeDelete`): a reference made after the check does not stop the DELETE, while
  the comment at `scheduler/runner.rs:510` says the check prevents that race.
* The purge that stops between its decrement and its DELETE decrements the same
  targets again next time: they are undercounted.
* A delete called from Lua removes the files before the enclosing transaction
  commits (`DeleteRow`); after a rollback the document is back without them. So
  is a document whose CLI purge fails (`purge_documents`).
* `docs/src/relationships/delete-protection.md` says forceHardDelete skips the
  check of `_ref_count`; the code does not skip it.
* A handler that panics is only logged (`HandlerDies`): its row stays running as
  long as the process lives, while `docs/src/jobs/overview.md:132` says that the
  job is marked as failed and retried.
* A node refuses the cron window that begins where its own last one ended
  (`Claimable`), so the instants in it never fire; the comment at
  `db/query/jobs/cron.rs:8` says a window is refused when another instance has
  fired it.
* `crap-cms trash purge` does not look at `_ref_count` (`purge_documents`), while
  `delete-protection.md:3` says that a document with a positive count cannot be
  deleted.
* A create does not count a localized has-one reference (`Localized`), which
  `delete-protection.md:16` lists among those that count. `CountsAccounted`
  holds for all others.

Versions:

* On Postgres with a cap, a draft save that has read MAX while others commit and
  prune can reuse a number and clear the flag of a newer version: then no
  version is the latest, while `collections/versions.md:51` calls `_latest` "1 for
  the most recent version". Hence the run takes Postgres without a cap.
* On Postgres an unpublish may record a content older than the row it
  unpublishes. Restores do not prune, and look a version up by its id alone.
* The unpublish of a global records the content it read before its BeforeChange
  hooks (`service/globals/unpublish.rs:62`); when a hook saves the global, the
  draft on record is not what the row holds. A collection reads again.
* `get_global_document` reads the main row only, so whoever opens a global does
  not see its last draft save; `find_by_id_full` shows that of a document.

Live events:

* A stamp and its send are two steps, and over Redis every process counts for
  itself, so sequence numbers may arrive out of order and repeat;
  `live-updates/overview.md:103` and `grpc-streaming.md:54` advise to detect gaps
  by them. Events may be published in another order than their commits.
* Over Redis a lost marker or a broken connection loses events silently.
* A stream that was resolved before a lock or a delete and subscribes after the
  signal goes on, and a delete sends its signal before its commit;
  `live-updates/overview.md:38` says every active stream is torn down at once.
* `grpc-streaming.md` says a lagging stream continues from the latest event; the
  code ends it. At the limit of connections the documents name UNAVAILABLE, the
  code answers resource_exhausted. Writes of job handlers publish no events.

Populate cache:

* A reader that fetched before a commit may store after the clear: `CommitClears`
  is about what was stored before, and `FreshAtLast` about the end of writing
  when the periodic clear is on.
* The key of an entry has no depth: a hit may be populated to another depth than
  asked for, and the leader of a flight stores the document before it populates
  it, while the comment at `db/query/populate/helpers.rs:50` says a cached
  document is fully populated.
* Writes of job handlers do not clear the cache, while `population-depth.md:104`
  says it is cleared on any write. A failed clear over Redis is only logged.
* A panic in a fetch leaves its poisoned slot in the table for good: later reads
  of the key no longer share their fetch.

Authentication:

* `resolve_token` looks for `_locked` in a document whose SELECT does not have
  that column (`db/query/columns.rs:18`), so a lock takes effect through the
  session version only; `authentication/auth-collections.md:87` says every
  request checks `_locked`. A lock whose second statement fails, and a login that
  overlaps a lock, leave the account with an accepted token.
* A login that read the password hash before a reset and the version after it
  gets a session of the new version.
* On Postgres two overlapping resets with one token both succeed, and a lock that
  commits during the hash is not seen; `authentication/overview.md:91` calls the
  token single-use. On SQLite `TokenOnce` and `ResetIsCurrent` hold.
* The comment at `service/auth/tokens.rs:66` says the token is cleared when it is
  expired or the account locked; both callers roll back the second, and gRPC
  the first too (`RejectLocked`, `RejectExpired`).

Listings:

* A row whose sort column is NULL is never reached from a cursor with a value
  towards smaller values (`inner_keyset_clause`), that is descending forwards or
  ascending backwards on SQLite. Postgres sorts NULL at the other end, so there
  the clause disagrees with the order in both directions and may also repeat
  rows. `query-and-filters/overview.md:142` says a cursor encodes the position of
  a document in the sorted result set.
* Cursors are made after select, field access and hooks have changed the
  documents (`post_process_docs`), so the sort value may be gone (then NULL) and
  the status too (then "published"). The comment at `db/query/read/select.rs:7`
  says the columns a cursor needs are kept whatever the caller selects, which is
  true of the SQL only.
* The first page takes has_next_page from a count in a second statement: a
  deletion in between makes it say that there is no more (`raced`).
* A page that is empty has no cursors, so a client cannot go back from it,
  although has_prev_page is true.

## Plan

Done: job queue, cron, references, retention purge, versions, live events,
populate cache, sessions, listings, with proofs of their safety properties. Left:

1. `JobQueue` on Postgres: `OneExecutionPerAttempt`, which rests there on the
   WHERE of each claim's UPDATE instead of on the lock.
2. Model work: `References` on Postgres with overlapping transactions and with
   nested operations that fail and are caught; MFA codes and verification tokens;
   globals as referrers.

## Not modelled

HTTP, gRPC and MCP transports, templates, type generation and scaffolding
(formatting without state of their own), SQL generation for filters and
locales, migrations and the ref-count backfill, full-text indexes, image processing, cryptography, the
Lua VM pool, second-factor codes. Smaller paths that are left out of the modules:
the limiter that lets a login pass when its backend fails (`login.rs:62`; the
memory backend cannot fail), a page number without a cursor in cursor mode, the
replacement of an upload's file (`service/upload.rs:143`), and the CLI purge's
selection of ids before its transaction (`commands/trash.rs:205`), between which and
the DELETE a document may be undeleted or deleted.

These make up most of the lines of the repository; the modules cover the parts in which steps of several actors meet.

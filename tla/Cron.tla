-------------------------------- MODULE Cron --------------------------------
(***************************************************************************)
(* The cron ticks of the schedulers that share table _crap_cron_fired.     *)
(* At every tick a scheduler reads its wall clock, and in one IMMEDIATE    *)
(* transaction claims, for every slug that was due since its previous      *)
(* check, the window between the two readings; the claim queues a job.     *)
(* Every PurgeEvery ticks it also tries to claim the retention purge.      *)
(* The clocks of the nodes are independent of each other, and may be set   *)
(* back.                                                                   *)
(***************************************************************************)
EXTENDS Integers, FiniteSets

CONSTANTS
    Nodes,          \* scheduler processes
    Slugs,          \* jobs with a valid cron expression
    Purge,          \* the pseudo slug __retention_purge
    Times,          \* readings of a wall clock
    Due,            \* Due[s]: the instants at which the schedule of s fires
    SkipIfRunning,  \* slugs with skip_if_running
    PurgeEvery,     \* cron ticks between two purge turns of a node
    PurgeWindow,    \* PurgeEvery cron intervals
    SetBack         \* clocks may be set back

ASSUME CronAssumption ==
    /\ Times \subseteq Nat
    /\ Due \in [Slugs -> SUBSET Times]
    /\ Purge \notin Slugs
    /\ PurgeEvery \in Nat \ {0}
    /\ PurgeWindow \in Nat

Never == -1   \* no row in _crap_cron_fired

VARIABLES
    clock,     \* what Utc::now() returns in each node
    phase,     \* where each node is in its cron tick
    at,        \* the reading the tick works with
    last,      \* last_cron_check
    ticks,     \* purge_counter modulo PurgeEvery
    fired,     \* table _crap_cron_fired
    running,   \* slugs with a running job row
    queued,    \* history: rows queued for each due instant
    purges     \* history: instants at which a purge was claimed

vars == <<clock, phase, at, last, ticks, fired, running, queued, purges>>

(* Every variable holds a value of its type.                               *)
CronTypeOK ==
    /\ clock \in [Nodes -> Times]
    /\ phase \in [Nodes -> {"down", "idle", "check", "purge"}]
    /\ at \in [Nodes -> Times]
    /\ last \in [Nodes -> Times]
    /\ ticks \in [Nodes -> 0 .. PurgeEvery - 1]
    /\ fired \in [Slugs \cup {Purge} -> Times \cup {Never}]
    /\ running \in SUBSET Slugs
    /\ queued \in [Slugs -> [Times -> Nat]]
    /\ purges \in SUBSET Times

Init ==
    /\ clock \in [Nodes -> Times]
    /\ phase = [n \in Nodes |-> "down"]
    /\ at = clock
    /\ last = clock
    /\ ticks = [n \in Nodes |-> 0]
    /\ fired = [s \in Slugs \cup {Purge} |-> Never]
    /\ running = {}
    /\ queued = [s \in Slugs |-> [t \in Times |-> 0]]
    /\ purges = {}

-----------------------------------------------------------------------------
ClockMoves(n) ==
    /\ \E t \in Times :
          /\ t > clock[n] \/ (SetBack /\ t < clock[n])
          /\ clock' = [clock EXCEPT ![n] = t]
    /\ UNCHANGED <<phase, at, last, ticks, fired, running, queued, purges>>

(* The job queue: a row of the slug starts or ends.                        *)
JobStartsOrEnds(s) ==
    /\ running' = IF s \in running THEN running \ {s} ELSE running \cup {s}
    /\ UNCHANGED <<clock, phase, at, last, ticks, fired, queued, purges>>

Start(n) ==
    /\ phase[n] = "down"
    /\ phase' = [phase EXCEPT ![n] = "idle"]
    /\ last' = [last EXCEPT ![n] = clock[n]]
    /\ at' = [at EXCEPT ![n] = clock[n]]
    /\ UNCHANGED <<clock, ticks, fired, running, queued, purges>>

(* What the process remembered is gone.                                    *)
Stop(n) ==
    /\ phase[n] # "down"
    /\ phase' = [phase EXCEPT ![n] = "down"]
    /\ at' = [at EXCEPT ![n] = clock[n]]
    /\ last' = [last EXCEPT ![n] = clock[n]]
    /\ ticks' = [ticks EXCEPT ![n] = 0]
    /\ UNCHANGED <<clock, fired, running, queued, purges>>

(* The cron ticker fires: the clock is read before the transaction begins. *)
Tick(n) ==
    /\ phase[n] = "idle"
    /\ phase' = [phase EXCEPT ![n] = "check"]
    /\ at' = [at EXCEPT ![n] = clock[n]]
    /\ UNCHANGED <<clock, last, ticks, fired, running, queued, purges>>

(* Mutant: an upsert without the WHERE clause.                             *)
AnyWindow(s, start) == TRUE

(* try_claim_cron_window: no row yet, or one from before the window.       *)
Claimable(s, start) == fired[s] = Never \/ fired[s] < start

(* Instants of the schedule in the window (last check, this check].        *)
DueNow(n, s) == {t \in Due[s] : last[n] < t /\ t <= at[n]}

DueSlugs(n) == {s \in Slugs : DueNow(n, s) # {}}

Won(n) == {s \in DueSlugs(n) : Claimable(s, last[n])}

(* A won window queues a job, unless one is running and the job skips.     *)
Queues(n) == {s \in Won(n) : ~(s \in SkipIfRunning /\ s \in running)}

(* The tick goes on whether the check succeeded or not.                    *)
AfterCheck(n) ==
    /\ phase[n] = "check"
    /\ last' = [last EXCEPT ![n] = at[n]]
    /\ ticks' = [ticks EXCEPT ![n] = (@ + 1) % PurgeEvery]
    /\ phase' = [phase EXCEPT ![n] = IF (ticks[n] + 1) % PurgeEvery = 0 THEN "purge" ELSE "idle"]
    /\ UNCHANGED <<clock, at, running, purges>>

(* The transaction over all slugs.                                         *)
check_cron_schedules(n) ==
    /\ AfterCheck(n)
    /\ fired' = [s \in Slugs \cup {Purge} |-> IF s \in Won(n) THEN at[n] ELSE fired[s]]
    /\ queued' = [s \in Slugs |-> [t \in Times |->
                     IF s \in Queues(n) /\ t \in DueNow(n, s)
                     THEN queued[s][t] + 1 ELSE queued[s][t]]]

(* The check fails: no connection, no lock, an error in the transaction,   *)
(* which rolls back.  last_cron_check advances all the same.               *)
CheckFails(n) ==
    /\ AfterCheck(n)
    /\ UNCHANGED <<fired, queued>>

(* Mutant: a dedup window of one cron interval.                            *)
PurgeShortWindow(n) ==
    /\ phase[n] = "purge"
    /\ phase' = [phase EXCEPT ![n] = "idle"]
    /\ \/ /\ Claimable(Purge, clock[n] - PurgeWindow \div PurgeEvery)
          /\ fired' = [fired EXCEPT ![Purge] = clock[n]]
          /\ purges' = purges \cup {clock[n]}
       \/ UNCHANGED <<fired, purges>>
    /\ UNCHANGED <<clock, at, last, ticks, running, queued>>

(* claim_retention_purge_tick reads the clock again.  A failed claim does  *)
(* what a refused one does.                                                *)
run_periodic_purges(n) ==
    /\ phase[n] = "purge"
    /\ phase' = [phase EXCEPT ![n] = "idle"]
    /\ \/ /\ Claimable(Purge, clock[n] - PurgeWindow)
          /\ fired' = [fired EXCEPT ![Purge] = clock[n]]
          /\ purges' = purges \cup {clock[n]}
       \/ UNCHANGED <<fired, purges>>
    /\ UNCHANGED <<clock, at, last, ticks, running, queued>>

Next ==
    \/ \E n \in Nodes :
          \/ ClockMoves(n)
          \/ Start(n)
          \/ Stop(n)
          \/ Tick(n)
          \/ check_cron_schedules(n)
          \/ CheckFails(n)
          \/ run_periodic_purges(n)
    \/ \E s \in Slugs : JobStartsOrEnds(s)

Spec == Init /\ [][Next]_vars

-----------------------------------------------------------------------------
(* "Only one server fires each cron job per schedule window": no instant   *)
(* of a schedule queues two jobs, whatever the nodes' clocks show.         *)
DueFiresOnce == \A s \in Slugs, t \in Times : queued[s][t] <= 1

(* "the dedup window must cover that span": two purges are claimed more    *)
(* than PurgeWindow apart, whatever the clocks show.                       *)
PurgesApart ==
    \A t, u \in purges : t < u => u - t > PurgeWindow

(* Inductive: what has fired is not later than the row in the table.       *)
CronInv ==
    /\ DueFiresOnce
    /\ \A s \in Slugs, t \in Times : queued[s][t] > 0 => t <= fired[s]
    /\ \A t \in purges : t <= fired[Purge]
    /\ PurgesApart

=============================================================================

----------------------------- MODULE CronProofs -----------------------------
(* Theorems about Cron for any nodes, schedules and clocks.                *)
EXTENDS Cron, TLAPS

(* A check leaves the variables of the tick within their types.            *)
LEMMA AfterCheckType ==
  ASSUME CronTypeOK, NEW n \in Nodes, AfterCheck(n)
  PROVE  /\ last' \in [Nodes -> Times]
         /\ ticks' \in [Nodes -> 0 .. PurgeEvery - 1]
         /\ phase' \in [Nodes -> {"down", "idle", "check", "purge"}]
         /\ UNCHANGED <<clock, at, running, purges>>
<1>1. ticks[n] \in Nat /\ PurgeEvery \in Nat \ {0}
  BY CronAssumption DEF CronTypeOK
<1>2. (ticks[n] + 1) % PurgeEvery \in 0 .. PurgeEvery - 1
  BY <1>1
<1>3. QED
  BY <1>2 DEF CronTypeOK, AfterCheck

(* Every step keeps every variable within its type.                        *)
LEMMA CronTypeStep == CronTypeOK /\ [Next]_vars => CronTypeOK'
<1> SUFFICES ASSUME CronTypeOK, [Next]_vars PROVE CronTypeOK'
  OBVIOUS
<1>1. CASE UNCHANGED vars
  BY <1>1 DEF CronTypeOK, vars
<1>2. ASSUME NEW s \in Slugs, JobStartsOrEnds(s) PROVE CronTypeOK'
  BY <1>2 DEF CronTypeOK, JobStartsOrEnds
<1>3. ASSUME NEW n \in Nodes, ClockMoves(n) PROVE CronTypeOK'
  BY <1>3 DEF CronTypeOK, ClockMoves
<1>4. ASSUME NEW n \in Nodes, Start(n) \/ Tick(n) PROVE CronTypeOK'
  BY <1>4 DEF CronTypeOK, Start, Tick
<1>5. ASSUME NEW n \in Nodes, Stop(n) PROVE CronTypeOK'
  <2>1. 0 \in 0 .. PurgeEvery - 1
    BY CronAssumption
  <2>2. QED
    BY <1>5, <2>1 DEF CronTypeOK, Stop
<1>6. ASSUME NEW n \in Nodes, check_cron_schedules(n) PROVE CronTypeOK'
  <2>1. fired' \in [Slugs \cup {Purge} -> Times \cup {Never}]
    BY <1>6 DEF CronTypeOK, check_cron_schedules
  <2>2. queued' \in [Slugs -> [Times -> Nat]]
    BY <1>6 DEF CronTypeOK, check_cron_schedules
  <2>3. AfterCheck(n)
    BY <1>6 DEF check_cron_schedules
  <2>4. QED
    BY <2>1, <2>2, <2>3, AfterCheckType DEF CronTypeOK
<1>7. ASSUME NEW n \in Nodes, CheckFails(n) PROVE CronTypeOK'
  BY <1>7, AfterCheckType DEF CronTypeOK, CheckFails
<1>8. ASSUME NEW n \in Nodes, run_periodic_purges(n) PROVE CronTypeOK'
  BY <1>8 DEF CronTypeOK, run_periodic_purges
<1>9. QED
  BY <1>1, <1>2, <1>3, <1>4, <1>5, <1>6, <1>7, <1>8 DEF Next

(* Type correctness of the cron ticks.                                     *)
THEOREM CronTypeCorrect == Spec => []CronTypeOK
<1>1. Init => CronTypeOK
  BY CronAssumption DEF Init, CronTypeOK
<1>2. QED
  BY <1>1, CronTypeStep, PTL DEF Spec

(* What the tick computes with are integers.                               *)
LEMMA Readings ==
  ASSUME CronTypeOK
  PROVE  /\ \A n \in Nodes : last[n] \in Nat /\ at[n] \in Nat /\ clock[n] \in Nat
         /\ \A s \in Slugs \cup {Purge} : fired[s] \in Int
         /\ \A s \in Slugs : \A t \in Times : queued[s][t] \in Nat
         /\ \A t \in Times : t \in Nat
<1>1. Times \subseteq Nat /\ -1 \in Int /\ Nat \subseteq Int
  BY CronAssumption
<1>2. \A n \in Nodes : last[n] \in Times /\ at[n] \in Times /\ clock[n] \in Times
  BY DEF CronTypeOK
<1>3. \A s \in Slugs \cup {Purge} : fired[s] \in Times \/ fired[s] = -1
  BY DEF CronTypeOK, Never
<1>4. \A s \in Slugs : \A t \in Times : queued[s][t] \in Nat
  BY DEF CronTypeOK
<1>5. QED
  BY <1>1, <1>2, <1>3, <1>4

(* The windows that are won are disjoint: a won window begins after the    *)
(* end of every one won before.                                            *)
LEMMA CheckKeeps ==
  ASSUME CronTypeOK, CronInv, NEW n \in Nodes, check_cron_schedules(n)
  PROVE  CronInv'
<1>1. /\ fired' = [s \in Slugs \cup {Purge} |-> IF s \in Won(n) THEN at[n] ELSE fired[s]]
      /\ queued' = [s \in Slugs |-> [t \in Times |->
                     IF s \in Queues(n) /\ t \in DueNow(n, s)
                     THEN queued[s][t] + 1 ELSE queued[s][t]]]
      /\ UNCHANGED purges
  BY DEF check_cron_schedules, AfterCheck
<1>2. /\ last[n] \in Nat /\ at[n] \in Nat
      /\ \A s \in Slugs \cup {Purge} : fired[s] \in Int
      /\ \A s \in Slugs, t \in Times : queued[s][t] \in Nat /\ t \in Nat
  BY Readings
<1>3. fired'[Purge] = fired[Purge]
  BY <1>1, CronAssumption DEF Won, DueSlugs
<1>4. ASSUME NEW s \in Slugs, NEW t \in Times
      PROVE  queued'[s][t] <= 1 /\ (queued'[s][t] > 0 => t <= fired'[s])
  <2>1. queued[s][t] <= 1 /\ (queued[s][t] > 0 => t <= fired[s])
    BY DEF CronInv, DueFiresOnce
  <2>2. CASE s \notin Won(n)
    BY <1>1, <2>1, <2>2 DEF Queues
  <2>3. CASE s \in Won(n)
    <3>1. PICK u \in Due[s] : last[n] < u /\ u <= at[n]
      BY <2>3 DEF Won, DueSlugs, DueNow
    <3>2. fired[s] = Never \/ fired[s] < last[n]
      BY <2>3 DEF Won, Claimable
    <3>3. fired'[s] = at[n] /\ u \in Nat
      BY <1>1, <2>3, CronAssumption
    <3>4. CASE t \in DueNow(n, s)
      <4>1. last[n] < t /\ t <= at[n]
        BY <3>4 DEF DueNow
      <4>2. queued[s][t] = 0
        BY <1>2, <2>1, <3>2, <4>1 DEF Never
      <4>3. queued'[s][t] \in {0, 1}
        BY <1>1, <4>2
      <4>4. QED
        BY <3>3, <4>1, <4>3
    <3>5. CASE t \notin DueNow(n, s)
      <4>1. queued'[s][t] = queued[s][t]
        BY <1>1, <3>5
      <4>2. QED
        BY <1>2, <2>1, <3>1, <3>2, <3>3, <4>1 DEF Never
    <3>6. QED
      BY <3>4, <3>5
  <2>4. QED
    BY <2>2, <2>3
<1>5. QED
  BY <1>1, <1>3, <1>4 DEF CronInv, DueFiresOnce, PurgesApart

(* A purge is claimed more than PurgeWindow after every earlier one.       *)
LEMMA PurgeKeeps ==
  ASSUME CronTypeOK, CronInv, NEW n \in Nodes, run_periodic_purges(n)
  PROVE  CronInv'
<1>1. UNCHANGED queued /\ \A s \in Slugs : fired'[s] = fired[s]
  BY CronAssumption DEF run_periodic_purges, CronTypeOK
<1>2. CASE UNCHANGED <<fired, purges>>
  BY <1>1, <1>2 DEF CronInv, DueFiresOnce, PurgesApart
<1>3. CASE /\ Claimable(Purge, clock[n] - PurgeWindow)
           /\ fired' = [fired EXCEPT ![Purge] = clock[n]]
           /\ purges' = purges \cup {clock[n]}
  <2>1. /\ clock[n] \in Nat /\ PurgeWindow \in Nat /\ fired[Purge] \in Int
        /\ \A t \in purges : t \in Nat /\ t <= fired[Purge]
    BY Readings, CronAssumption DEF CronTypeOK, CronInv
  <2>2. \A t \in purges : t < clock[n] - PurgeWindow
    BY <1>3, <2>1 DEF Claimable, Never
  <2>3. fired'[Purge] = clock[n]
    BY <1>3 DEF CronTypeOK
  <2>4. \A t \in purges' : t <= fired'[Purge]
    BY <1>3, <2>1, <2>2, <2>3
  <2>5. PurgesApart'
    <3> SUFFICES ASSUME NEW t \in purges', NEW u \in purges', t < u PROVE u - t > PurgeWindow
      BY DEF PurgesApart
    <3>1. t \in purges
      BY <1>3, <2>1, <2>2
    <3>2. QED
      BY <1>3, <2>1, <2>2, <3>1 DEF CronInv, PurgesApart
  <2>6. QED
    BY <1>1, <2>4, <2>5 DEF CronInv, DueFiresOnce
<1>4. QED
  BY <1>2, <1>3 DEF run_periodic_purges

(* The claim table orders everything that has fired.                       *)
THEOREM CronOrdered == Spec => []CronInv
<1>1. Init => CronInv
  BY DEF Init, CronInv, DueFiresOnce, PurgesApart
<1>2. CronTypeOK /\ CronInv /\ [Next]_vars => CronInv'
  <2> SUFFICES ASSUME CronTypeOK, CronInv, [Next]_vars PROVE CronInv'
    OBVIOUS
  <2>1. ASSUME UNCHANGED <<fired, queued, purges>> PROVE CronInv'
    BY <2>1 DEF CronInv, DueFiresOnce, PurgesApart
  <2>2. CASE UNCHANGED vars
    BY <2>1, <2>2 DEF vars
  <2>3. ASSUME NEW s \in Slugs, JobStartsOrEnds(s) PROVE CronInv'
    BY <2>1, <2>3 DEF JobStartsOrEnds
  <2>4. ASSUME NEW n \in Nodes,
               ClockMoves(n) \/ Start(n) \/ Stop(n) \/ Tick(n) \/ CheckFails(n)
        PROVE  CronInv'
    BY <2>1, <2>4 DEF ClockMoves, Start, Stop, Tick, CheckFails, AfterCheck
  <2>5. QED
    BY <2>2, <2>3, <2>4, CheckKeeps, PurgeKeeps DEF Next
<1>3. QED
  BY <1>1, <1>2, CronTypeCorrect, PTL DEF Spec

(* No instant of a schedule queues two jobs, whatever the number of nodes, *)
(* their clocks, failed checks and restarts.                               *)
THEOREM DueFiresOnceTheorem == Spec => []DueFiresOnce
<1>1. CronInv => DueFiresOnce
  BY DEF CronInv
<1>2. QED
  BY <1>1, CronOrdered, PTL

(* No two nodes claim the retention purge within one window.               *)
THEOREM PurgesApartTheorem == Spec => []PurgesApart
<1>1. CronInv => PurgesApart
  BY DEF CronInv
<1>2. QED
  BY <1>1, CronOrdered, PTL

=============================================================================

--------------------------- MODULE JobQueueProofs ---------------------------
(* Theorems about JobQueue for every value of its constants.               *)
EXTENDS JobQueue, FiniteSetTheorems, TLAPS

(* What fail_job writes has the type of the columns it writes.             *)
LEMMA FailJobType ==
  ASSUME TypeOK, NEW j \in Jobs, NEW a \in Nat, NEW v \in Verdicts,
         NEW retry \in BOOLEAN, fail_job(j, retry, a, v)
  PROVE  /\ status' \in [Jobs -> Statuses]
         /\ attempt' \in [Jobs -> Nat]
         /\ due' \in [Jobs -> BOOLEAN]
         /\ beat' \in [Jobs -> BOOLEAN]
         /\ requeued' \in [Jobs -> SUBSET (Nat \X Verdicts)]
<1> USE DEF TypeOK, Statuses, row
<1>1. CASE UNCHANGED <<row, requeued>>
  BY <1>1
<1>2. CASE status' = SetStatus(j, "failed") /\ UNCHANGED <<attempt, due, beat, requeued>>
  BY <1>2 DEF SetStatus
<1>3. CASE /\ status' = [status EXCEPT ![j] = "pending"]
           /\ due' = [due EXCEPT ![j] = FALSE]
           /\ beat' = [beat EXCEPT ![j] = FALSE]
           /\ requeued' = [requeued EXCEPT ![j] = @ \cup {<<a, v>>}]
           /\ UNCHANGED attempt
  <2>1. <<a, v>> \in Nat \X Verdicts
    OBVIOUS
  <2>2. requeued[j] \cup {<<a, v>>} \in SUBSET (Nat \X Verdicts)
    BY <2>1
  <2>3. requeued' \in [Jobs -> SUBSET (Nat \X Verdicts)]
    BY <1>3, <2>2
  <2>4. QED
    BY <1>3, <2>3
<1>4. QED
  BY <1>1, <1>2, <1>3 DEF fail_job

(* Each step of the scheduler keeps every variable within its type.        *)
LEMMA TypeStep == TypeOK /\ [Next]_vars => TypeOK'
<1> SUFFICES ASSUME TypeOK, [Next]_vars PROVE TypeOK'
  OBVIOUS
<1> USE ConstantsAssumption DEF TypeOK, Statuses, Verdicts, row, poll
<1>1. CASE UNCHANGED vars
  BY <1>1 DEF vars
<1>2. ASSUME NEW j \in Jobs, insert_job_with(j) PROVE TypeOK'
  BY <1>2 DEF insert_job_with
<1>3. ASSUME NEW j \in Jobs, BecomeDue(j) PROVE TypeOK'
  BY <1>3 DEF BecomeDue
<1>4. ASSUME NEW S, cancel_pending_jobs(S) PROVE TypeOK'
  BY <1>4 DEF cancel_pending_jobs
<1>5. CASE purge_old_jobs
  BY <1>5 DEF purge_old_jobs
<1>6. CASE SecondPasses
  BY <1>6 DEF SecondPasses
<1>7. ASSUME NEW p \in Pollers, PollStep(p) PROVE TypeOK'
  <2> USE DEF poll, PollStates
  <2>1. CASE PollCount(p)
    <3>1. IsFiniteSet(Running)
      BY FS_Subset DEF Running
    <3>2. MaxConcurrent - Cardinality(Running) \in Nat
      BY <2>1, <3>1, FS_CardinalityType DEF PollCount
    <3>3. QED
      BY <2>1, <3>2 DEF PollCount
  <2>2. CASE ClaimSelect(p)
    BY <2>2 DEF ClaimSelect, Candidates, Eligible
  <2>3. CASE ClaimCounts(p)
    BY <2>3 DEF ClaimCounts, Running
  <2>4. ASSUME NEW j \in Jobs, SkipRow(p, j) PROVE TypeOK'
    BY <2>4 DEF SkipRow
  <2>13. ASSUME NEW j \in Jobs, LoseRow(p, j) PROVE TypeOK'
    BY <2>13 DEF LoseRow
  <2>5. ASSUME NEW j \in Jobs, TakeRow(p, j) PROVE TypeOK'
    BY <2>5 DEF TakeRow
  <2>6. ASSUME NEW j \in Jobs, TakeRowNow(p, j) PROVE TypeOK'
    BY <2>6 DEF TakeRowNow
  <2>7. CASE ClaimCommit(p)
    BY <2>7 DEF ClaimCommit, ClaimEnds
  <2>8. CASE ClaimDone(p)
    BY <2>8 DEF ClaimDone, ClaimEnds
  <2>9. ASSUME NEW j \in Jobs, Spawn(p, j) PROVE TypeOK'
    BY <2>9 DEF Spawn, Execution
  <2>10. ASSUME NEW j \in Jobs, FailUndefined(p, j) PROVE TypeOK'
    BY <2>10, FailJobType DEF FailUndefined
  <2>11. CASE PollEnds(p)
    BY <2>11 DEF PollEnds
  <2>14. CASE PollFails(p)
    BY <2>14 DEF PollFails
  <2>12. QED
    BY <1>7, <2>1, <2>2, <2>3, <2>4, <2>5, <2>6, <2>7, <2>8, <2>9, <2>10, <2>11, <2>13, <2>14
       DEF PollStep, ClaimStep
<1>8. ASSUME NEW e \in exec, ExecStep(e) PROVE TypeOK'
  <2> USE DEF Execution, Move, Finish, AfterWrite, SetStatus
  <2>1. CASE HandlerOk(e)
    BY <2>1 DEF HandlerOk, complete_job
  <2>2. CASE HandlerErr(e)
    <3>1. Retry(e) \in BOOLEAN /\ e.job \in Jobs /\ e.att \in Nat
      BY DEF Retry
    <3>2. QED
      BY <2>2, <3>1, FailJobType DEF HandlerErr
  <2>3. CASE HandlerReject(e)
    <3>1. e.job \in Jobs /\ e.att \in Nat
      OBVIOUS
    <3>2. fail_job(e.job, FALSE, e.att, "handler") /\ FALSE \in BOOLEAN
      BY <2>3 DEF HandlerReject
    <3>3. /\ status' \in [Jobs -> Statuses] /\ attempt' \in [Jobs -> Nat]
          /\ due' \in [Jobs -> BOOLEAN] /\ beat' \in [Jobs -> BOOLEAN]
          /\ requeued' \in [Jobs -> SUBSET (Nat \X Verdicts)]
      BY <3>1, <3>2, FailJobType
    <3>4. QED
      BY <2>3, <3>3 DEF HandlerReject
  <2>4. CASE HandlerDies(e) \/ Join(e)
    BY <2>4 DEF HandlerDies, Join
  <2>5. CASE Timeout(e)
    <3>1. Retry(e) \in BOOLEAN /\ e.job \in Jobs /\ e.att \in Nat
      BY DEF Retry
    <3>2. QED
      BY <2>5, <3>1, FailJobType DEF Timeout
  <2>6. CASE update_heartbeat(e)
    BY <2>6 DEF update_heartbeat
  <2>7. QED
    BY <1>8, <2>1, <2>2, <2>3, <2>4, <2>5, <2>6 DEF ExecStep
<1>9. ASSUME NEW n \in Nodes, NodeStep(n) PROVE TypeOK'
  <2>1. CASE NodeStart(n)
    BY <2>1 DEF NodeStart, Running
  <2>2. ASSUME NEW j \in Jobs, RecoverMark(n, j) PROVE TypeOK'
    BY <2>2 DEF RecoverMark, mark_stale, SetStatus
  <2>3. CASE NodeReady(n)
    BY <2>3 DEF NodeReady
  <2>4. CASE NodeStop(n)
    BY <2>4 DEF NodeStop, PollStates, poll
  <2>5. QED
    BY <1>9, <2>1, <2>2, <2>3, <2>4 DEF NodeStep
<1>10. QED
  BY <1>1, <1>2, <1>3, <1>4, <1>5, <1>6, <1>7, <1>8, <1>9 DEF Next

(* Type correctness of the queue and its schedulers, on both backends.     *)
THEOREM TypeCorrect == Spec => []TypeOK
<1>1. Init => TypeOK
  BY ConstantsAssumption DEF Init, TypeOK, Statuses, PollStates
<1>2. QED
  BY <1>1, TypeStep, PTL DEF Spec

-----------------------------------------------------------------------------
(* The caps on SQLite                                                      *)

(* Fewer rows respect the caps as well.                                    *)
LEMMA CapsShrink ==
  ASSUME NEW J \in SUBSET Jobs, NEW K \in SUBSET J, CapsIn(J)
  PROVE  CapsIn(K)
<1>1. ASSUME NEW S \in SUBSET J, NEW T \in SUBSET S
      PROVE  Cardinality(T) \in Nat /\ Cardinality(S) \in Nat /\ Cardinality(T) <= Cardinality(S)
  <2>1. IsFiniteSet(S)
    BY FS_Subset, ConstantsAssumption
  <2>2. QED
    BY <2>1, FS_Subset, FS_CardinalityType
<1>2. ASSUME NEW s \in DOMAIN SlugCap PROVE Cardinality(SlugRows(s, K)) <= SlugCap[s]
  <2>1. SlugRows(s, J) \in SUBSET J /\ SlugRows(s, K) \in SUBSET SlugRows(s, J)
    BY DEF SlugRows
  <2>2. Cardinality(SlugRows(s, J)) <= SlugCap[s] /\ SlugCap[s] \in Nat
    BY ConstantsAssumption DEF CapsIn
  <2>3. QED
    BY <1>1, <2>1, <2>2
<1>3. ASSUME NEW r \in DOMAIN QueueCap PROVE Cardinality(QueueRows(r, K)) <= QueueCap[r]
  <2>1. QueueRows(r, J) \in SUBSET J /\ QueueRows(r, K) \in SUBSET QueueRows(r, J)
    BY DEF QueueRows
  <2>2. Cardinality(QueueRows(r, J)) <= QueueCap[r] /\ QueueCap[r] \in Nat
    BY ConstantsAssumption DEF CapsIn
  <2>3. QED
    BY <1>1, <2>1, <2>2
<1>4. QED
  BY <1>2, <1>3 DEF CapsIn

(* A row whose slug and queue have room can be added.                      *)
LEMMA CapsGrow ==
  ASSUME NEW J \in SUBSET Jobs, NEW j \in Jobs, CapsIn(J),
         ~SlugFull(Slug[j], J), ~QueueFull(Queue[j], J)
  PROVE  CapsIn(J \cup {j})
<1>1. ASSUME NEW S \in SUBSET J
      PROVE  /\ Cardinality(S) \in Nat /\ Cardinality(S \cup {j}) \in Nat
             /\ Cardinality(S \cup {j}) <= Cardinality(S) + 1
  <2>1. IsFiniteSet(S)
    BY FS_Subset, ConstantsAssumption
  <2>2. IsFiniteSet(S \cup {j}) /\ Cardinality(S) \in Nat
    BY <2>1, FS_AddElement, FS_CardinalityType
  <2>3. Cardinality(S \cup {j}) \in Nat
    BY <2>2, FS_CardinalityType
  <2>4. CASE j \in S
    <3>1. S \cup {j} = S
      BY <2>4
    <3>2. Cardinality(S \cup {j}) = Cardinality(S)
      BY <3>1, Zenon
    <3>3. QED
      BY <2>2, <3>2
  <2>5. CASE j \notin S
    <3>1. Cardinality(S \cup {j}) = Cardinality(S) + 1
      BY <2>1, <2>5, FS_AddElement
    <3>2. QED
      BY <2>2, <2>3, <3>1
  <2>6. QED
    BY <2>4, <2>5
<1>2. ASSUME NEW s \in DOMAIN SlugCap PROVE Cardinality(SlugRows(s, J \cup {j})) <= SlugCap[s]
  <2>1. SlugRows(s, J) \in SUBSET J /\ SlugCap[s] \in Nat /\ Cardinality(SlugRows(s, J)) <= SlugCap[s]
    BY ConstantsAssumption DEF SlugRows, CapsIn
  <2>2. CASE s = Slug[j]
    <3>1. SlugRows(s, J \cup {j}) = SlugRows(s, J) \cup {j}
      BY <2>2 DEF SlugRows
    <3>2. ~(Cardinality(SlugRows(s, J)) >= SlugCap[s])
      BY <2>2 DEF SlugFull
    <3>3. /\ Cardinality(SlugRows(s, J)) \in Nat
          /\ Cardinality(SlugRows(s, J) \cup {j}) \in Nat
          /\ Cardinality(SlugRows(s, J) \cup {j}) <= Cardinality(SlugRows(s, J)) + 1
      BY <1>1, <2>1
    <3>4. QED
      BY <2>1, <3>1, <3>2, <3>3
  <2>3. CASE s # Slug[j]
    <3>1. SlugRows(s, J \cup {j}) = SlugRows(s, J)
      BY <2>3 DEF SlugRows
    <3>2. QED
      BY <2>1, <3>1
  <2>4. QED
    BY <2>2, <2>3
<1>3. ASSUME NEW r \in DOMAIN QueueCap PROVE Cardinality(QueueRows(r, J \cup {j})) <= QueueCap[r]
  <2>1. QueueRows(r, J) \in SUBSET J /\ QueueCap[r] \in Nat /\ Cardinality(QueueRows(r, J)) <= QueueCap[r]
    BY ConstantsAssumption DEF QueueRows, CapsIn
  <2>2. CASE r = Queue[j]
    <3>1. QueueRows(r, J \cup {j}) = QueueRows(r, J) \cup {j}
      BY <2>2 DEF QueueRows
    <3>2. ~(Cardinality(QueueRows(r, J)) >= QueueCap[r])
      BY <2>2 DEF QueueFull
    <3>3. /\ Cardinality(QueueRows(r, J)) \in Nat
          /\ Cardinality(QueueRows(r, J) \cup {j}) \in Nat
          /\ Cardinality(QueueRows(r, J) \cup {j}) <= Cardinality(QueueRows(r, J)) + 1
      BY <1>1, <2>1
    <3>4. QED
      BY <2>1, <3>1, <3>2, <3>3
  <2>3. CASE r # Queue[j]
    <3>1. QueueRows(r, J \cup {j}) = QueueRows(r, J)
      BY <2>3 DEF QueueRows
    <3>2. QED
      BY <2>1, <3>1
  <2>4. QED
    BY <2>2, <2>3
<1>4. QED
  BY <1>2, <1>3 DEF CapsIn

(* A step outside the polls adds no running row, and touches rows only     *)
(* while no claim holds the write lock: it keeps ClaimInv.                 *)
LEMMA QuietStep ==
  ASSUME Backend = "sqlite", TypeOK, ClaimInv,
         UNCHANGED <<pc, cands, snap, seen, claimed>>,
         Running' \subseteq Running,
         ~WriteLocked \/ UNCHANGED <<status, attempt>>
  PROVE  ClaimInv'
<1>1. CapsIn(Running')
  <2>1. Running \in SUBSET Jobs /\ CapsIn(Running)
    BY DEF Running, ClaimInv
  <2>2. QED
    BY <2>1, CapsShrink
<1>2. CASE ~WriteLocked
  <2>1. \A p \in Pollers : ~Locking(p) /\ pc[p] # "claim"
    BY <1>2 DEF WriteLocked, Locking
  <2>2. QED
    BY <1>1, <2>1 DEF ClaimInv, Locking, CapsIn
<1>3. CASE UNCHANGED <<status, attempt>>
  <2>1. Running' = Running
    BY <1>3 DEF Running
  <2>2. QED
    BY <1>1, <1>3, <2>1 DEF ClaimInv, Locking, CapsIn
<1>4. QED
  BY <1>2, <1>3

(* A step that leaves the rows alone, opens no claim and adds nothing to an *)
(* open one keeps ClaimInv.                                                *)
LEMMA PollerMoves ==
  ASSUME ClaimInv, UNCHANGED <<status, attempt>>,
         \A r \in Pollers : Locking(r)' =>
             /\ pc'[r] = pc[r] /\ claimed'[r] = claimed[r] /\ seen'[r] = seen[r]
             /\ snap'[r] = snap[r] /\ cands'[r] \subseteq cands[r],
         \A r \in Pollers : pc'[r] \in {"idle", "counted"} => claimed'[r] = {}
  PROVE  ClaimInv'
<1>1. Running' = Running
  BY DEF Running
<1>2. \A r \in Pollers : Locking(r)' => Locking(r)
  BY DEF Locking
<1>3. \A r, t \in Pollers : Locking(r)' /\ Locking(t)' => r = t
  BY <1>2 DEF ClaimInv
<1>4. \A r \in Pollers : pc'[r] \in {"idle", "counted", "selected"} => claimed'[r] = {}
  BY DEF ClaimInv, Locking
<1>5. ASSUME NEW r \in Pollers, Locking(r)', NEW j \in cands'[r] \cup claimed'[r]
      PROVE  status'[j] = "pending" /\ snap'[r][j] = attempt'[j]
  BY <1>2, <1>5 DEF ClaimInv
<1>6. ASSUME NEW r \in Pollers, pc'[r] = "claim"
      PROVE  seen'[r] = Running' /\ CapsIn(seen[r] \cup claimed[r])'
  BY <1>1, <1>6 DEF ClaimInv, Locking, CapsIn
<1>7. CapsIn(Running)'
  BY <1>1 DEF ClaimInv, CapsIn
<1>8. QED
  BY <1>3, <1>4, <1>5, <1>6, <1>7 DEF ClaimInv

(* A poll step keeps ClaimInv: the claim that reads the counts holds the   *)
(* lock until the rows it took within them are running.                    *)
LEMMA ClaimPollStep ==
  ASSUME Backend = "sqlite", TypeOK, ClaimInv, NEW p \in Pollers, PollStep(p)
  PROVE  ClaimInv'
<1> USE DEF TypeOK, row, poll
<1>0. Running \in SUBSET Jobs
  BY DEF Running
<1>1. CASE PollCount(p)
  BY <1>1, PollerMoves DEF PollCount, ClaimInv, Locking
<1>2. CASE ClaimSelect(p)
  <2>1. \A r \in Pollers : ~Locking(r)
    BY <1>2 DEF ClaimSelect, WriteLocked, Locking
  <2>2. PICK C \in Candidates(2 * limit[p]) :
          /\ cands' = [cands EXCEPT ![p] = C]
          /\ snap' = [snap EXCEPT ![p] = [j \in Jobs |-> IF j \in C THEN attempt[j] ELSE 0]]
    BY <1>2 DEF ClaimSelect
  <2>3. C \in SUBSET Jobs /\ \A j \in C : status[j] = "pending"
    BY DEF Candidates, Eligible
  <2>4. /\ pc' = [pc EXCEPT ![p] = "selected"] /\ pc[p] = "counted"
        /\ UNCHANGED <<status, attempt, seen, claimed>>
    BY <1>2 DEF ClaimSelect
  <2>5. claimed'[p] = {} /\ cands'[p] = C
    BY <2>2, <2>4 DEF ClaimInv
  <2>6. \A j \in cands'[p] \cup claimed'[p] : status'[j] = "pending" /\ snap'[p][j] = attempt'[j]
    BY <2>2, <2>3, <2>4, <2>5
  <2>7. \A r \in Pollers : r # p => ~Locking(r)' /\ pc'[r] = pc[r] /\ claimed'[r] = claimed[r]
    BY <2>1, <2>4 DEF Locking
  <2>8. CapsIn(Running)' /\ pc'[p] = "selected"
    BY <2>4 DEF ClaimInv, CapsIn, Running
  <2>9. \A r \in Pollers : pc'[r] # "claim"
    BY <2>7, <2>8 DEF Locking
  <2>10. QED
    BY <2>4, <2>5, <2>6, <2>7, <2>8, <2>9 DEF ClaimInv
<1>3. CASE ClaimCounts(p)
  <2>1. /\ pc' = [pc EXCEPT ![p] = "claim"] /\ pc[p] = "selected"
        /\ seen' = [seen EXCEPT ![p] = Running]
        /\ UNCHANGED <<status, attempt, cands, snap, claimed>>
    BY <1>3 DEF ClaimCounts
  <2>2. claimed'[p] = {} /\ seen'[p] = Running /\ Running' = Running
    BY <2>1 DEF ClaimInv, Running
  <2>3. seen'[p] \cup claimed'[p] = Running /\ CapsIn(Running)
    BY <2>2 DEF ClaimInv
  <2>4. CapsIn(seen[p] \cup claimed[p])' /\ CapsIn(Running)'
    BY <2>2, <2>3 DEF CapsIn
  <2>5. \A r \in Pollers : r # p => ~Locking(r) /\ ~Locking(r)'
    BY <2>1 DEF ClaimInv, Locking
  <2>6. Locking(p) /\ Locking(p)'
    BY <2>1 DEF Locking
  <2>7. QED
    BY <2>1, <2>2, <2>4, <2>5, <2>6 DEF ClaimInv, Locking
<1>4. ASSUME NEW j \in Jobs, SkipRow(p, j) PROVE ClaimInv'
  BY <1>4, PollerMoves DEF SkipRow, Locking, ClaimInv
<1>5. ASSUME NEW j \in Jobs, TakeRow(p, j) PROVE ClaimInv'
  <2>1. /\ pc[p] = "claim" /\ j \in cands[p] /\ ~Capped(j, p)
        /\ cands' = [cands EXCEPT ![p] = @ \ {j}]
        /\ claimed' = [claimed EXCEPT ![p] = @ \cup {j}]
        /\ UNCHANGED <<status, attempt, pc, snap, seen>>
    BY <1>5 DEF TakeRow, NextCandidate
  <2>2. CapsIn((seen[p] \cup claimed[p]) \cup {j})
    <3>1. CapsIn(seen[p] \cup claimed[p]) /\ seen[p] \cup claimed[p] \in SUBSET Jobs
      BY <2>1 DEF ClaimInv
    <3>2. QED
      BY <2>1, <3>1, CapsGrow DEF Capped
  <2>3. seen'[p] \cup claimed'[p] = (seen[p] \cup claimed[p]) \cup {j}
    BY <2>1
  <2>4. CapsIn(seen[p] \cup claimed[p])' /\ CapsIn(Running)' /\ Running' = Running
    BY <2>1, <2>2, <2>3 DEF CapsIn, ClaimInv, Running
  <2>5. \A r \in Pollers : r # p => ~Locking(r) /\ ~Locking(r)' /\ pc'[r] # "claim" /\ claimed'[r] = claimed[r]
    BY <2>1 DEF ClaimInv, Locking
  <2>6. Locking(p) /\ Locking(p)' /\ pc'[p] = "claim"
    BY <2>1 DEF Locking
  <2>7. \A i \in cands'[p] \cup claimed'[p] : i \in cands[p] \cup claimed[p]
    BY <2>1
  <2>8. \A i \in cands'[p] \cup claimed'[p] : status'[i] = "pending" /\ snap'[p][i] = attempt'[i]
    BY <2>1, <2>6, <2>7 DEF ClaimInv
  <2>9. \A r \in Pollers : pc'[r] = "claim" => seen'[r] = Running' /\ CapsIn(seen[r] \cup claimed[r])'
    BY <2>1, <2>4, <2>5 DEF ClaimInv
  <2>10. \A r \in Pollers : pc'[r] \in {"idle", "counted", "selected"} => claimed'[r] = {}
    BY <2>1, <2>5, <2>6 DEF ClaimInv
  <2>11. QED
    BY <2>4, <2>5, <2>8, <2>9, <2>10 DEF ClaimInv
<1>6. ASSUME NEW j \in Jobs, TakeRowNow(p, j) \/ LoseRow(p, j) PROVE ClaimInv'
  BY <1>6 DEF TakeRowNow, LoseRow
<1>7. CASE ClaimCommit(p)
  <2>1. /\ pc[p] = "claim" /\ pc' = [pc EXCEPT ![p] = "dispatch"]
        /\ status' = [j \in Jobs |-> IF j \in claimed[p] THEN "running" ELSE status[j]]
        /\ UNCHANGED claimed
    BY <1>7 DEF ClaimCommit, ClaimEnds
  <2>2. Running' = seen[p] \cup claimed[p]
    BY <2>1 DEF Running, ClaimInv
  <2>3. CapsIn(Running')
    BY <2>1, <2>2 DEF ClaimInv
  <2>4. \A r \in Pollers : ~Locking(r)' /\ pc'[r] # "claim"
    BY <2>1 DEF ClaimInv, Locking
  <2>5. QED
    BY <2>1, <2>3, <2>4 DEF ClaimInv, Locking, CapsIn
<1>8. CASE ClaimDone(p)
  BY <1>8 DEF ClaimDone
<1>9. ASSUME NEW j \in Jobs, Spawn(p, j) PROVE ClaimInv'
  BY <1>9, PollerMoves DEF Spawn, ClaimInv, Locking
<1>10. ASSUME NEW j \in Jobs, FailUndefined(p, j) PROVE ClaimInv'
  <2>1. /\ pc[p] = "dispatch" /\ UNCHANGED pc
        /\ claimed' = [claimed EXCEPT ![p] = @ \ {j}]
        /\ status' = SetStatus(j, "failed") \/ UNCHANGED status
    BY <1>10 DEF FailUndefined, fail_job
  <2>2. Running' \in SUBSET Running
    BY <2>1 DEF Running, SetStatus
  <2>3. CapsIn(Running')
    BY <1>0, <2>2, CapsShrink DEF ClaimInv
  <2>4. \A r \in Pollers : ~Locking(r)' /\ pc'[r] # "claim"
    BY <1>10, <2>1 DEF FailUndefined, WriteLocked, Locking
  <2>5. QED
    BY <2>1, <2>3, <2>4 DEF ClaimInv, Locking, CapsIn
<1>11. CASE PollEnds(p)
  BY <1>11, PollerMoves DEF PollEnds, ClaimInv, Locking
<1>12. CASE PollFails(p)
  BY <1>12, PollerMoves DEF PollFails, ClaimInv, Locking
<1>13. QED
  BY <1>1, <1>2, <1>3, <1>4, <1>5, <1>6, <1>7, <1>8, <1>9, <1>10, <1>11, <1>12
     DEF PollStep, ClaimStep

(* Every step keeps ClaimInv.                                              *)
LEMMA ClaimInvStep ==
  Backend = "sqlite" /\ TypeOK /\ ClaimInv /\ [Next]_vars => ClaimInv'
<1> SUFFICES ASSUME Backend = "sqlite", TypeOK, ClaimInv, [Next]_vars PROVE ClaimInv'
  OBVIOUS
<1> USE DEF row, poll
<1>1. CASE UNCHANGED vars
  BY <1>1, QuietStep DEF vars, Running
<1>2. ASSUME NEW j \in Jobs, insert_job_with(j) \/ BecomeDue(j) PROVE ClaimInv'
  <2>1. Running' \subseteq Running
    BY <1>2 DEF insert_job_with, BecomeDue, Running, TypeOK
  <2>2. QED
    BY <1>2, <2>1, QuietStep DEF insert_job_with, BecomeDue
<1>3. ASSUME NEW S, cancel_pending_jobs(S) PROVE ClaimInv'
  <2>1. Running' \subseteq Running
    BY <1>3 DEF cancel_pending_jobs, Running, TypeOK
  <2>2. QED
    BY <1>3, <2>1, QuietStep DEF cancel_pending_jobs
<1>4. CASE purge_old_jobs
  <2>1. Running' \subseteq Running
    BY <1>4 DEF purge_old_jobs, Running, TypeOK
  <2>2. QED
    BY <1>4, <2>1, QuietStep DEF purge_old_jobs
<1>5. CASE SecondPasses
  <2>1. Running' \subseteq Running
    BY <1>5 DEF SecondPasses, Running
  <2>2. QED
    BY <1>5, <2>1, QuietStep DEF SecondPasses
<1>6. ASSUME NEW p \in Pollers, PollStep(p) PROVE ClaimInv'
  BY <1>6, ClaimPollStep
<1>7. ASSUME NEW e \in exec, ExecStep(e) PROVE ClaimInv'
  <2>1. CASE HandlerOk(e)
    <3>1. Running' \subseteq Running
      BY <2>1 DEF HandlerOk, complete_job, SetStatus, Running, TypeOK
    <3>2. QED
      BY <2>1, <3>1, QuietStep DEF HandlerOk
  <2>2. CASE HandlerErr(e) \/ HandlerReject(e) \/ Timeout(e)
    <3>1. Running' \subseteq Running
      BY <2>2 DEF HandlerErr, HandlerReject, Timeout, fail_job, SetStatus, Running, TypeOK
    <3>2. QED
      BY <2>2, <3>1, QuietStep DEF HandlerErr, HandlerReject, Timeout
  <2>3. CASE HandlerDies(e) \/ Join(e) \/ update_heartbeat(e)
    <3>1. Running' \subseteq Running
      BY <2>3 DEF HandlerDies, Join, update_heartbeat, Running
    <3>2. QED
      BY <2>3, <3>1, QuietStep DEF HandlerDies, Join, update_heartbeat
  <2>4. QED
    BY <1>7, <2>1, <2>2, <2>3 DEF ExecStep
<1>8. ASSUME NEW n \in Nodes, NodeStep(n) PROVE ClaimInv'
  <2>1. CASE NodeStart(n) \/ NodeReady(n)
    <3>1. Running' \subseteq Running
      BY <2>1 DEF NodeStart, NodeReady, Running
    <3>2. QED
      BY <2>1, <3>1, QuietStep DEF NodeStart, NodeReady
  <2>2. ASSUME NEW j \in Jobs, RecoverMark(n, j) PROVE ClaimInv'
    <3>1. Running' \subseteq Running
      BY <2>2 DEF RecoverMark, mark_stale, SetStatus, Running, TypeOK
    <3>2. QED
      BY <2>2, <3>1, QuietStep DEF RecoverMark
  <2>3. CASE NodeStop(n)
    BY <2>3, PollerMoves DEF NodeStop, ClaimInv, Locking, TypeOK
  <2>4. QED
    BY <1>8, <2>1, <2>2, <2>3 DEF NodeStep
<1>9. QED
  BY <1>1, <1>2, <1>3, <1>4, <1>5, <1>6, <1>7, <1>8 DEF Next

(* The claim invariant holds of every behaviour on SQLite.                 *)
THEOREM ClaimSerialised == Backend = "sqlite" => (Spec => []ClaimInv)
<1> SUFFICES ASSUME Backend = "sqlite" PROVE Spec => []ClaimInv
  OBVIOUS
<1>1. Init => ClaimInv
  <2> SUFFICES ASSUME Init PROVE ClaimInv
    OBVIOUS
  <2>1. Running = {}
    BY DEF Init, Running
  <2>2. CapsIn(Running)
    <3>1. \A s : SlugRows(s, Running) = {} /\ QueueRows(s, Running) = {}
      BY <2>1 DEF SlugRows, QueueRows
    <3>2. \A s : Cardinality(SlugRows(s, Running)) = 0 /\ Cardinality(QueueRows(s, Running)) = 0
      BY <3>1, FS_EmptySet, Zenon
    <3>3. QED
      BY <3>2, ConstantsAssumption DEF CapsIn
  <2>3. QED
    BY <2>2 DEF Init, ClaimInv, Locking
<1>2. QED
  BY <1>1, ClaimInvStep, TypeCorrect, PTL DEF Spec

(* On SQLite no slug ever has more running rows than its cap: the counts   *)
(* claim_pending_jobs reads under the write lock stay true until COMMIT.   *)
THEOREM SlugCapTheorem == Backend = "sqlite" => (Spec => []SlugCapHeld)
<1>1. ClaimInv => SlugCapHeld
  BY DEF ClaimInv, CapsIn, SlugCapHeld
<1>2. QED
  BY <1>1, ClaimSerialised, PTL

(* ... and no queue more than its aggregate cap.                           *)
THEOREM QueueCapTheorem == Backend = "sqlite" => (Spec => []QueueCapHeld)
<1>1. ClaimInv => QueueCapHeld
  BY DEF ClaimInv, CapsIn, QueueCapHeld
<1>2. QED
  BY <1>1, ClaimSerialised, PTL

-----------------------------------------------------------------------------
(* Unique keys                                                             *)

(* A step that makes no row active keeps the keys unique.                  *)
LEMMA NoneActivated ==
  ASSUME UniqueActive, \A j \in Jobs : status'[j] \in Active => status[j] \in Active
  PROVE  UniqueActive'
BY DEF UniqueActive

(* A step that makes one row active without a conflict keeps them unique.  *)
LEMMA OneActivated ==
  ASSUME TypeOK, UniqueActive, NEW j \in Jobs, ~UniqueConflict(j),
         status' = [status EXCEPT ![j] = "pending"]
  PROVE  UniqueActive'
<1>1. \A i \in Jobs \ {j} : status'[i] = status[i]
  BY DEF TypeOK
<1>2. QED
  BY <1>1 DEF UniqueActive, UniqueConflict

(* Whatever attempt it is about, fail_job keeps the keys unique.           *)
LEMMA FailJobKeys ==
  ASSUME TypeOK, UniqueActive, NEW j \in Jobs, NEW a, NEW v,
         NEW retry \in BOOLEAN, fail_job(j, retry, a, v)
  PROVE  UniqueActive'
<1>1. CASE Requeues(j) /\ status' = [status EXCEPT ![j] = "pending"]
  BY <1>1, OneActivated DEF Requeues
<1>2. CASE status' = SetStatus(j, "failed") \/ UNCHANGED status
  <2>1. \A i \in Jobs : status'[i] \in Active => status[i] \in Active
    BY <1>2 DEF SetStatus, TypeOK, Active
  <2>2. QED
    BY <2>1, NoneActivated
<1>3. QED
  BY <1>1, <1>2 DEF fail_job, row

(* Every step keeps the keys unique.                                       *)
LEMMA UniqueStep ==
  /\ TypeOK
  /\ Backend = "sqlite" => ClaimInv
  /\ UniqueActive
  /\ [Next]_vars
  => UniqueActive'
<1> SUFFICES ASSUME TypeOK, Backend = "sqlite" => ClaimInv, UniqueActive, [Next]_vars
             PROVE  UniqueActive'
  OBVIOUS
<1> DEFINE Quiet == \A j \in Jobs : status'[j] \in Active => status[j] \in Active
<1> USE DEF row, poll
<1>1. CASE UNCHANGED vars
  BY <1>1, NoneActivated DEF vars
<1>2. ASSUME NEW j \in Jobs, insert_job_with(j) PROVE UniqueActive'
  BY <1>2, OneActivated DEF insert_job_with
<1>3. ASSUME NEW j \in Jobs, BecomeDue(j) PROVE UniqueActive'
  BY <1>3, NoneActivated DEF BecomeDue
<1>4. ASSUME NEW S, cancel_pending_jobs(S) PROVE UniqueActive'
  <2>1. Quiet
    BY <1>4 DEF cancel_pending_jobs, Active
  <2>2. QED
    BY <2>1, NoneActivated
<1>5. CASE purge_old_jobs
  <2>1. Quiet
    BY <1>5 DEF purge_old_jobs, Active
  <2>2. QED
    BY <2>1, NoneActivated
<1>6. CASE SecondPasses
  BY <1>6, NoneActivated DEF SecondPasses
<1>7. ASSUME NEW p \in Pollers, PollStep(p) PROVE UniqueActive'
  <2>1. CASE \/ PollCount(p) \/ ClaimSelect(p) \/ ClaimCounts(p)
             \/ ClaimDone(p) \/ PollEnds(p) \/ PollFails(p)
    <3>1. UNCHANGED status
      BY <2>1 DEF PollCount, ClaimSelect, ClaimCounts, ClaimDone, PollEnds, PollFails
    <3>2. QED
      BY <3>1, NoneActivated
  <2>2. ASSUME NEW j \in Jobs, SkipRow(p, j) \/ TakeRow(p, j) \/ LoseRow(p, j) \/ Spawn(p, j)
        PROVE  UniqueActive'
    <3>1. UNCHANGED status
      BY <2>2 DEF SkipRow, TakeRow, LoseRow, Spawn
    <3>2. QED
      BY <3>1, NoneActivated
  <2>3. ASSUME NEW j \in Jobs, TakeRowNow(p, j) PROVE UniqueActive'
    <3>1. Quiet
      BY <2>3 DEF TakeRowNow, Active, TypeOK
    <3>2. QED
      BY <3>1, NoneActivated
  <2>4. CASE ClaimCommit(p)
    <3>1. \A j \in claimed[p] : status[j] = "pending"
      BY <2>4 DEF ClaimCommit, ClaimEnds, ClaimInv, Locking
    <3>2. Quiet
      BY <2>4, <3>1 DEF ClaimCommit, Active
    <3>3. QED
      BY <3>2, NoneActivated
  <2>5. ASSUME NEW j \in Jobs, FailUndefined(p, j) PROVE UniqueActive'
    BY <2>5, FailJobKeys DEF FailUndefined
  <2>6. QED
    BY <1>7, <2>1, <2>2, <2>3, <2>4, <2>5 DEF PollStep, ClaimStep
<1>8. ASSUME NEW e \in exec, ExecStep(e) PROVE UniqueActive'
  <2>0. e.job \in Jobs /\ Retry(e) \in BOOLEAN
    BY DEF TypeOK, Execution, Retry
  <2>1. CASE HandlerOk(e)
    <3>1. Quiet
      BY <2>1 DEF HandlerOk, complete_job, SetStatus, Active, TypeOK
    <3>2. QED
      BY <3>1, NoneActivated
  <2>2. CASE HandlerErr(e)
    BY <2>0, <2>2, FailJobKeys DEF HandlerErr
  <2>3. CASE HandlerReject(e)
    BY <2>0, <2>3, FailJobKeys DEF HandlerReject
  <2>4. CASE Timeout(e)
    BY <2>0, <2>4, FailJobKeys DEF Timeout
  <2>5. CASE HandlerDies(e) \/ Join(e) \/ update_heartbeat(e)
    <3>1. UNCHANGED status
      BY <2>5 DEF HandlerDies, Join, update_heartbeat
    <3>2. QED
      BY <3>1, NoneActivated
  <2>6. QED
    BY <1>8, <2>1, <2>2, <2>3, <2>4, <2>5 DEF ExecStep
<1>9. ASSUME NEW n \in Nodes, NodeStep(n) PROVE UniqueActive'
  <2>1. CASE NodeStart(n) \/ NodeReady(n) \/ NodeStop(n)
    <3>1. UNCHANGED status
      BY <2>1 DEF NodeStart, NodeReady, NodeStop
    <3>2. QED
      BY <3>1, NoneActivated
  <2>2. ASSUME NEW j \in Jobs, RecoverMark(n, j) PROVE UniqueActive'
    <3>1. Quiet
      BY <2>2 DEF RecoverMark, mark_stale, SetStatus, Active, TypeOK
    <3>2. QED
      BY <3>1, NoneActivated
  <2>3. QED
    BY <1>9, <2>1, <2>2 DEF NodeStep
<1>10. QED
  BY <1>1, <1>2, <1>3, <1>4, <1>5, <1>6, <1>7, <1>8, <1>9 DEF Next

(* On both backends a (slug, unique_key) pair has at most one active row,  *)
(* whatever late verdict of a replaced row arrives.                        *)
THEOREM UniqueTheorem == Spec => []UniqueActive
<1>1. Init => UniqueActive
  BY DEF Init, UniqueActive, Active
<1>2. CASE Backend = "sqlite"
  <2>1. Spec => []ClaimInv
    BY <1>2, ClaimSerialised
  <2>2. TypeOK /\ ClaimInv /\ UniqueActive /\ [Next]_vars => UniqueActive'
    BY UniqueStep
  <2>3. QED
    BY <1>1, <2>1, <2>2, TypeCorrect, PTL DEF Spec
<1>3. CASE Backend # "sqlite"
  <2>1. TypeOK /\ UniqueActive /\ [Next]_vars => UniqueActive'
    BY <1>3, UniqueStep
  <2>2. QED
    BY <1>1, <2>1, TypeCorrect, PTL DEF Spec
<1>4. QED
  BY <1>2, <1>3

-----------------------------------------------------------------------------
(* How often a job may be attempted on SQLite: AttemptInv is inductive     *)
(* together with TypeOK and ClaimInv.                                      *)

(* The verdicts that can put a row back are 2 * (max - 1).                 *)
LEMMA RequeuedFinite ==
  ASSUME TypeOK, RequeueBounds, NEW j \in Jobs
  PROVE  /\ IsFiniteSet(requeued[j])
         /\ Cardinality(requeued[j]) \in Nat
         /\ Cardinality(requeued[j]) <= 2 * (MaxAttempts[j] - 1)
<1> DEFINE I == 1 .. (MaxAttempts[j] - 1)
<1>1. MaxAttempts[j] - 1 \in Nat
  BY ConstantsAssumption
<1>2. IsFiniteSet(I) /\ Cardinality(I) = MaxAttempts[j] - 1
  BY <1>1, FS_Interval
<1>3. IsFiniteSet(Verdicts) /\ Cardinality(Verdicts) = 2
  <2>1. IsFiniteSet({"handler"}) /\ Cardinality({"handler"}) = 1
    BY FS_Singleton
  <2>2. Verdicts = {"handler"} \cup {"timeout"} /\ "timeout" \notin {"handler"}
    BY DEF Verdicts
  <2>3. QED
    BY <2>1, <2>2, FS_AddElement
<1>4. IsFiniteSet(I \X Verdicts) /\ Cardinality(I \X Verdicts) = (MaxAttempts[j] - 1) * 2
  <2> HIDE DEF I
  <2>1. IsFiniteSet(I \X Verdicts) /\ Cardinality(I \X Verdicts) = Cardinality(I) * Cardinality(Verdicts)
    BY <1>2, <1>3, FS_Product
  <2>2. QED
    BY <1>2, <1>3, <2>1
<1>5. requeued[j] \subseteq I \X Verdicts
  <2>1. requeued[j] \subseteq Nat \X Verdicts
    BY DEF TypeOK
  <2>2. ASSUME NEW x \in requeued[j] PROVE x \in I \X Verdicts
    <3>1. x = <<x[1], x[2]>> /\ x[1] \in Nat /\ x[2] \in Verdicts
      BY <2>1, <2>2
    <3>2. 1 <= x[1] /\ x[1] < MaxAttempts[j]
      BY <2>2 DEF RequeueBounds
    <3>3. x[1] \in I
      BY <3>1, <3>2, ConstantsAssumption
    <3>4. QED
      BY <3>1, <3>3
  <2>3. QED
    BY <2>2
<1>6. QED
  BY <1>1, <1>4, <1>5, FS_Subset, FS_CardinalityType

(* A step that gives no verdict, hands out nothing and at most ends        *)
(* executions or lets them advance keeps AttemptInv.                       *)
LEMMA NoVerdict ==
  ASSUME TypeOK, TypeOK', AttemptInv,
         UNCHANGED <<attempt, requeued>>,
         \A j \in Jobs : status'[j] = "absent" => status[j] = "absent",
         \A j \in Jobs : status'[j] = "pending" => status[j] = "pending" \/ status[j] = "absent",
         \A f \in exec' : \E g \in exec :
             f.job = g.job /\ f.att = g.att /\ (f.st = g.st \/ g.st = "live"),
         OneExecutionPerAttempt',
         \A p \in Pollers, j \in Jobs : ToDispatch(p, j)' => ToDispatch(p, j) /\ snap'[p][j] = snap[p][j]
  PROVE  AttemptInv'
<1>1. FreshRows' /\ RequeueBounds'
  BY DEF AttemptInv, FreshRows, RequeueBounds
<1>2. ExecBounds'
  BY DEF AttemptInv, ExecBounds
<1>3. VerdictsOnce'
  BY DEF AttemptInv, VerdictsOnce
<1>4. \A j \in Jobs : \A a : HandedOut(j, a)' => HandedOut(j, a)
  <2> SUFFICES ASSUME NEW j \in Jobs, NEW a, HandedOut(j, a)' PROVE HandedOut(j, a)
    OBVIOUS
  <2>1. CASE \E f \in exec' : f.job = j /\ f.att = a
    BY <2>1 DEF HandedOut
  <2>2. CASE \E v \in Verdicts : <<a, v>> \in requeued'[j]
    BY <2>2 DEF HandedOut
  <2>3. QED
    BY <2>1, <2>2 DEF HandedOut
<1>5. DispatchFresh'
  <2> SUFFICES ASSUME NEW p \in Pollers, NEW j \in Jobs, ToDispatch(p, j)'
               PROVE  /\ snap'[p][j] + 1 <= attempt'[j]
                      /\ ~HandedOut(j, snap[p][j] + 1)'
                      /\ \A r \in Pollers : ToDispatch(r, j)' /\ snap'[r][j] = snap'[p][j] => r = p
    BY DEF DispatchFresh
  <2>1. ToDispatch(p, j) /\ snap'[p][j] = snap[p][j]
    OBVIOUS
  <2>2. /\ snap[p][j] + 1 <= attempt[j]
        /\ ~HandedOut(j, snap[p][j] + 1)
        /\ \A r \in Pollers : ToDispatch(r, j) /\ snap[r][j] = snap[p][j] => r = p
    BY <2>1 DEF AttemptInv, DispatchFresh
  <2>3. ~HandedOut(j, snap[p][j] + 1)'
    BY <1>4, <2>1, <2>2
  <2>4. QED
    BY <2>1, <2>2, <2>3
<1>6. ClaimsPaid'
  <2> SUFFICES ASSUME NEW j \in Jobs
               PROVE  attempt'[j] + Pending(j)' <= 1 + Cardinality(requeued'[j])
    BY DEF ClaimsPaid
  <2>1. /\ attempt'[j] = attempt[j] /\ attempt[j] \in Nat /\ requeued'[j] = requeued[j]
        /\ Cardinality(requeued[j]) \in Nat
        /\ attempt[j] + Pending(j) <= 1 + Cardinality(requeued[j])
        /\ status[j] = "absent" => attempt[j] = 0
    BY RequeuedFinite DEF AttemptInv, ClaimsPaid, FreshRows, TypeOK
  <2>2. QED
    BY <2>1 DEF Pending
<1>7. QED
  BY <1>1, <1>2, <1>3, <1>5, <1>6 DEF AttemptInv

(* Ending or advancing one execution duplicates none.                      *)
LEMMA OneMoves ==
  ASSUME TypeOK, AttemptInv, NEW e \in exec, NEW st,
         Move(e, st) \/ Finish(e)
  PROVE  OneExecutionPerAttempt'
BY DEF TypeOK, AttemptInv, OneExecutionPerAttempt, Execution, Move, Finish

(* A verdict v of execution e keeps AttemptInv, whether or not it puts the *)
(* row back.                                                               *)
LEMMA VerdictStep ==
  ASSUME TypeOK, TypeOK', AttemptInv, NEW e \in exec, NEW v \in Verdicts,
         NEW retry \in BOOLEAN, retry => Retry(e),
         fail_job(e.job, retry, e.att, v),
         v = "timeout" => /\ e.st \in {"live", "wrote"}
                          /\ IF e.st = "live" THEN Move(e, "zombie") ELSE Finish(e),
         v = "handler" => /\ e.st \in {"live", "zombie"}
                          /\ AfterWrite(e),
         UNCHANGED <<pc, claimed, snap>>
  PROVE  AttemptInv'
<1>0. e.job \in Jobs /\ e.att \in Nat /\ e.st \in {"live", "wrote", "zombie"}
  BY DEF TypeOK, Execution
<1>1. \E st : Move(e, st) \/ Finish(e)
  BY DEF AfterWrite, Verdicts
<1>2. OneExecutionPerAttempt'
  BY <1>1, OneMoves
<1>3. \A f \in exec' : \/ f \in exec /\ f # e
                       \/ /\ f.job = e.job /\ f.att = e.att /\ e.st = "live"
                          /\ v = "timeout" => f.st = "zombie"
                          /\ v = "handler" => f.st = "wrote"
  BY <1>0 DEF AfterWrite, Move, Finish, Verdicts
<1>4. \A p \in Pollers, j \in Jobs : ToDispatch(p, j)' => ToDispatch(p, j) /\ snap'[p][j] = snap[p][j]
  BY DEF ToDispatch
<1>5. CASE /\ retry
           /\ status' = [status EXCEPT ![e.job] = "pending"]
           /\ requeued' = [requeued EXCEPT ![e.job] = @ \cup {<<e.att, v>>}]
           /\ UNCHANGED attempt
  <2>1. /\ status' = [status EXCEPT ![e.job] = "pending"]
        /\ requeued' = [requeued EXCEPT ![e.job] = @ \cup {<<e.att, v>>}]
        /\ UNCHANGED attempt
    BY <1>5
  <2>2. <<e.att, v>> \notin requeued[e.job]
    BY DEF AttemptInv, VerdictsOnce, Verdicts
  <2>3. FreshRows'
    BY <2>1 DEF AttemptInv, FreshRows, TypeOK
  <2>4. ExecBounds'
    BY <1>3, <2>1 DEF AttemptInv, ExecBounds
  <2>5. RequeueBounds'
    <3> SUFFICES ASSUME NEW j \in Jobs, NEW x \in requeued'[j]
                 PROVE  1 <= x[1] /\ x[1] <= attempt'[j] /\ x[1] < MaxAttempts[j]
      BY DEF RequeueBounds
    <3>1. CASE x \in requeued[j]
      BY <2>1, <3>1 DEF AttemptInv, RequeueBounds
    <3>2. CASE x \notin requeued[j]
      <4>1. j = e.job /\ x = <<e.att, v>>
        BY <2>1, <3>2 DEF TypeOK
      <4>2. x[1] = e.att
        BY <4>1
      <4>3. QED
        BY <1>0, <1>5, <2>1, <4>1, <4>2 DEF AttemptInv, ExecBounds, Retry
    <3>3. QED
      BY <3>1, <3>2
  <2>6. VerdictsOnce'
    <3> SUFFICES ASSUME NEW f \in exec'
                 PROVE  /\ f.st \in {"live", "wrote"} => <<f.att, "timeout">> \notin requeued'[f.job]
                        /\ f.st \in {"live", "zombie"} => <<f.att, "handler">> \notin requeued'[f.job]
      BY DEF VerdictsOnce
    <3>1. CASE f \in exec /\ f # e
      <4>1. f.job \in Jobs /\ ~(f.job = e.job /\ f.att = e.att)
        BY <3>1 DEF AttemptInv, OneExecutionPerAttempt, TypeOK, Execution
      <4>2. \A w : <<f.att, w>> \in requeued'[f.job] => <<f.att, w>> \in requeued[f.job]
        BY <2>1, <4>1 DEF TypeOK
      <4>3. QED
        BY <3>1, <4>2 DEF AttemptInv, VerdictsOnce
    <3>2. CASE ~(f \in exec /\ f # e)
      <4>1. /\ f.job = e.job /\ f.att = e.att /\ e.st = "live"
            /\ v = "timeout" => f.st = "zombie"
            /\ v = "handler" => f.st = "wrote"
        BY <1>3, <3>2
      <4>2. \A w : w # v => (<<f.att, w>> \in requeued'[f.job] <=> <<f.att, w>> \in requeued[f.job])
        BY <1>0, <2>1, <4>1 DEF TypeOK
      <4>3. <<e.att, "timeout">> \notin requeued[e.job] /\ <<e.att, "handler">> \notin requeued[e.job]
        BY <4>1 DEF AttemptInv, VerdictsOnce
      <4>4. QED
        BY <4>1, <4>2, <4>3 DEF Verdicts
    <3>3. QED
      BY <3>1, <3>2
  <2>7. ASSUME NEW p \in Pollers, NEW j \in Jobs, ToDispatch(p, j)
        PROVE  ~HandedOut(j, snap[p][j] + 1)'
    <3>1. ~HandedOut(j, snap[p][j] + 1) /\ snap'[p][j] = snap[p][j]
      BY <2>7 DEF AttemptInv, DispatchFresh
    <3>2. ~(j = e.job /\ snap[p][j] + 1 = e.att)
      BY <3>1 DEF HandedOut
    <3>3. \A w : <<snap[p][j] + 1, w>> \in requeued'[j] => <<snap[p][j] + 1, w>> \in requeued[j]
      BY <2>1, <3>2 DEF TypeOK
    <3>4. ~\E f \in exec' : f.job = j /\ f.att = snap[p][j] + 1
      BY <1>3, <3>1 DEF HandedOut
    <3>5. QED
      BY <3>1, <3>3, <3>4 DEF HandedOut
  <2>8. DispatchFresh'
    BY <1>4, <2>1, <2>7 DEF AttemptInv, DispatchFresh
  <2>9. ClaimsPaid'
    <3> SUFFICES ASSUME NEW j \in Jobs
                 PROVE  attempt'[j] + Pending(j)' <= 1 + Cardinality(requeued'[j])
      BY DEF ClaimsPaid
    <3>1. /\ attempt'[j] = attempt[j] /\ attempt[j] \in Nat
          /\ IsFiniteSet(requeued[j]) /\ Cardinality(requeued[j]) \in Nat
          /\ attempt[j] + Pending(j) <= 1 + Cardinality(requeued[j])
      BY <2>1, RequeuedFinite DEF AttemptInv, ClaimsPaid, TypeOK
    <3>2. CASE j = e.job
      <4>1. requeued'[j] = requeued[j] \cup {<<e.att, v>>}
        BY <2>1, <3>2 DEF TypeOK
      <4>2. Cardinality(requeued[j] \cup {<<e.att, v>>}) = Cardinality(requeued[j]) + 1
        BY <2>2, <3>1, <3>2, FS_AddElement
      <4>3. Cardinality(requeued'[j]) = Cardinality(requeued[j]) + 1
        BY <4>1, <4>2, Zenon
      <4>4. QED
        BY <3>1, <4>3 DEF Pending
    <3>3. CASE j # e.job
      BY <2>1, <3>1, <3>3 DEF Pending, TypeOK
    <3>4. QED
      BY <3>2, <3>3
  <2>10. QED
    BY <1>2, <2>3, <2>4, <2>5, <2>6, <2>8, <2>9 DEF AttemptInv
<1>6. CASE /\ UNCHANGED <<attempt, requeued>>
           /\ status' = SetStatus(e.job, "failed") \/ UNCHANGED status
  <2>1. /\ UNCHANGED <<attempt, requeued>>
        /\ \A j \in Jobs : status'[j] = "absent" => status[j] = "absent"
        /\ \A j \in Jobs : status'[j] = "pending" => status[j] = "pending"
    BY <1>0, <1>6 DEF SetStatus, TypeOK
  <2>2. \A f \in exec' : \E g \in exec :
          f.job = g.job /\ f.att = g.att /\ (f.st = g.st \/ g.st = "live")
    BY <1>3
  <2>3. QED
    BY <1>2, <1>4, <2>1, <2>2, NoVerdict
<1>7. QED
  BY <1>5, <1>6 DEF fail_job, row

(* Committing a claim hands out attempt numbers nobody has used.           *)
LEMMA CommitStep ==
  ASSUME Backend = "sqlite", TypeOK, TypeOK', ClaimInv, AttemptInv,
         NEW p \in Pollers, ClaimCommit(p)
  PROVE  AttemptInv'
<1>1. /\ pc[p] = "claim" /\ pc' = [pc EXCEPT ![p] = "dispatch"]
      /\ status' = [j \in Jobs |-> IF j \in claimed[p] THEN "running" ELSE status[j]]
      /\ attempt' = [j \in Jobs |-> IF j \in claimed[p] THEN attempt[j] + 1 ELSE attempt[j]]
      /\ UNCHANGED <<claimed, snap, exec, requeued>>
  BY DEF ClaimCommit, ClaimEnds
<1>2. \A j \in claimed[p] : j \in Jobs /\ status[j] = "pending" /\ snap[p][j] = attempt[j]
  BY <1>1 DEF ClaimInv, Locking, TypeOK
<1>3. \A j \in Jobs : attempt[j] \in Nat /\ attempt'[j] \in Nat /\ attempt[j] <= attempt'[j]
  BY <1>1 DEF TypeOK
<1>4. FreshRows'
  BY <1>1 DEF AttemptInv, FreshRows
<1>5. ExecBounds' /\ VerdictsOnce' /\ OneExecutionPerAttempt'
  <2>1. ASSUME NEW e \in exec PROVE 1 <= e.att /\ e.att <= attempt'[e.job]
    <3>1. e.job \in Jobs /\ e.att \in Nat
      BY DEF TypeOK, Execution
    <3>2. 1 <= e.att /\ e.att <= attempt[e.job]
      BY DEF AttemptInv, ExecBounds
    <3>3. QED
      BY <1>3, <3>1, <3>2
  <2>2. QED
    BY <1>1, <2>1 DEF AttemptInv, ExecBounds, VerdictsOnce, OneExecutionPerAttempt
<1>6. RequeueBounds'
  <2> SUFFICES ASSUME NEW j \in Jobs, NEW x \in requeued[j]
               PROVE  1 <= x[1] /\ x[1] <= attempt'[j] /\ x[1] < MaxAttempts[j]
    BY <1>1 DEF RequeueBounds
  <2>1. x[1] \in Nat /\ 1 <= x[1] /\ x[1] <= attempt[j] /\ x[1] < MaxAttempts[j]
    BY DEF AttemptInv, RequeueBounds, TypeOK
  <2>2. QED
    BY <1>3, <2>1
<1>7. ASSUME NEW j \in Jobs, NEW a \in Nat, a > attempt[j] PROVE ~HandedOut(j, a)
  <2>1. ~\E e \in exec : e.job = j /\ e.att = a
    BY <1>3, <1>7 DEF AttemptInv, ExecBounds
  <2>2. ASSUME NEW v \in Verdicts, <<a, v>> \in requeued[j] PROVE FALSE
    <3>1. <<a, v>>[1] <= attempt[j]
      BY <2>2 DEF AttemptInv, RequeueBounds
    <3>2. QED
      BY <1>3, <1>7, <3>1
  <2>3. QED
    BY <2>1, <2>2 DEF HandedOut
<1>8. \A j \in Jobs : \A a : HandedOut(j, a)' <=> HandedOut(j, a)
  BY <1>1 DEF HandedOut
<1>9. \A r \in Pollers : r # p => \A j \in Jobs : ToDispatch(r, j)' <=> ToDispatch(r, j)
  BY <1>1 DEF ToDispatch, TypeOK
<1>10. \A j \in Jobs : ToDispatch(p, j)' <=> j \in claimed[p]
  BY <1>1 DEF ToDispatch, TypeOK
<1>11. DispatchFresh'
  <2> SUFFICES ASSUME NEW r \in Pollers, NEW j \in Jobs, ToDispatch(r, j)'
               PROVE  /\ snap[r][j] + 1 <= attempt'[j]
                      /\ ~HandedOut(j, snap[r][j] + 1)
                      /\ \A t \in Pollers : ToDispatch(t, j)' /\ snap[t][j] = snap[r][j] => t = r
    BY <1>1, <1>8 DEF DispatchFresh
  <2>0. \A t \in Pollers : snap[t][j] \in Nat
    BY DEF TypeOK
  <2>1. \A t \in Pollers : t # p /\ ToDispatch(t, j)' =>
          /\ snap[t][j] + 1 <= attempt[j]
          /\ ~HandedOut(j, snap[t][j] + 1)
          /\ \A u \in Pollers : u # p /\ ToDispatch(u, j)' /\ snap[u][j] = snap[t][j] => u = t
    BY <1>9 DEF AttemptInv, DispatchFresh
  <2>2. ToDispatch(p, j)' => /\ snap[p][j] = attempt[j] /\ attempt'[j] = attempt[j] + 1
    BY <1>1, <1>2, <1>10
  <2>3. ToDispatch(p, j)' => ~HandedOut(j, snap[p][j] + 1)
    BY <1>3, <1>7, <2>2
  <2>4. CASE r = p
    BY <1>3, <2>0, <2>1, <2>2, <2>3, <2>4
  <2>5. CASE r # p
    BY <1>3, <2>0, <2>1, <2>2, <2>5
  <2>6. QED
    BY <2>4, <2>5
<1>12. ClaimsPaid'
  <2> SUFFICES ASSUME NEW j \in Jobs
               PROVE  attempt'[j] + Pending(j)' <= 1 + Cardinality(requeued[j])
    BY <1>1 DEF ClaimsPaid
  <2>1. /\ Cardinality(requeued[j]) \in Nat
        /\ attempt[j] + Pending(j) <= 1 + Cardinality(requeued[j])
    BY RequeuedFinite DEF AttemptInv, ClaimsPaid
  <2>2. CASE j \in claimed[p]
    BY <1>1, <1>2, <1>3, <2>1, <2>2 DEF Pending
  <2>3. CASE j \notin claimed[p]
    BY <1>1, <1>3, <2>1, <2>3 DEF Pending
  <2>4. QED
    BY <2>2, <2>3
<1>13. QED
  BY <1>4, <1>5, <1>6, <1>11, <1>12 DEF AttemptInv

(* Starting the execution of a claimed row.                                *)
LEMMA SpawnStep ==
  ASSUME TypeOK, TypeOK', AttemptInv, NEW p \in Pollers, NEW j \in Jobs, Spawn(p, j)
  PROVE  AttemptInv'
<1> DEFINE a == snap[p][j] + 1
           n == [job |-> j, att |-> a, node |-> Home[p], st |-> "live"]
<1>1. /\ pc[p] = "dispatch" /\ j \in claimed[p]
      /\ claimed' = [claimed EXCEPT ![p] = @ \ {j}]
      /\ exec' = exec \cup {n}
      /\ UNCHANGED <<status, attempt, pc, snap, requeued>>
  BY DEF Spawn, row
<1>2. /\ snap[p][j] \in Nat /\ attempt[j] \in Nat
      /\ ToDispatch(p, j) /\ a <= attempt[j] /\ ~HandedOut(j, a)
      /\ \A r \in Pollers : ToDispatch(r, j) /\ snap[r][j] = snap[p][j] => r = p
  BY <1>1 DEF AttemptInv, DispatchFresh, ToDispatch, TypeOK
<1>3. \A e \in exec : ~(e.job = j /\ e.att = a)
  BY <1>2 DEF HandedOut
<1>4. OneExecutionPerAttempt' /\ ExecBounds'
  BY <1>1, <1>2, <1>3 DEF AttemptInv, OneExecutionPerAttempt, ExecBounds
<1>5. VerdictsOnce'
  <2>1. \A v \in Verdicts : <<a, v>> \notin requeued[j]
    BY <1>2 DEF HandedOut
  <2>2. <<n.att, "timeout">> \notin requeued[n.job] /\ <<n.att, "handler">> \notin requeued[n.job]
    BY <2>1 DEF Verdicts
  <2>3. QED
    BY <1>1, <2>2 DEF AttemptInv, VerdictsOnce
<1>6. FreshRows' /\ RequeueBounds' /\ ClaimsPaid'
  BY <1>1 DEF AttemptInv, FreshRows, RequeueBounds, ClaimsPaid, Pending
<1>7. DispatchFresh'
  <2> SUFFICES ASSUME NEW r \in Pollers, NEW i \in Jobs, ToDispatch(r, i)'
               PROVE  /\ snap[r][i] + 1 <= attempt[i]
                      /\ ~HandedOut(i, snap[r][i] + 1)'
                      /\ \A t \in Pollers : ToDispatch(t, i)' /\ snap[t][i] = snap[r][i] => t = r
    BY <1>1 DEF DispatchFresh
  <2>1. \A t \in Pollers : ToDispatch(t, i)' => ToDispatch(t, i) /\ ~(t = p /\ i = j)
    BY <1>1 DEF ToDispatch, TypeOK
  <2>2. /\ snap[r][i] + 1 <= attempt[i]
        /\ ~HandedOut(i, snap[r][i] + 1)
        /\ \A t \in Pollers : ToDispatch(t, i) /\ snap[t][i] = snap[r][i] => t = r
    BY <2>1 DEF AttemptInv, DispatchFresh
  <2>3. ~(i = j /\ snap[r][i] + 1 = a)
    <3>1. snap[r][i] \in Nat
      BY DEF TypeOK
    <3>2. QED
      BY <1>2, <2>1, <3>1
  <2>4. ~HandedOut(i, snap[r][i] + 1)'
    BY <1>1, <2>2, <2>3 DEF HandedOut
  <2>5. QED
    BY <2>1, <2>2, <2>4
<1>8. QED
  BY <1>4, <1>5, <1>6, <1>7 DEF AttemptInv

(* Every step keeps AttemptInv.                                            *)
LEMMA AttemptStep ==
  /\ Backend = "sqlite"
  /\ TypeOK /\ ClaimInv /\ AttemptInv
  /\ [Next]_vars
  => AttemptInv'
<1> SUFFICES ASSUME Backend = "sqlite", TypeOK, ClaimInv, AttemptInv, [Next]_vars
             PROVE  AttemptInv'
  OBVIOUS
<1>0. TypeOK'
  BY TypeStep
<1> USE DEF row, poll
<1> DEFINE KeepRows == /\ UNCHANGED <<attempt, requeued>>
                       /\ \A j \in Jobs : status'[j] = "absent" => status[j] = "absent"
                       /\ \A j \in Jobs : status'[j] = "pending" =>
                             status[j] = "pending" \/ status[j] = "absent"
           KeepExec == /\ \A f \in exec' : \E g \in exec :
                             f.job = g.job /\ f.att = g.att /\ (f.st = g.st \/ g.st = "live")
                       /\ OneExecutionPerAttempt'
           KeepPoll == \A p \in Pollers, j \in Jobs : ToDispatch(p, j)' =>
                             ToDispatch(p, j) /\ snap'[p][j] = snap[p][j]
<1>a. ASSUME KeepRows, KeepExec, KeepPoll PROVE AttemptInv'
  BY <1>0, <1>a, NoVerdict
<1>b. ASSUME exec' \subseteq exec PROVE KeepExec
  BY <1>b DEF AttemptInv, OneExecutionPerAttempt
<1>c. ASSUME UNCHANGED <<pc, snap, claimed>> PROVE KeepPoll
  BY <1>c DEF ToDispatch
<1>1. CASE UNCHANGED vars
  BY <1>1, <1>a, <1>b, <1>c DEF vars
<1>2. ASSUME NEW j \in Jobs, insert_job_with(j) \/ BecomeDue(j) PROVE AttemptInv'
  <2>1. KeepRows
    BY <1>2 DEF insert_job_with, BecomeDue, TypeOK
  <2>2. QED
    BY <1>2, <2>1, <1>a, <1>b, <1>c DEF insert_job_with, BecomeDue
<1>3. ASSUME NEW S, cancel_pending_jobs(S) PROVE AttemptInv'
  <2>1. KeepRows
    BY <1>3 DEF cancel_pending_jobs
  <2>2. QED
    BY <1>3, <2>1, <1>a, <1>b, <1>c DEF cancel_pending_jobs
<1>4. CASE purge_old_jobs
  <2>1. KeepRows
    BY <1>4 DEF purge_old_jobs
  <2>2. QED
    BY <1>4, <2>1, <1>a, <1>b, <1>c DEF purge_old_jobs
<1>5. CASE SecondPasses
  BY <1>5, <1>a, <1>b, <1>c DEF SecondPasses
<1>6. ASSUME NEW p \in Pollers, PollStep(p) PROVE AttemptInv'
  <2>1. CASE PollCount(p) \/ ClaimSelect(p) \/ ClaimCounts(p) \/ PollEnds(p) \/ PollFails(p)
    <3>1. KeepRows /\ exec' = exec
      BY <2>1 DEF PollCount, ClaimSelect, ClaimCounts, PollEnds, PollFails
    <3>2. KeepPoll
      BY <2>1 DEF PollCount, ClaimSelect, ClaimCounts, PollEnds, PollFails, ToDispatch, TypeOK
    <3>3. QED
      BY <3>1, <3>2, <1>a, <1>b
  <2>2. ASSUME NEW j \in Jobs, SkipRow(p, j) \/ TakeRow(p, j) PROVE AttemptInv'
    <3>1. KeepRows /\ exec' = exec
      BY <2>2 DEF SkipRow, TakeRow
    <3>2. KeepPoll
      BY <2>2 DEF SkipRow, TakeRow, NextCandidate, ToDispatch, TypeOK
    <3>3. QED
      BY <3>1, <3>2, <1>a, <1>b
  <2>3. ASSUME NEW j \in Jobs, TakeRowNow(p, j) \/ LoseRow(p, j) PROVE AttemptInv'
    BY <2>3 DEF TakeRowNow, LoseRow
  <2>4. CASE ClaimCommit(p)
    BY <1>0, <2>4, CommitStep
  <2>5. CASE ClaimDone(p)
    BY <2>5 DEF ClaimDone
  <2>6. ASSUME NEW j \in Jobs, Spawn(p, j) PROVE AttemptInv'
    BY <1>0, <2>6, SpawnStep
  <2>7. ASSUME NEW j \in Jobs, FailUndefined(p, j) PROVE AttemptInv'
    <3>1. KeepRows /\ exec' = exec
      BY <2>7 DEF FailUndefined, fail_job, SetStatus, TypeOK
    <3>2. KeepPoll
      BY <2>7 DEF FailUndefined, ToDispatch, TypeOK
    <3>3. QED
      BY <3>1, <3>2, <1>a, <1>b
  <2>8. QED
    BY <1>6, <2>1, <2>2, <2>3, <2>4, <2>5, <2>6, <2>7 DEF PollStep, ClaimStep
<1>7. ASSUME NEW e \in exec, ExecStep(e) PROVE AttemptInv'
  <2>0. e.job \in Jobs /\ Retry(e) \in BOOLEAN /\ e.st \in {"live", "wrote", "zombie"}
    BY DEF TypeOK, Execution, Retry
  <2>1. CASE HandlerOk(e)
    <3>1. KeepRows
      BY <2>1 DEF HandlerOk, complete_job, SetStatus, TypeOK
    <3>2. \E st : Move(e, st) \/ Finish(e)
      BY <2>1 DEF HandlerOk, AfterWrite
    <3>3. OneExecutionPerAttempt'
      BY <3>2, OneMoves
    <3>4. KeepExec
      BY <2>0, <2>1, <3>3 DEF HandlerOk, AfterWrite, Move, Finish
    <3>5. QED
      BY <2>1, <3>1, <3>4, <1>a, <1>c DEF HandlerOk
  <2>2. CASE HandlerErr(e)
    BY <1>0, <2>0, <2>2, VerdictStep DEF HandlerErr, Verdicts
  <2>3. CASE HandlerReject(e)
    BY <1>0, <2>0, <2>3, VerdictStep DEF HandlerReject, Verdicts
  <2>4. CASE Timeout(e)
    BY <1>0, <2>0, <2>4, VerdictStep DEF Timeout, Verdicts
  <2>5. CASE HandlerDies(e) \/ Join(e) \/ update_heartbeat(e)
    <3>1. KeepRows /\ exec' \subseteq exec /\ UNCHANGED <<pc, snap, claimed>>
      BY <2>5 DEF HandlerDies, Join, update_heartbeat, Finish
    <3>2. QED
      BY <3>1, <1>a, <1>b, <1>c
  <2>6. QED
    BY <1>7, <2>1, <2>2, <2>3, <2>4, <2>5 DEF ExecStep
<1>8. ASSUME NEW n \in Nodes, NodeStep(n) PROVE AttemptInv'
  <2>1. CASE NodeStart(n) \/ NodeReady(n)
    BY <2>1, <1>a, <1>b, <1>c DEF NodeStart, NodeReady
  <2>2. ASSUME NEW j \in Jobs, RecoverMark(n, j) PROVE AttemptInv'
    <3>1. KeepRows
      BY <2>2 DEF RecoverMark, mark_stale, SetStatus, TypeOK
    <3>2. QED
      BY <2>2, <3>1, <1>a, <1>b, <1>c DEF RecoverMark
  <2>3. CASE NodeStop(n)
    <3>1. KeepRows /\ exec' \subseteq exec
      BY <2>3 DEF NodeStop
    <3>2. KeepPoll
      BY <2>3 DEF NodeStop, ToDispatch, TypeOK
    <3>3. QED
      BY <3>1, <3>2, <1>a, <1>b
  <2>4. QED
    BY <1>8, <2>1, <2>2, <2>3 DEF NodeStep
<1>9. QED
  BY <1>1, <1>2, <1>3, <1>4, <1>5, <1>6, <1>7, <1>8 DEF Next

(* AttemptInv holds of every behaviour on SQLite.                          *)
THEOREM AttemptsAccounted == Backend = "sqlite" => (Spec => []AttemptInv)
<1> SUFFICES ASSUME Backend = "sqlite" PROVE Spec => []AttemptInv
  OBVIOUS
<1>1. Init => AttemptInv
  <2> SUFFICES ASSUME Init PROVE AttemptInv
    OBVIOUS
  <2>1. ClaimsPaid
    <3>1. Cardinality({}) = 0
      BY FS_EmptySet
    <3>2. \A j \in Jobs : requeued[j] = {} /\ attempt[j] = 0 /\ Pending(j) = 0
      BY DEF Init, Pending
    <3>3. \A j \in Jobs : Cardinality(requeued[j]) = 0
      BY <3>1, <3>2
    <3>4. QED
      BY <3>2, <3>3 DEF ClaimsPaid
  <2>2. QED
    BY <2>1 DEF Init, AttemptInv, FreshRows, ExecBounds, OneExecutionPerAttempt,
                RequeueBounds, VerdictsOnce, DispatchFresh, ToDispatch
<1>2. Spec => []ClaimInv
  BY ClaimSerialised
<1>3. TypeOK /\ ClaimInv /\ AttemptInv /\ [Next]_vars => AttemptInv'
  BY AttemptStep
<1>4. QED
  BY <1>1, <1>2, <1>3, TypeCorrect, PTL DEF Spec

(* On SQLite no attempt number is executed twice, however polls overlap.   *)
THEOREM OneExecutionTheorem == Backend = "sqlite" => (Spec => []OneExecutionPerAttempt)
<1>1. AttemptInv => OneExecutionPerAttempt
  BY DEF AttemptInv
<1>2. QED
  BY <1>1, AttemptsAccounted, PTL

(* On SQLite a job is attempted fewer than 2 * max_attempts times: only    *)
(* the timeout and the late failure of an attempt below the maximum put    *)
(* the row back.                                                           *)
THEOREM RetryBudgetTheorem == Backend = "sqlite" => (Spec => []RetryBudget)
<1>1. TypeOK /\ AttemptInv => RetryBudget
  <2> SUFFICES ASSUME TypeOK, AttemptInv, NEW j \in Jobs
               PROVE  attempt[j] <= 2 * MaxAttempts[j] - 1
    BY DEF RetryBudget
  <2>1. /\ Cardinality(requeued[j]) \in Nat
        /\ Cardinality(requeued[j]) <= 2 * (MaxAttempts[j] - 1)
    BY RequeuedFinite DEF AttemptInv
  <2>2. attempt[j] + Pending(j) <= 1 + Cardinality(requeued[j]) /\ Pending(j) \in {0, 1}
    BY DEF AttemptInv, ClaimsPaid, Pending
  <2>3. attempt[j] \in Nat /\ MaxAttempts[j] \in Nat
    BY ConstantsAssumption DEF TypeOK
  <2>4. QED
    BY <2>1, <2>2, <2>3
<1>2. QED
  BY <1>1, TypeCorrect, AttemptsAccounted, PTL

-----------------------------------------------------------------------------
(* Who takes a row out of "running"                                        *)

(* The execution of the row's current attempt is alive, or about to be     *)
(* started by the poll that claimed it.                                    *)
Owned(j) ==
    \/ \E e \in exec : e.job = j /\ e.att = attempt[j] /\ e.st = "live"
    \/ \E p \in Pollers : ToDispatch(p, j) /\ snap[p][j] + 1 = attempt[j]

OwnInv == \A j \in Running : Owned(j)

(* A step that starts no attempt, and ends one only by taking its row out  *)
(* of "running", keeps every running row owned.                            *)
LEMMA OwnersKept ==
  ASSUME OwnInv, UNCHANGED attempt, Running' \subseteq Running,
         \A e \in exec : e.st = "live" /\ e.job \in Running' => e \in exec',
         \A p \in Pollers, j \in Jobs : ToDispatch(p, j) /\ j \in Running' =>
             ToDispatch(p, j)' /\ snap'[p][j] = snap[p][j]
  PROVE  OwnInv'
<1> SUFFICES ASSUME NEW j \in Running' PROVE Owned(j)'
  BY DEF OwnInv
<1>1. Owned(j) /\ j \in Jobs
  BY DEF OwnInv, Running
<1>2. CASE \E e \in exec : e.job = j /\ e.att = attempt[j] /\ e.st = "live"
  BY <1>2 DEF Owned
<1>3. CASE \E p \in Pollers : ToDispatch(p, j) /\ snap[p][j] + 1 = attempt[j]
  BY <1>1, <1>3 DEF Owned
<1>4. QED
  BY <1>1, <1>2, <1>3 DEF Owned

(* A verdict that reaches the table takes its row out of "running": the    *)
(* unique index cannot refuse to requeue a row that is active already.     *)
LEMMA VerdictEnds ==
  ASSUME Backend = "sqlite", "db" \notin Faults, TypeOK, UniqueActive,
         NEW j \in Jobs, NEW a, NEW v, NEW retry \in BOOLEAN, fail_job(j, retry, a, v)
  PROVE  UNCHANGED attempt /\ Running' \subseteq Running /\ j \notin Running'
<1>1. CASE ~retry
  BY <1>1 DEF fail_job, SetStatus, RowStates, Active, Running, TypeOK
<1>2. CASE retry /\ Requeues(j)
  BY <1>2 DEF fail_job, Running, TypeOK
<1>3. CASE retry /\ ~Requeues(j)
  <2>1. UNCHANGED <<status, attempt>>
    BY <1>3 DEF fail_job, row
  <2>2. status[j] # "running"
    <3>1. SUFFICES ASSUME status[j] = "running" PROVE FALSE
      OBVIOUS
    <3>2. UniqueConflict(j)
      BY <1>3, <3>1 DEF Requeues, RowStates, Active
    <3>3. QED
      BY <3>1, <3>2 DEF UniqueConflict, UniqueActive, Active
  <2>3. QED
    BY <2>1, <2>2 DEF Running
<1>4. QED
  BY <1>1, <1>2, <1>3

(* Every step keeps the running rows owned, while no fault but a timeout   *)
(* happens.                                                                *)
LEMMA OwnStep ==
  /\ Backend = "sqlite" /\ Faults \subseteq {"timeout"}
  /\ TypeOK /\ ClaimInv /\ UniqueActive /\ OwnInv
  /\ [Next]_vars
  => OwnInv'
<1> SUFFICES ASSUME Backend = "sqlite", Faults \subseteq {"timeout"},
                    TypeOK, ClaimInv, UniqueActive, OwnInv, [Next]_vars
             PROVE  OwnInv'
  OBVIOUS
<1>0. "db" \notin Faults /\ "panic" \notin Faults /\ "stop" \notin Faults
  OBVIOUS
<1> USE DEF row, poll
<1> DEFINE KeepRows == UNCHANGED attempt /\ Running' \subseteq Running
           KeepPoll == \A p \in Pollers, j \in Jobs : ToDispatch(p, j) /\ j \in Running' =>
                           ToDispatch(p, j)' /\ snap'[p][j] = snap[p][j]
<1>a. ASSUME KeepRows, KeepPoll, exec' = exec PROVE OwnInv'
  BY <1>a, OwnersKept
<1>b. ASSUME UNCHANGED <<pc, snap, claimed>> PROVE KeepPoll
  BY <1>b DEF ToDispatch
<1>1. CASE UNCHANGED vars
  BY <1>1, <1>a, <1>b DEF vars, Running
<1>2. ASSUME NEW j \in Jobs, insert_job_with(j) \/ BecomeDue(j) PROVE OwnInv'
  <2>1. KeepRows
    BY <1>2 DEF insert_job_with, BecomeDue, Running, TypeOK
  <2>2. QED
    BY <1>2, <2>1, <1>a, <1>b DEF insert_job_with, BecomeDue
<1>3. ASSUME NEW S, cancel_pending_jobs(S) PROVE OwnInv'
  <2>1. KeepRows
    BY <1>3 DEF cancel_pending_jobs, Running
  <2>2. QED
    BY <1>3, <2>1, <1>a, <1>b DEF cancel_pending_jobs
<1>4. CASE purge_old_jobs
  <2>1. KeepRows
    BY <1>4 DEF purge_old_jobs, Running
  <2>2. QED
    BY <1>4, <2>1, <1>a, <1>b DEF purge_old_jobs
<1>5. CASE SecondPasses
  BY <1>5, <1>a, <1>b DEF SecondPasses, Running
<1>6. ASSUME NEW p \in Pollers, PollStep(p) PROVE OwnInv'
  <2>1. CASE PollCount(p) \/ ClaimSelect(p) \/ ClaimCounts(p) \/ PollEnds(p)
    <3>1. KeepRows /\ exec' = exec
      BY <2>1 DEF PollCount, ClaimSelect, ClaimCounts, PollEnds, Running
    <3>2. KeepPoll
      BY <2>1 DEF PollCount, ClaimSelect, ClaimCounts, PollEnds, ToDispatch, TypeOK
    <3>3. QED
      BY <3>1, <3>2, <1>a
  <2>2. ASSUME NEW j \in Jobs, SkipRow(p, j) \/ TakeRow(p, j) PROVE OwnInv'
    <3>1. KeepRows /\ exec' = exec
      BY <2>2 DEF SkipRow, TakeRow, Running
    <3>2. KeepPoll
      BY <2>2 DEF SkipRow, TakeRow, NextCandidate, ToDispatch, TypeOK
    <3>3. QED
      BY <3>1, <3>2, <1>a
  <2>3. ASSUME NEW j \in Jobs, TakeRowNow(p, j) \/ LoseRow(p, j) PROVE OwnInv'
    BY <2>3 DEF TakeRowNow, LoseRow
  <2>4. CASE ClaimCommit(p)
    <3>1. /\ pc[p] = "claim" /\ pc' = [pc EXCEPT ![p] = "dispatch"]
          /\ status' = [j \in Jobs |-> IF j \in claimed[p] THEN "running" ELSE status[j]]
          /\ attempt' = [j \in Jobs |-> IF j \in claimed[p] THEN attempt[j] + 1 ELSE attempt[j]]
          /\ UNCHANGED <<claimed, snap, exec>>
      BY <2>4 DEF ClaimCommit, ClaimEnds
    <3>2. \A j \in claimed[p] : status[j] = "pending" /\ snap[p][j] = attempt[j]
      BY <3>1 DEF ClaimInv, Locking
    <3> SUFFICES ASSUME NEW j \in Running' PROVE Owned(j)'
      BY DEF OwnInv
    <3>3. CASE j \in claimed[p]
      <4>1. j \in Jobs /\ ToDispatch(p, j)' /\ snap'[p][j] + 1 = attempt'[j]
        BY <3>1, <3>2, <3>3 DEF ToDispatch, TypeOK, Running
      <4>2. QED
        BY <4>1 DEF Owned
    <3>4. CASE j \notin claimed[p]
      <4>1. j \in Running /\ attempt'[j] = attempt[j]
        BY <3>1, <3>4 DEF Running
      <4>2. \A r \in Pollers : ToDispatch(r, j) => ToDispatch(r, j)'
        BY <3>1 DEF ToDispatch, TypeOK
      <4>3. QED
        BY <3>1, <4>1, <4>2 DEF OwnInv, Owned
    <3>5. QED
      BY <3>3, <3>4
  <2>5. CASE ClaimDone(p)
    BY <2>5 DEF ClaimDone
  <2>6. ASSUME NEW j \in Jobs, Spawn(p, j) PROVE OwnInv'
    <3> DEFINE e == [job |-> j, att |-> snap[p][j] + 1, node |-> Home[p], st |-> "live"]
    <3>1. /\ exec' = exec \cup {e} /\ claimed' = [claimed EXCEPT ![p] = @ \ {j}]
          /\ UNCHANGED <<status, attempt, pc, snap>>
      BY <2>6 DEF Spawn
    <3> SUFFICES ASSUME NEW i \in Running' PROVE Owned(i)'
      BY DEF OwnInv
    <3>2. i \in Jobs /\ Owned(i)
      BY <3>1 DEF OwnInv, Running
    <3>3. CASE \E f \in exec : f.job = i /\ f.att = attempt[i] /\ f.st = "live"
      BY <3>1, <3>3 DEF Owned
    <3>4. ASSUME NEW r \in Pollers, ToDispatch(r, i), snap[r][i] + 1 = attempt[i]
          PROVE  Owned(i)'
      <4>1. CASE r = p /\ i = j
        <5>1. e \in exec' /\ e.job = i /\ e.att = attempt'[i] /\ e.st = "live"
          BY <3>1, <3>4, <4>1
        <5>2. QED
          BY <5>1 DEF Owned
      <4>2. CASE ~(r = p /\ i = j)
        <5>1. ToDispatch(r, i)' /\ snap'[r][i] + 1 = attempt'[i]
          BY <3>1, <3>2, <3>4, <4>2 DEF ToDispatch, TypeOK
        <5>2. QED
          BY <5>1 DEF Owned
      <4>3. QED
        BY <4>1, <4>2
    <3>5. QED
      BY <3>2, <3>3, <3>4 DEF Owned
  <2>7. ASSUME NEW j \in Jobs, FailUndefined(p, j) PROVE OwnInv'
    <3>1. fail_job(j, FALSE, 0, "handler") /\ FALSE \in BOOLEAN
      BY <2>7 DEF FailUndefined
    <3>2. KeepRows /\ j \notin Running'
      BY <1>0, <3>1, VerdictEnds
    <3>3. KeepPoll /\ exec' = exec
      BY <2>7, <3>2 DEF FailUndefined, ToDispatch, TypeOK
    <3>4. QED
      BY <3>2, <3>3, <1>a
  <2>8. CASE PollFails(p)
    BY <1>0, <2>8 DEF PollFails
  <2>9. QED
    BY <1>6, <2>1, <2>2, <2>3, <2>4, <2>5, <2>6, <2>7, <2>8 DEF PollStep, ClaimStep
<1>7. ASSUME NEW e \in exec, ExecStep(e) PROVE OwnInv'
  <2>0. e.job \in Jobs /\ e.att \in Nat /\ Retry(e) \in BOOLEAN /\ FALSE \in BOOLEAN
    BY DEF TypeOK, Execution, Retry
  <2>1. ASSUME KeepRows, UNCHANGED <<pc, snap, claimed>>,
               e.job \notin Running' \/ e.st # "live",
               exec \ {e} \subseteq exec'
        PROVE  OwnInv'
    <3>1. KeepPoll
      BY <2>1, <1>b
    <3>2. \A f \in exec : f.st = "live" /\ f.job \in Running' => f \in exec'
      BY <2>1
    <3>3. QED
      BY <2>1, <3>1, <3>2, OwnersKept
  <2>2. CASE HandlerOk(e)
    <3>1. KeepRows /\ e.job \notin Running'
      BY <2>0, <2>2 DEF HandlerOk, complete_job, SetStatus, RowStates, Active, Running, TypeOK
    <3>2. QED
      BY <2>1, <2>2, <3>1 DEF HandlerOk, AfterWrite, Move, Finish
  <2>3. CASE HandlerErr(e)
    <3>1. KeepRows /\ e.job \notin Running'
      BY <1>0, <2>0, <2>3, VerdictEnds DEF HandlerErr
    <3>2. QED
      BY <2>1, <2>3, <3>1 DEF HandlerErr, AfterWrite, Move, Finish
  <2>4. CASE HandlerReject(e)
    <3>1. KeepRows /\ e.job \notin Running'
      BY <1>0, <2>0, <2>4, VerdictEnds DEF HandlerReject
    <3>2. QED
      BY <2>1, <2>4, <3>1 DEF HandlerReject, AfterWrite, Move, Finish
  <2>5. CASE Timeout(e)
    <3>1. KeepRows /\ e.job \notin Running'
      BY <1>0, <2>0, <2>5, VerdictEnds DEF Timeout
    <3>2. QED
      BY <2>1, <2>5, <3>1 DEF Timeout, Move, Finish
  <2>6. CASE Join(e) \/ update_heartbeat(e)
    <3>1. KeepRows
      BY <2>6 DEF Join, update_heartbeat, Running
    <3>2. CASE Join(e)
      BY <2>1, <3>1, <3>2 DEF Join, Finish
    <3>3. CASE update_heartbeat(e)
      BY <3>1, <3>3, <1>a, <1>b DEF update_heartbeat
    <3>4. QED
      BY <2>6, <3>2, <3>3
  <2>7. CASE HandlerDies(e)
    BY <1>0, <2>7 DEF HandlerDies
  <2>8. QED
    BY <1>7, <2>2, <2>3, <2>4, <2>5, <2>6, <2>7 DEF ExecStep
<1>8. ASSUME NEW n \in Nodes, NodeStep(n) PROVE OwnInv'
  <2>1. CASE NodeStart(n) \/ NodeReady(n)
    BY <2>1, <1>a, <1>b DEF NodeStart, NodeReady, Running
  <2>2. ASSUME NEW j \in Jobs, RecoverMark(n, j) PROVE OwnInv'
    <3>1. KeepRows
      BY <2>2 DEF RecoverMark, mark_stale, SetStatus, Running, TypeOK
    <3>2. QED
      BY <2>2, <3>1, <1>a, <1>b DEF RecoverMark
  <2>3. CASE NodeStop(n)
    BY <1>0, <2>3 DEF NodeStop
  <2>4. QED
    BY <1>8, <2>1, <2>2, <2>3 DEF NodeStep
<1>9. QED
  BY <1>1, <1>2, <1>3, <1>4, <1>5, <1>6, <1>7, <1>8 DEF Next

(* On SQLite, while schedulers neither crash nor lose the database and no  *)
(* handler panics, a running row is never orphaned: an execution of its    *)
(* current attempt is alive or about to start, whatever timeouts, late     *)
(* verdicts and starts of other nodes overlap.                             *)
THEOREM RunningIsOwnedTheorem ==
  Backend = "sqlite" /\ Faults \subseteq {"timeout"} => (Spec => []RunningIsOwned)
<1> SUFFICES ASSUME Backend = "sqlite", Faults \subseteq {"timeout"}
             PROVE  Spec => []RunningIsOwned
  OBVIOUS
<1>1. Init => OwnInv
  BY DEF Init, OwnInv, Running
<1>2. Spec => []ClaimInv
  BY ClaimSerialised
<1>3. TypeOK /\ ClaimInv /\ UniqueActive /\ OwnInv /\ [Next]_vars => OwnInv'
  BY OwnStep
<1>4. OwnInv => RunningIsOwned
  BY DEF OwnInv, Owned, RunningIsOwned, ToDispatch
<1>5. QED
  BY <1>1, <1>2, <1>3, <1>4, TypeCorrect, UniqueTheorem, PTL DEF Spec

-----------------------------------------------------------------------------
(* A finished job stays finished                                           *)

OneNode == \A m, n \in Nodes : m = n

(* Who runs an attempt, or is about to, is alone with its row.             *)
AloneInv ==
    /\ \A e \in exec : e.st \in {"live", "wrote"}
    /\ \A e \in exec : e.st = "live" => status[e.job] = "running" /\ e.att = attempt[e.job]
    /\ \A p \in Pollers, j \in Jobs : ToDispatch(p, j) =>
          status[j] = "running" /\ snap[p][j] + 1 = attempt[j]

(* Nothing runs while the only process starts: what its recovery has found *)
(* is running until it is marked.                                          *)
StartInv ==
    /\ \A n \in Nodes : node[n] # "up" => exec = {} /\ \A p \in Pollers : pc[p] = "idle"
    /\ \A n \in Nodes : recov[n] \subseteq Running /\ (node[n] # "recovering" => recov[n] = {})

FinalInv == AloneInv /\ StartInv

(* Rows in the hands of an execution or of a poll.                         *)
Held(j) ==
    \/ \E e \in exec : e.st = "live" /\ e.job = j
    \/ \E p \in Pollers : ToDispatch(p, j)

(* A step that writes no held row, starts nothing and lets no task give up *)
(* keeps AloneInv.                                                         *)
LEMMA AloneKept ==
  ASSUME TypeOK, AloneInv,
         \A e \in exec' : e.st \in {"live", "wrote"} /\ (e.st = "live" => e \in exec),
         \A p \in Pollers, j \in Jobs : ToDispatch(p, j)' =>
             ToDispatch(p, j) /\ snap'[p][j] = snap[p][j],
         \A j \in Jobs : Held(j)' => status'[j] = status[j] /\ attempt'[j] = attempt[j]
  PROVE  AloneInv'
<1>1. ASSUME NEW e \in exec', e.st = "live"
      PROVE  status'[e.job] = "running" /\ e.att = attempt'[e.job]
  <2>1. e \in exec /\ e.job \in Jobs /\ Held(e.job)'
    BY <1>1 DEF TypeOK, Execution, Held
  <2>2. QED
    BY <1>1, <2>1 DEF AloneInv
<1>2. ASSUME NEW p \in Pollers, NEW j \in Jobs, ToDispatch(p, j)'
      PROVE  status'[j] = "running" /\ snap'[p][j] + 1 = attempt'[j]
  BY <1>2 DEF AloneInv, Held
<1>3. QED
  BY <1>1, <1>2 DEF AloneInv

(* A verdict that goes to a row writes no other, and a retry changes no    *)
(* attempt number.                                                         *)
LEMMA VerdictLocal ==
  ASSUME TypeOK, NEW j \in Jobs, NEW a, NEW v, NEW retry \in BOOLEAN, fail_job(j, retry, a, v)
  PROVE  UNCHANGED attempt /\ \A i \in Jobs : i # j => status'[i] = status[i]
BY DEF fail_job, row, SetStatus, TypeOK

(* The execution that gives its verdict is the only one to hold its row.   *)
LEMMA VerdictAlone ==
  ASSUME TypeOK, AttemptInv, AloneInv, NEW e \in exec, e.st = "live", AfterWrite(e),
         UNCHANGED <<attempt, poll>>, \A j \in Jobs : j # e.job => status'[j] = status[j]
  PROVE  AloneInv'
<1>0. e.job \in Jobs /\ e.att = attempt[e.job] /\ e.att \in Nat
  BY DEF AloneInv, TypeOK, Execution
<1>1. exec' = (exec \ {e}) \cup {[job |-> e.job, att |-> e.att, node |-> e.node, st |-> "wrote"]}
  BY DEF AfterWrite, Move
<1>2. \A f \in exec' : f.st \in {"live", "wrote"} /\ (f.st = "live" => f \in exec /\ f # e)
  BY <1>1 DEF AloneInv
<1>3. \A p \in Pollers, j \in Jobs : /\ ToDispatch(p, j)' <=> ToDispatch(p, j)
                                    /\ snap'[p][j] = snap[p][j]
  BY DEF ToDispatch, poll
<1>4. ~Held(e.job)'
  <2>1. ASSUME NEW f \in exec', f.st = "live", f.job = e.job PROVE FALSE
    <3>1. f \in exec /\ f # e /\ f.att = attempt[e.job]
      BY <1>2, <2>1 DEF AloneInv
    <3>2. QED
      BY <1>0, <2>1, <3>1 DEF AttemptInv, OneExecutionPerAttempt
  <2>2. ASSUME NEW p \in Pollers, ToDispatch(p, e.job) PROVE FALSE
    <3>1. snap[p][e.job] + 1 = attempt[e.job]
      BY <1>0, <2>2 DEF AloneInv
    <3>2. ~HandedOut(e.job, snap[p][e.job] + 1)
      BY <1>0, <2>2 DEF AttemptInv, DispatchFresh
    <3>3. QED
      BY <1>0, <3>1, <3>2 DEF HandedOut
  <2>3. QED
    BY <1>3, <2>1, <2>2, <1>0 DEF Held
<1>5. QED
  BY <1>2, <1>3, <1>4, AloneKept

(* Every step keeps AloneInv, while no task gives up on its handler.       *)
LEMMA AloneStep ==
  ASSUME Backend = "sqlite", "timeout" \notin Faults, OneNode,
         TypeOK, ClaimInv, AttemptInv, AloneInv, StartInv, [Next]_vars
  PROVE  AloneInv'
<1> USE DEF row, poll
<1>0. \A j \in Jobs : Held(j) => status[j] = "running"
  BY DEF Held, AloneInv
<1> DEFINE KeepExec == \A e \in exec' : e.st \in {"live", "wrote"} /\ (e.st = "live" => e \in exec)
           KeepPoll == \A p \in Pollers, j \in Jobs : ToDispatch(p, j)' =>
                           ToDispatch(p, j) /\ snap'[p][j] = snap[p][j]
           KeepHeld == /\ UNCHANGED attempt
                       /\ \A j \in Jobs : status[j] = "running" => status'[j] = "running"
<1>a. ASSUME KeepExec, KeepPoll, KeepHeld PROVE AloneInv'
  <2>1. \A j \in Jobs : Held(j)' => Held(j)
    BY <1>a DEF Held
  <2>2. \A j \in Jobs : Held(j)' => status'[j] = status[j] /\ attempt'[j] = attempt[j]
    BY <1>0, <1>a, <2>1
  <2>3. QED
    BY <1>a, <2>2, AloneKept
<1>b. ASSUME exec' \subseteq exec PROVE KeepExec
  BY <1>b DEF AloneInv
<1>c. ASSUME UNCHANGED <<pc, snap, claimed>> PROVE KeepPoll
  BY <1>c DEF ToDispatch
<1>1. CASE UNCHANGED vars
  BY <1>1, <1>a, <1>b, <1>c DEF vars
<1>2. ASSUME NEW j \in Jobs, insert_job_with(j) \/ BecomeDue(j) PROVE AloneInv'
  <2>1. KeepHeld
    BY <1>2 DEF insert_job_with, BecomeDue, TypeOK
  <2>2. QED
    BY <1>2, <2>1, <1>a, <1>b, <1>c DEF insert_job_with, BecomeDue
<1>3. ASSUME NEW S, cancel_pending_jobs(S) PROVE AloneInv'
  BY <1>3, <1>a, <1>b, <1>c DEF cancel_pending_jobs
<1>4. CASE purge_old_jobs
  <2>1. KeepHeld
    BY <1>4 DEF purge_old_jobs, Terminal
  <2>2. QED
    BY <1>4, <2>1, <1>a, <1>b, <1>c DEF purge_old_jobs
<1>5. CASE SecondPasses
  BY <1>5, <1>a, <1>b, <1>c DEF SecondPasses
<1>6. ASSUME NEW p \in Pollers, PollStep(p) PROVE AloneInv'
  <2>1. CASE PollCount(p) \/ ClaimSelect(p) \/ ClaimCounts(p) \/ PollEnds(p) \/ PollFails(p)
    <3>1. KeepHeld /\ exec' = exec
      BY <2>1 DEF PollCount, ClaimSelect, ClaimCounts, PollEnds, PollFails
    <3>2. KeepPoll
      BY <2>1 DEF PollCount, ClaimSelect, ClaimCounts, PollEnds, PollFails, ToDispatch, TypeOK
    <3>3. QED
      BY <3>1, <3>2, <1>a, <1>b
  <2>2. ASSUME NEW j \in Jobs, SkipRow(p, j) \/ TakeRow(p, j) PROVE AloneInv'
    <3>1. KeepHeld /\ exec' = exec
      BY <2>2 DEF SkipRow, TakeRow
    <3>2. KeepPoll
      BY <2>2 DEF SkipRow, TakeRow, NextCandidate, ToDispatch, TypeOK
    <3>3. QED
      BY <3>1, <3>2, <1>a, <1>b
  <2>3. ASSUME NEW j \in Jobs, TakeRowNow(p, j) \/ LoseRow(p, j) PROVE AloneInv'
    BY <2>3 DEF TakeRowNow, LoseRow
  <2>4. CASE ClaimCommit(p)
    <3>1. /\ pc[p] = "claim" /\ pc' = [pc EXCEPT ![p] = "dispatch"]
          /\ status' = [j \in Jobs |-> IF j \in claimed[p] THEN "running" ELSE status[j]]
          /\ attempt' = [j \in Jobs |-> IF j \in claimed[p] THEN attempt[j] + 1 ELSE attempt[j]]
          /\ UNCHANGED <<claimed, snap, exec>>
      BY <2>4 DEF ClaimCommit, ClaimEnds
    <3>2. \A j \in claimed[p] : status[j] = "pending" /\ snap[p][j] = attempt[j]
      BY <3>1 DEF ClaimInv, Locking
    <3>3. \A j \in Jobs : status[j] = "running" => status'[j] = "running" /\ attempt'[j] = attempt[j]
      BY <3>1, <3>2
    <3>4. ASSUME NEW e \in exec, e.st = "live"
          PROVE  status'[e.job] = "running" /\ e.att = attempt'[e.job]
      <4>1. e.job \in Jobs /\ status[e.job] = "running" /\ e.att = attempt[e.job]
        BY <3>4 DEF AloneInv, TypeOK, Execution
      <4>2. QED
        BY <3>3, <4>1
    <3>5. ASSUME NEW r \in Pollers, NEW j \in Jobs, ToDispatch(r, j)'
          PROVE  status'[j] = "running" /\ snap[r][j] + 1 = attempt'[j]
      <4>1. CASE r = p
        BY <3>1, <3>2, <3>5, <4>1 DEF ToDispatch
      <4>2. CASE r # p
        <5>1. ToDispatch(r, j)
          BY <3>1, <3>5, <4>2 DEF ToDispatch, TypeOK
        <5>2. QED
          BY <3>3, <5>1 DEF AloneInv
      <4>3. QED
        BY <4>1, <4>2
    <3>6. QED
      BY <3>1, <3>4, <3>5 DEF AloneInv
  <2>5. CASE ClaimDone(p)
    BY <2>5 DEF ClaimDone
  <2>6. ASSUME NEW j \in Jobs, Spawn(p, j) PROVE AloneInv'
    <3> DEFINE e == [job |-> j, att |-> snap[p][j] + 1, node |-> Home[p], st |-> "live"]
    <3>1. /\ exec' = exec \cup {e} /\ claimed' = [claimed EXCEPT ![p] = @ \ {j}]
          /\ UNCHANGED <<status, attempt, pc, snap>> /\ ToDispatch(p, j)
      BY <2>6 DEF Spawn, ToDispatch
    <3>2. e.st = "live" /\ status[e.job] = "running" /\ e.att = attempt[e.job]
      BY <3>1 DEF AloneInv
    <3>3. \A r \in Pollers, i \in Jobs : ToDispatch(r, i)' => ToDispatch(r, i)
      BY <3>1 DEF ToDispatch, TypeOK
    <3>4. QED
      BY <3>1, <3>2, <3>3 DEF AloneInv
  <2>7. ASSUME NEW j \in Jobs, FailUndefined(p, j) PROVE AloneInv'
    <3>1. fail_job(j, FALSE, 0, "handler") /\ FALSE \in BOOLEAN
      BY <2>7 DEF FailUndefined
    <3>2. UNCHANGED attempt /\ \A i \in Jobs : i # j => status'[i] = status[i]
      BY <3>1, VerdictLocal
    <3>3. /\ claimed' = [claimed EXCEPT ![p] = @ \ {j}] /\ ToDispatch(p, j)
          /\ UNCHANGED <<pc, snap, exec>>
      BY <2>7 DEF FailUndefined, ToDispatch
    <3>4. KeepPoll /\ ~ToDispatch(p, j)'
      BY <3>3 DEF ToDispatch, TypeOK
    <3>5. /\ snap[p][j] + 1 = attempt[j] /\ ~HandedOut(j, attempt[j])
          /\ \A r \in Pollers : ToDispatch(r, j) /\ snap[r][j] = snap[p][j] => r = p
      BY <3>3 DEF AloneInv, AttemptInv, DispatchFresh
    <3>6. ~\E e \in exec' : e.st = "live" /\ e.job = j
      BY <3>3, <3>5 DEF AloneInv, HandedOut
    <3>7. \A r \in Pollers : ~ToDispatch(r, j)'
      <4>1. ASSUME NEW r \in Pollers, ToDispatch(r, j)' PROVE FALSE
        <5>1. ToDispatch(r, j) /\ snap[r][j] + 1 = attempt[j]
          BY <3>4, <4>1 DEF AloneInv
        <5>2. snap[r][j] \in Nat /\ snap[p][j] \in Nat
          BY DEF TypeOK
        <5>3. r = p
          BY <3>5, <5>1, <5>2
        <5>4. QED
          BY <3>4, <4>1, <5>3
      <4>2. QED
        BY <4>1
    <3>8. \A i \in Jobs : Held(i)' => i # j
      BY <3>6, <3>7 DEF Held
    <3>9. KeepExec
      BY <3>3, <1>b
    <3>10. QED
      BY <3>2, <3>4, <3>8, <3>9, AloneKept
  <2>8. QED
    BY <1>6, <2>1, <2>2, <2>3, <2>4, <2>5, <2>6, <2>7 DEF PollStep, ClaimStep
<1>7. ASSUME NEW e \in exec, ExecStep(e) PROVE AloneInv'
  <2>0. e.job \in Jobs /\ Retry(e) \in BOOLEAN /\ FALSE \in BOOLEAN /\ e.st \in {"live", "wrote"}
    BY DEF TypeOK, Execution, Retry, AloneInv
  <2>1. CASE HandlerOk(e)
    <3>1. UNCHANGED attempt /\ \A j \in Jobs : j # e.job => status'[j] = status[j]
      BY <2>1 DEF HandlerOk, complete_job, SetStatus, TypeOK
    <3>2. QED
      BY <2>0, <2>1, <3>1, VerdictAlone DEF HandlerOk
  <2>2. CASE HandlerErr(e)
    <3>1. UNCHANGED attempt /\ \A j \in Jobs : j # e.job => status'[j] = status[j]
      BY <2>0, <2>2, VerdictLocal DEF HandlerErr
    <3>2. QED
      BY <2>0, <2>2, <3>1, VerdictAlone DEF HandlerErr
  <2>3. CASE HandlerReject(e)
    <3>1. UNCHANGED attempt /\ \A j \in Jobs : j # e.job => status'[j] = status[j]
      BY <2>0, <2>3, VerdictLocal DEF HandlerReject
    <3>2. QED
      BY <2>0, <2>3, <3>1, VerdictAlone DEF HandlerReject
  <2>4. CASE HandlerDies(e) \/ Join(e) \/ update_heartbeat(e)
    <3>1. KeepHeld /\ exec' \subseteq exec /\ UNCHANGED <<pc, snap, claimed>>
      BY <2>4 DEF HandlerDies, Join, update_heartbeat, Finish
    <3>2. QED
      BY <3>1, <1>a, <1>b, <1>c
  <2>5. CASE Timeout(e)
    BY <2>5 DEF Timeout
  <2>6. QED
    BY <1>7, <2>1, <2>2, <2>3, <2>4, <2>5 DEF ExecStep
<1>8. ASSUME NEW n \in Nodes, NodeStep(n) PROVE AloneInv'
  <2>1. CASE NodeStart(n) \/ NodeReady(n)
    BY <2>1, <1>a, <1>b, <1>c DEF NodeStart, NodeReady
  <2>2. ASSUME NEW j \in Jobs, RecoverMark(n, j) PROVE AloneInv'
    <3>1. exec' = {} /\ \A p \in Pollers : pc'[p] = "idle"
      BY <2>2 DEF RecoverMark, StartInv
    <3>2. QED
      BY <3>1 DEF AloneInv, ToDispatch
  <2>3. CASE NodeStop(n)
    <3>1. KeepHeld /\ exec' \subseteq exec
      BY <2>3 DEF NodeStop
    <3>2. KeepPoll
      BY <2>3 DEF NodeStop, ToDispatch, TypeOK
    <3>3. QED
      BY <3>1, <3>2, <1>a, <1>b
  <2>4. QED
    BY <1>8, <2>1, <2>2, <2>3 DEF NodeStep
<1>9. QED
  BY <1>1, <1>2, <1>3, <1>4, <1>5, <1>6, <1>7, <1>8 DEF Next

(* Every step of a lone process keeps StartInv.                            *)
LEMMA StartStep ==
  ASSUME OneNode, TypeOK, StartInv, [Next]_vars
  PROVE  StartInv'
<1> USE DEF row, poll
<1>a. ASSUME Running' = Running, UNCHANGED <<exec, pc, node, recov>> PROVE StartInv'
  BY <1>a DEF StartInv
<1>b. ASSUME \A n \in Nodes : node[n] = "up", UNCHANGED <<node, recov>> PROVE StartInv'
  BY <1>b DEF StartInv
<1>1. CASE UNCHANGED vars
  BY <1>1, <1>a DEF vars, Running
<1>2. ASSUME NEW j \in Jobs, insert_job_with(j) \/ BecomeDue(j) PROVE StartInv'
  <2>1. Running' = Running
    BY <1>2 DEF insert_job_with, BecomeDue, Running, TypeOK
  <2>2. QED
    BY <1>2, <2>1, <1>a DEF insert_job_with, BecomeDue
<1>3. ASSUME NEW S, cancel_pending_jobs(S) PROVE StartInv'
  <2>1. Running' = Running
    BY <1>3 DEF cancel_pending_jobs, Running
  <2>2. QED
    BY <1>3, <2>1, <1>a DEF cancel_pending_jobs
<1>4. CASE purge_old_jobs
  <2>1. Running' = Running
    BY <1>4 DEF purge_old_jobs, Running, Terminal
  <2>2. QED
    BY <1>4, <2>1, <1>a DEF purge_old_jobs
<1>5. CASE SecondPasses
  BY <1>5, <1>a DEF SecondPasses, Running
<1>6. ASSUME NEW p \in Pollers, PollStep(p) PROVE StartInv'
  <2>1. node[Home[p]] = "up" /\ Home[p] \in Nodes
    <3>1. node[Home[p]] = "up" \/ pc[p] # "idle"
      BY <1>6 DEF PollStep, ClaimStep, PollCount, ClaimSelect, ClaimCounts, SkipRow, TakeRow,
                  TakeRowNow, LoseRow, NextCandidate, ClaimCommit, ClaimDone, ClaimEnds,
                  Spawn, FailUndefined, PollEnds, PollFails
    <3>2. QED
      BY <3>1, ConstantsAssumption DEF StartInv
  <2>2. UNCHANGED <<node, recov>>
    BY <1>6 DEF PollStep, ClaimStep, PollCount, ClaimSelect, ClaimCounts, SkipRow, TakeRow,
                TakeRowNow, LoseRow, ClaimCommit, ClaimDone, ClaimEnds,
                Spawn, FailUndefined, PollEnds, PollFails
  <2>3. QED
    BY <2>1, <2>2, <1>b DEF OneNode
<1>7. ASSUME NEW e \in exec, ExecStep(e) PROVE StartInv'
  <2>1. \A n \in Nodes : node[n] = "up"
    BY DEF StartInv
  <2>2. UNCHANGED <<node, recov>>
    BY <1>7 DEF ExecStep, HandlerOk, HandlerErr, HandlerReject, HandlerDies, Join, Timeout,
                update_heartbeat
  <2>3. QED
    BY <2>1, <2>2, <1>b
<1>8. ASSUME NEW n \in Nodes, NodeStep(n) PROVE StartInv'
  <2>0. Nodes = {n}
    BY DEF OneNode
  <2>1. CASE NodeStart(n)
    <3>1. Running' = Running
      BY <2>1 DEF NodeStart, Running
    <3>2. node[n] = "down" /\ UNCHANGED <<exec, pc>> /\ node'[n] = "recovering"
          /\ recov'[n] \subseteq Running
      BY <2>1 DEF NodeStart, TypeOK
    <3>3. QED
      BY <2>0, <3>1, <3>2 DEF StartInv
  <2>2. ASSUME NEW j \in Jobs, RecoverMark(n, j) PROVE StartInv'
    <3>1. /\ node[n] = "recovering" /\ UNCHANGED <<exec, pc, node>>
          /\ recov'[n] = recov[n] \ {j} /\ status' = SetStatus(j, "stale")
      BY <2>2 DEF RecoverMark, mark_stale, TypeOK
    <3>2. Running \ {j} \subseteq Running'
      BY <3>1 DEF Running, SetStatus, TypeOK
    <3>3. QED
      BY <2>0, <3>1, <3>2 DEF StartInv
  <2>3. CASE NodeReady(n)
    <3>1. node'[n] = "up" /\ recov'[n] = {}
      BY <2>3 DEF NodeReady, TypeOK
    <3>2. QED
      BY <2>0, <3>1 DEF StartInv
  <2>4. CASE NodeStop(n)
    <3>1. \A e \in exec : e.node = n
      BY <2>0 DEF TypeOK, Execution
    <3>2. \A p \in Pollers : Home[p] = n
      BY <2>0, ConstantsAssumption
    <3>3. exec' = {} /\ recov'[n] = {} /\ \A p \in Pollers : pc'[p] = "idle"
      BY <2>4, <3>1, <3>2 DEF NodeStop, TypeOK
    <3>4. QED
      BY <2>0, <3>3 DEF StartInv
  <2>5. QED
    BY <1>8, <2>1, <2>2, <2>3, <2>4 DEF NodeStep
<1>9. QED
  BY <1>1, <1>2, <1>3, <1>4, <1>5, <1>6, <1>7, <1>8 DEF Next

(* A step writes a finished row only to purge it: verdicts and recovery go *)
(* to running rows.                                                        *)
LEMMA FinishedKept ==
  ASSUME Backend = "sqlite", "timeout" \notin Faults, TypeOK, ClaimInv, FinalInv, Next,
         NEW j \in Jobs, status[j] \in Terminal
  PROVE  status'[j] \in {status[j], "deleted"}
<1> USE DEF row, poll, Terminal
<1>1. ASSUME NEW i \in Jobs, insert_job_with(i) \/ BecomeDue(i) PROVE status'[j] = status[j]
  BY <1>1 DEF insert_job_with, BecomeDue, TypeOK
<1>2. ASSUME NEW S, cancel_pending_jobs(S) PROVE status'[j] = status[j]
  BY <1>2 DEF cancel_pending_jobs
<1>3. CASE purge_old_jobs
  BY <1>3 DEF purge_old_jobs
<1>4. CASE SecondPasses
  BY <1>4 DEF SecondPasses
<1>5. ASSUME NEW p \in Pollers, PollStep(p) PROVE status'[j] = status[j]
  <2>1. CASE PollCount(p) \/ ClaimSelect(p) \/ ClaimCounts(p) \/ PollEnds(p) \/ PollFails(p)
             \/ ClaimDone(p)
    BY <2>1 DEF PollCount, ClaimSelect, ClaimCounts, PollEnds, PollFails, ClaimDone
  <2>2. ASSUME NEW i \in Jobs, \/ SkipRow(p, i) \/ TakeRow(p, i) \/ TakeRowNow(p, i)
                               \/ LoseRow(p, i) \/ Spawn(p, i)
        PROVE  status'[j] = status[j]
    BY <2>2 DEF SkipRow, TakeRow, TakeRowNow, LoseRow, Spawn
  <2>3. CASE ClaimCommit(p)
    BY <2>3 DEF ClaimCommit, ClaimEnds, ClaimInv, Locking
  <2>4. ASSUME NEW i \in Jobs, FailUndefined(p, i) PROVE status'[j] = status[j]
    <3>1. status[i] = "running" /\ fail_job(i, FALSE, 0, "handler") /\ FALSE \in BOOLEAN
      BY <2>4 DEF FailUndefined, ToDispatch, FinalInv, AloneInv
    <3>2. QED
      BY <3>1, VerdictLocal
  <2>5. QED
    BY <1>5, <2>1, <2>2, <2>3, <2>4 DEF PollStep, ClaimStep
<1>6. ASSUME NEW e \in exec, ExecStep(e) PROVE status'[j] = status[j]
  <2>0. /\ e.job \in Jobs /\ Retry(e) \in BOOLEAN /\ FALSE \in BOOLEAN
        /\ e.st \in {"live", "wrote"} /\ (e.st = "live" => status[e.job] = "running")
    BY DEF TypeOK, Execution, Retry, FinalInv, AloneInv
  <2>1. CASE HandlerOk(e)
    BY <2>0, <2>1 DEF HandlerOk, complete_job, SetStatus, TypeOK
  <2>2. CASE HandlerErr(e) \/ HandlerReject(e)
    <3>1. status[e.job] = "running"
      BY <2>0, <2>2 DEF HandlerErr, HandlerReject
    <3>2. \E retry \in BOOLEAN : fail_job(e.job, retry, e.att, "handler")
      BY <2>0, <2>2 DEF HandlerErr, HandlerReject
    <3>3. QED
      BY <2>0, <3>1, <3>2, VerdictLocal
  <2>3. CASE HandlerDies(e) \/ Join(e) \/ update_heartbeat(e) \/ Timeout(e)
    BY <2>3 DEF HandlerDies, Join, update_heartbeat, Timeout
  <2>4. QED
    BY <1>6, <2>1, <2>2, <2>3 DEF ExecStep
<1>7. ASSUME NEW n \in Nodes, NodeStep(n) PROVE status'[j] = status[j]
  <2>1. CASE NodeStart(n) \/ NodeReady(n) \/ NodeStop(n)
    BY <2>1 DEF NodeStart, NodeReady, NodeStop
  <2>2. ASSUME NEW i \in Jobs, RecoverMark(n, i) PROVE status'[j] = status[j]
    <3>1. status[i] = "running" /\ status' = SetStatus(i, "stale")
      BY <2>2 DEF RecoverMark, mark_stale, FinalInv, StartInv, Running
    <3>2. QED
      BY <3>1 DEF SetStatus, TypeOK
  <2>3. QED
    BY <1>7, <2>1, <2>2 DEF NodeStep
<1>8. QED
  BY <1>1, <1>2, <1>3, <1>4, <1>5, <1>6, <1>7 DEF Next

(* With one process on SQLite and no timeouts, a job that has completed,   *)
(* failed or gone stale keeps that verdict until it is purged, whatever    *)
(* crashes, panics, lost connections and restarts happen.                  *)
THEOREM TerminalIsFinalTheorem ==
  Backend = "sqlite" /\ "timeout" \notin Faults /\ OneNode => (Spec => TerminalIsFinal)
<1> SUFFICES ASSUME Backend = "sqlite", "timeout" \notin Faults, OneNode
             PROVE  Spec => TerminalIsFinal
  OBVIOUS
<1> DEFINE Kept == \A j \in Jobs : status[j] \in Terminal => status'[j] \in {status[j], "deleted"}
<1>1. Init => FinalInv
  BY DEF Init, FinalInv, AloneInv, StartInv, ToDispatch
<1>2. Spec => []ClaimInv /\ []AttemptInv
  BY ClaimSerialised, AttemptsAccounted
<1>3. TypeOK /\ ClaimInv /\ AttemptInv /\ FinalInv /\ [Next]_vars => FinalInv'
  BY AloneStep, StartStep DEF FinalInv
<1>4. TypeOK /\ ClaimInv /\ FinalInv /\ [Next]_vars => [Kept]_vars
  BY FinishedKept
<1>5. Spec => [][Kept]_vars
  BY <1>1, <1>2, <1>3, <1>4, TypeCorrect, PTL DEF Spec
<1>6. QED
  BY <1>5 DEF TerminalIsFinal

-----------------------------------------------------------------------------
(* The order of the claims                                                 *)

(* A claimable row that the claim does not look at any more has met a cap, *)
(* or is no more urgent than any it has taken or has still to look at.     *)
PrioInv ==
    \A p \in Pollers : Locking(p) =>
        /\ \A j \in claimed[p], c \in cands[p] : Prio[c] <= Prio[j]
        /\ \A k \in Eligible \ (cands[p] \cup claimed[p]) :
              \/ pc[p] = "claim" /\ Capped(k, p)
              \/ \A j \in cands[p] \cup claimed[p] : Prio[k] <= Prio[j]

(* More rows leave no more room.                                           *)
LEMMA FullGrows ==
  ASSUME NEW J \in SUBSET Jobs, NEW K \in SUBSET J, NEW j \in Jobs
  PROVE  /\ SlugFull(Slug[j], K) => SlugFull(Slug[j], J)
         /\ QueueFull(Queue[j], K) => QueueFull(Queue[j], J)
<1>1. ASSUME NEW S \in SUBSET J, NEW T \in SUBSET S
      PROVE  Cardinality(T) \in Nat /\ Cardinality(S) \in Nat /\ Cardinality(T) <= Cardinality(S)
  <2>1. IsFiniteSet(S)
    BY FS_Subset, ConstantsAssumption
  <2>2. QED
    BY <2>1, FS_Subset, FS_CardinalityType
<1>2. ASSUME SlugFull(Slug[j], K) PROVE SlugFull(Slug[j], J)
  <2>1. SlugRows(Slug[j], J) \in SUBSET J /\ SlugRows(Slug[j], K) \in SUBSET SlugRows(Slug[j], J)
    BY DEF SlugRows
  <2>2. SlugCap[Slug[j]] \in Nat /\ Cardinality(SlugRows(Slug[j], K)) >= SlugCap[Slug[j]]
    BY <1>2, ConstantsAssumption DEF SlugFull
  <2>3. Cardinality(SlugRows(Slug[j], J)) >= SlugCap[Slug[j]]
    BY <1>1, <2>1, <2>2
  <2>4. QED
    BY <1>2, <2>3 DEF SlugFull
<1>3. ASSUME QueueFull(Queue[j], K) PROVE QueueFull(Queue[j], J)
  <2>1. QueueRows(Queue[j], J) \in SUBSET J /\ QueueRows(Queue[j], K) \in SUBSET QueueRows(Queue[j], J)
    BY DEF QueueRows
  <2>2. QueueCap[Queue[j]] \in Nat /\ Cardinality(QueueRows(Queue[j], K)) >= QueueCap[Queue[j]]
    BY <1>3, ConstantsAssumption DEF QueueFull
  <2>3. Cardinality(QueueRows(Queue[j], J)) >= QueueCap[Queue[j]]
    BY <1>1, <2>1, <2>2
  <2>4. QED
    BY <1>3, <2>3 DEF QueueFull
<1>4. QED
  BY <1>2, <1>3

(* A step that leaves an open claim alone, and the rows while there is one. *)
LEMMA PrioKept ==
  ASSUME PrioInv,
         \A r \in Pollers : Locking(r)' =>
             /\ pc'[r] = pc[r] /\ cands'[r] = cands[r]
             /\ claimed'[r] = claimed[r] /\ seen'[r] = seen[r]
             /\ UNCHANGED <<status, due>>
  PROVE  PrioInv'
<1> SUFFICES ASSUME NEW p \in Pollers, Locking(p)'
             PROVE  /\ \A j \in claimed'[p], c \in cands'[p] : Prio[c] <= Prio[j]
                    /\ \A k \in Eligible' \ (cands'[p] \cup claimed'[p]) :
                          \/ pc'[p] = "claim" /\ Capped(k, p)'
                          \/ \A j \in cands'[p] \cup claimed'[p] : Prio[k] <= Prio[j]
  BY DEF PrioInv
<1>1. Locking(p) /\ Eligible' = Eligible
  BY DEF Locking, Eligible
<1>2. \A k : Capped(k, p)' <=> Capped(k, p)
  BY DEF Capped, SlugFull, QueueFull, SlugRows, QueueRows
<1>3. QED
  BY <1>1, <1>2 DEF PrioInv

(* Every step keeps PrioInv: the write lock keeps the candidates eligible  *)
(* while the claim walks them in the order of their priority.              *)
LEMMA PrioStep ==
  ASSUME Backend = "sqlite", TypeOK, ClaimInv, PrioInv, [Next]_vars
  PROVE  PrioInv'
<1> USE DEF row, poll
<1>a. ASSUME UNCHANGED <<pc, cands, claimed, seen>>, ~WriteLocked \/ UNCHANGED <<status, due>>
      PROVE  PrioInv'
  <2>1. CASE ~WriteLocked
    BY <1>a, <2>1, PrioKept DEF WriteLocked, Locking
  <2>2. CASE UNCHANGED <<status, due>>
    BY <1>a, <2>2, PrioKept
  <2>3. QED
    BY <1>a, <2>1, <2>2
<1>b. ASSUME NEW p \in Pollers, UNCHANGED <<status, due>>, ~Locking(p)',
             \A r \in Pollers : r # p => /\ pc'[r] = pc[r] /\ cands'[r] = cands[r]
                                         /\ claimed'[r] = claimed[r] /\ seen'[r] = seen[r]
      PROVE  PrioInv'
  BY <1>b, PrioKept
<1>1. CASE UNCHANGED vars
  BY <1>1, <1>a DEF vars
<1>2. ASSUME NEW j \in Jobs, insert_job_with(j) \/ BecomeDue(j) PROVE PrioInv'
  BY <1>2, <1>a DEF insert_job_with, BecomeDue
<1>3. ASSUME NEW S, cancel_pending_jobs(S) PROVE PrioInv'
  BY <1>3, <1>a DEF cancel_pending_jobs
<1>4. CASE purge_old_jobs \/ SecondPasses
  BY <1>4, <1>a DEF purge_old_jobs, SecondPasses
<1>5. ASSUME NEW p \in Pollers, PollStep(p) PROVE PrioInv'
  <2>1. CASE PollCount(p) \/ PollEnds(p) \/ PollFails(p)
    <3>1. /\ UNCHANGED <<status, due>> /\ ~Locking(p)'
          /\ \A r \in Pollers : r # p => /\ pc'[r] = pc[r] /\ cands'[r] = cands[r]
                                         /\ claimed'[r] = claimed[r] /\ seen'[r] = seen[r]
      BY <2>1 DEF PollCount, PollEnds, PollFails, Locking, TypeOK
    <3>2. QED
      BY <3>1, <1>b
  <2>2. CASE ClaimSelect(p)
    <3>1. PICK C \in Candidates(2 * limit[p]) : cands' = [cands EXCEPT ![p] = C]
      BY <2>2 DEF ClaimSelect
    <3>2. /\ pc' = [pc EXCEPT ![p] = "selected"] /\ claimed[p] = {}
          /\ UNCHANGED <<status, due, claimed, seen>> /\ ~WriteLocked
      BY <2>2 DEF ClaimSelect, ClaimInv
    <3>3. \A r \in Pollers : Locking(r)' => r = p
      BY <3>2 DEF WriteLocked, Locking, TypeOK
    <3>4. Eligible' = Eligible /\ cands'[p] = C /\ claimed'[p] = {}
      BY <3>1, <3>2 DEF Eligible, TypeOK
    <3>5. \A k \in Eligible \ C, c \in C : Prio[k] <= Prio[c]
      BY DEF Candidates
    <3>6. QED
      BY <3>3, <3>4, <3>5 DEF PrioInv
  <2>3. CASE ClaimCounts(p)
    <3>1. /\ pc[p] = "selected" /\ pc' = [pc EXCEPT ![p] = "claim"] /\ claimed[p] = {}
          /\ UNCHANGED <<status, due, cands, claimed>>
      BY <2>3 DEF ClaimCounts, ClaimInv
    <3>2. Locking(p) /\ \A r \in Pollers : Locking(r)' => r = p
      BY <3>1 DEF ClaimInv, Locking, TypeOK
    <3>3. \A k \in Eligible \ cands[p], j \in cands[p] : Prio[k] <= Prio[j]
      BY <3>1, <3>2 DEF PrioInv
    <3>4. Eligible' = Eligible
      BY <3>1 DEF Eligible
    <3>5. QED
      BY <3>1, <3>2, <3>3, <3>4 DEF PrioInv
  <2>4. ASSUME NEW j \in Jobs, SkipRow(p, j) PROVE PrioInv'
    <3>1. /\ pc[p] = "claim" /\ j \in cands[p] /\ Capped(j, p)
          /\ cands' = [cands EXCEPT ![p] = @ \ {j}]
          /\ UNCHANGED <<status, due, pc, claimed, seen>>
      BY <2>4 DEF SkipRow, NextCandidate
    <3>2. Locking(p) /\ \A r \in Pollers : Locking(r)' => r = p
      BY <3>1 DEF ClaimInv, Locking
    <3>3. Eligible' = Eligible /\ cands'[p] = cands[p] \ {j}
      BY <3>1 DEF Eligible, TypeOK
    <3>4. \A k : Capped(k, p)' <=> Capped(k, p)
      BY <3>1 DEF Capped, SlugFull, QueueFull, SlugRows, QueueRows
    <3>5. QED
      BY <3>1, <3>2, <3>3, <3>4 DEF PrioInv
  <2>5. ASSUME NEW j \in Jobs, TakeRow(p, j) PROVE PrioInv'
    <3>1. /\ pc[p] = "claim" /\ j \in cands[p] /\ \A k \in cands[p] : Prio[k] <= Prio[j]
          /\ cands' = [cands EXCEPT ![p] = @ \ {j}]
          /\ claimed' = [claimed EXCEPT ![p] = @ \cup {j}]
          /\ UNCHANGED <<status, due, pc, seen>>
      BY <2>5 DEF TakeRow, NextCandidate
    <3>2. Locking(p) /\ \A r \in Pollers : Locking(r)' => r = p
      BY <3>1 DEF ClaimInv, Locking
    <3>3. /\ Eligible' = Eligible /\ cands'[p] = cands[p] \ {j} /\ claimed'[p] = claimed[p] \cup {j}
          /\ seen'[p] = seen[p]
      BY <3>1 DEF Eligible, TypeOK
    <3>4. ASSUME NEW k \in Jobs, Capped(k, p) PROVE Capped(k, p)'
      <4>1. /\ seen'[p] \cup claimed'[p] \in SUBSET Jobs
            /\ seen[p] \cup claimed[p] \in SUBSET (seen'[p] \cup claimed'[p])
        BY <3>3 DEF TypeOK
      <4>2. \/ SlugFull(Slug[k], seen'[p] \cup claimed'[p])
            \/ QueueFull(Queue[k], seen'[p] \cup claimed'[p])
        BY <3>4, <4>1, FullGrows DEF Capped
      <4>3. QED
        BY <4>2 DEF Capped, SlugFull, QueueFull, SlugRows, QueueRows
    <3>5. /\ cands'[p] \cup claimed'[p] = cands[p] \cup claimed[p]
          /\ \A i \in claimed'[p], c \in cands'[p] : Prio[c] <= Prio[i]
      BY <3>1, <3>2, <3>3 DEF PrioInv
    <3>6. \A k \in Eligible : k \in Jobs
      BY DEF Eligible
    <3>7. ASSUME NEW k \in Eligible \ (cands[p] \cup claimed[p])
          PROVE  \/ pc'[p] = "claim" /\ Capped(k, p)'
                 \/ \A i \in cands[p] \cup claimed[p] : Prio[k] <= Prio[i]
      BY <3>1, <3>2, <3>4, <3>6 DEF PrioInv
    <3>8. QED
      BY <3>2, <3>3, <3>5, <3>7 DEF PrioInv
  <2>6. CASE ClaimCommit(p)
    <3>1. pc[p] = "claim" /\ pc' = [pc EXCEPT ![p] = "dispatch"]
      BY <2>6 DEF ClaimCommit, ClaimEnds
    <3>2. \A r \in Pollers : ~Locking(r)'
      BY <3>1 DEF ClaimInv, Locking, TypeOK
    <3>3. QED
      BY <3>2 DEF PrioInv
  <2>7. ASSUME NEW j \in Jobs, Spawn(p, j) PROVE PrioInv'
    <3>1. /\ UNCHANGED <<status, due>> /\ ~Locking(p)'
          /\ \A r \in Pollers : r # p => /\ pc'[r] = pc[r] /\ cands'[r] = cands[r]
                                         /\ claimed'[r] = claimed[r] /\ seen'[r] = seen[r]
      BY <2>7 DEF Spawn, Locking, TypeOK
    <3>2. QED
      BY <3>1, <1>b
  <2>8. ASSUME NEW j \in Jobs, FailUndefined(p, j) PROVE PrioInv'
    <3>1. \A r \in Pollers : ~Locking(r)'
      BY <2>8 DEF FailUndefined, WriteLocked, Locking
    <3>2. QED
      BY <3>1 DEF PrioInv
  <2>9. ASSUME NEW j \in Jobs, TakeRowNow(p, j) \/ LoseRow(p, j) PROVE PrioInv'
    BY <2>9 DEF TakeRowNow, LoseRow
  <2>10. CASE ClaimDone(p)
    BY <2>10 DEF ClaimDone
  <2>11. QED
    BY <1>5, <2>1, <2>2, <2>3, <2>4, <2>5, <2>6, <2>7, <2>8, <2>9, <2>10 DEF PollStep, ClaimStep
<1>6. ASSUME NEW e \in exec, ExecStep(e) PROVE PrioInv'
  BY <1>6, <1>a DEF ExecStep, HandlerOk, HandlerErr, HandlerReject, HandlerDies, Join, Timeout,
                    update_heartbeat
<1>7. ASSUME NEW n \in Nodes, NodeStep(n) PROVE PrioInv'
  <2>1. CASE NodeStop(n)
    <3>1. \A r \in Pollers : Locking(r)' =>
            /\ pc'[r] = pc[r] /\ cands'[r] = cands[r] /\ claimed'[r] = claimed[r]
            /\ seen'[r] = seen[r] /\ UNCHANGED <<status, due>>
      BY <2>1 DEF NodeStop, Locking, TypeOK
    <3>2. QED
      BY <3>1, PrioKept
  <2>2. CASE NodeStart(n) \/ NodeReady(n) \/ \E j \in Jobs : RecoverMark(n, j)
    BY <2>2, <1>a DEF NodeStart, NodeReady, RecoverMark
  <2>3. QED
    BY <1>7, <2>1, <2>2 DEF NodeStep
<1>8. QED
  BY <1>1, <1>2, <1>3, <1>4, <1>5, <1>6, <1>7 DEF Next

(* The commit of a claim: a more urgent claimable row that it leaves       *)
(* behind met a cap, which the rows now running still reach.               *)
LEMMA CommitInOrder ==
  ASSUME Backend = "sqlite", TypeOK, ClaimInv, PrioInv, Next,
         NEW p \in Pollers, pc[p] = "claim", pc'[p] = "dispatch",
         NEW j \in claimed[p], NEW k \in Eligible \ claimed[p], Prio[k] > Prio[j]
  PROVE  SlugFull(Slug[k], Running') \/ QueueFull(Queue[k], Running')
<1> USE DEF row, poll
<1>1. ClaimCommit(p)
  <2>1. ASSUME NEW r \in Pollers, PollStep(r), r # p PROVE pc'[p] = pc[p]
    BY <2>1 DEF PollStep, ClaimStep, PollCount, ClaimSelect, ClaimCounts, SkipRow, TakeRow,
                TakeRowNow, LoseRow, ClaimCommit, ClaimDone, ClaimEnds, Spawn, FailUndefined,
                PollEnds, PollFails, TypeOK
  <2>2. ASSUME PollStep(p) PROVE ClaimCommit(p)
    BY <2>2 DEF PollStep, ClaimStep, PollCount, ClaimSelect, ClaimCounts, SkipRow, TakeRow,
                TakeRowNow, LoseRow, ClaimDone, Spawn, FailUndefined, PollEnds, PollFails, TypeOK
  <2>3. ASSUME NEW e \in exec, ExecStep(e) PROVE pc'[p] = pc[p]
    BY <2>3 DEF ExecStep, HandlerOk, HandlerErr, HandlerReject, HandlerDies, Join, Timeout,
                update_heartbeat
  <2>4. ASSUME NEW n \in Nodes, NodeStep(n) PROVE pc'[p] # "dispatch"
    BY <2>4 DEF NodeStep, NodeStart, NodeReady, NodeStop, RecoverMark, TypeOK
  <2>5. QED
    BY <2>1, <2>2, <2>3, <2>4 DEF Next, insert_job_with, BecomeDue, cancel_pending_jobs,
                                  purge_old_jobs, SecondPasses
<1>2. Running' = seen[p] \cup claimed[p]
  <2>1. status' = [i \in Jobs |-> IF i \in claimed[p] THEN "running" ELSE status[i]]
    BY <1>1 DEF ClaimCommit
  <2>2. seen[p] = Running /\ claimed[p] \subseteq Jobs
    BY DEF ClaimInv, TypeOK
  <2>3. QED
    BY <2>1, <2>2 DEF Running
<1>3. Locking(p) /\ j \in Jobs /\ k \in Jobs /\ Prio[j] \in Int /\ Prio[k] \in Int
  BY ConstantsAssumption DEF Locking, TypeOK, Eligible
<1>4. k \notin cands[p]
  BY <1>3 DEF PrioInv
<1>5. Capped(k, p)
  BY <1>3, <1>4 DEF PrioInv
<1>6. QED
  BY <1>2, <1>5 DEF Capped

(* On SQLite the claims follow the priorities: a row that is left behind   *)
(* for a less urgent one has met the cap of its slug or of its queue.      *)
THEOREM StrictPriorityTheorem == Backend = "sqlite" => (Spec => StrictPriority)
<1> SUFFICES ASSUME Backend = "sqlite" PROVE Spec => StrictPriority
  OBVIOUS
<1> DEFINE InOrder ==
             \A p \in Pollers : pc[p] = "claim" /\ pc'[p] = "dispatch" =>
                 \A j \in claimed[p], k \in Eligible \ claimed[p] :
                     Prio[k] > Prio[j] =>
                         SlugFull(Slug[k], Running') \/ QueueFull(Queue[k], Running')
<1>1. Init => PrioInv
  BY DEF Init, PrioInv, Locking
<1>2. Spec => []ClaimInv
  BY ClaimSerialised
<1>3. TypeOK /\ ClaimInv /\ PrioInv /\ [Next]_vars => PrioInv'
  BY PrioStep
<1>4. TypeOK /\ ClaimInv /\ PrioInv /\ [Next]_vars => [InOrder]_vars
  BY CommitInOrder
<1>5. Spec => [][InOrder]_vars
  BY <1>1, <1>2, <1>3, <1>4, TypeCorrect, PTL DEF Spec
<1>6. QED
  BY <1>5 DEF StrictPriority

-----------------------------------------------------------------------------
(* Jobs that nobody holds                                                  *)

(* A step that starts nothing leaves a row alone that nobody holds.        *)
LEMMA HoldersShrink ==
  ASSUME NEW j \in Jobs, Unheld(j),
         \A e \in exec' : \E f \in exec : e.job = f.job,
         \A p \in Pollers : claimed'[p] \subseteq claimed[p],
         \A n \in Nodes : recov'[n] \subseteq recov[n]
  PROVE  Unheld(j)'
BY DEF Unheld

(* The verdict of an execution is about its own job.                       *)
LEMMA VerdictElsewhere ==
  ASSUME TypeOK, NEW e \in exec, ExecStep(e), NEW j \in Jobs, e.job # j
  PROVE  status'[j] = status[j]
<1> USE DEF row
<1>0. e.job \in Jobs /\ Retry(e) \in BOOLEAN /\ FALSE \in BOOLEAN
  BY DEF TypeOK, Execution, Retry
<1>1. CASE HandlerOk(e)
  BY <1>0, <1>1 DEF HandlerOk, complete_job, SetStatus, TypeOK
<1>2. CASE HandlerErr(e) \/ HandlerReject(e) \/ Timeout(e)
  <2>1. PICK retry \in BOOLEAN, v \in Verdicts : fail_job(e.job, retry, e.att, v)
    BY <1>0, <1>2 DEF HandlerErr, HandlerReject, Timeout, Verdicts
  <2>2. QED
    BY <1>0, <2>1 DEF fail_job, SetStatus, TypeOK
<1>3. CASE HandlerDies(e) \/ Join(e) \/ update_heartbeat(e)
  BY <1>3 DEF HandlerDies, Join, update_heartbeat
<1>4. QED
  BY <1>1, <1>2, <1>3 DEF ExecStep

LEMMA ExecHolders ==
  ASSUME NEW e \in exec, ExecStep(e)
  PROVE  /\ UNCHANGED <<claimed, recov>>
         /\ \A f \in exec' : \E g \in exec : f.job = g.job
<1> USE DEF row, poll
<1>1. exec' = exec \/ Finish(e) \/ \E st \in {"wrote", "zombie"} : Move(e, st)
  BY DEF ExecStep, HandlerOk, HandlerErr, HandlerReject, HandlerDies, Join, Timeout,
         update_heartbeat, AfterWrite
<1>2. UNCHANGED <<claimed, recov>>
  BY DEF ExecStep, HandlerOk, HandlerErr, HandlerReject, HandlerDies, Join, Timeout,
         update_heartbeat
<1>3. QED
  BY <1>1, <1>2 DEF Finish, Move

(* No poll picks up a row that has ended and that nobody holds: on SQLite  *)
(* the candidates of a claim are still pending, on Postgres its UPDATE     *)
(* asks for a pending row.                                                 *)
LEMMA PollLeavesSettled ==
  ASSUME TypeOK, Backend = "sqlite" => ClaimInv, NEW p \in Pollers, PollStep(p),
         NEW j \in Jobs, status[j] \in Terminal, Unheld(j)
  PROVE  status'[j] = status[j] /\ Unheld(j)'
<1> USE DEF row, poll, Terminal
<1>0. /\ j \notin claimed[p] /\ claimed \in [Pollers -> SUBSET Jobs]
      /\ \A e \in exec : e.job # j
  BY DEF Unheld, TypeOK
<1>1. CASE PollCount(p) \/ ClaimSelect(p) \/ ClaimCounts(p) \/ PollEnds(p) \/ PollFails(p)
  BY <1>1, <1>0 DEF PollCount, ClaimSelect, ClaimCounts, PollEnds, PollFails, Unheld
<1>2. ASSUME NEW i \in Jobs, SkipRow(p, i) \/ LoseRow(p, i)
      PROVE  status'[j] = status[j] /\ Unheld(j)'
  BY <1>2 DEF SkipRow, LoseRow, Unheld
<1>3. ASSUME NEW i \in Jobs, TakeRow(p, i) \/ TakeRowNow(p, i)
      PROVE  status'[j] = status[j] /\ Unheld(j)'
  <2>1. status[i] = "pending"
    BY <1>3 DEF TakeRow, TakeRowNow, NextCandidate, ClaimInv, Locking
  <2>2. i # j
    BY <2>1
  <2>3. status'[j] = status[j]
    BY <1>3, <2>2 DEF TakeRow, TakeRowNow, TypeOK
  <2>4. /\ UNCHANGED <<exec, recov>>
        /\ claimed' = [claimed EXCEPT ![p] = @ \cup {i}]
    BY <1>3 DEF TakeRow, TakeRowNow
  <2>5. QED
    BY <1>0, <2>2, <2>3, <2>4 DEF Unheld
<1>4. CASE ClaimCommit(p) \/ ClaimDone(p)
  BY <1>0, <1>4 DEF ClaimCommit, ClaimDone, ClaimEnds, Unheld
<1>5. ASSUME NEW i \in Jobs, Spawn(p, i) PROVE status'[j] = status[j] /\ Unheld(j)'
  <2>1. i # j /\ UNCHANGED <<status, recov>> /\ claimed' = [claimed EXCEPT ![p] = @ \ {i}]
    BY <1>0, <1>5 DEF Spawn
  <2>2. \A e \in exec' : e.job # j
    BY <1>0, <1>5, <2>1 DEF Spawn
  <2>3. QED
    BY <1>0, <2>1, <2>2 DEF Unheld
<1>6. ASSUME NEW i \in Jobs, FailUndefined(p, i) PROVE status'[j] = status[j] /\ Unheld(j)'
  <2>1. /\ i # j /\ UNCHANGED <<exec, recov>> /\ claimed' = [claimed EXCEPT ![p] = @ \ {i}]
        /\ fail_job(i, FALSE, 0, "handler")
    BY <1>0, <1>6 DEF FailUndefined
  <2>2. status'[j] = status[j]
    BY <2>1 DEF fail_job, SetStatus, TypeOK
  <2>3. QED
    BY <1>0, <2>1, <2>2 DEF Unheld
<1>7. QED
  BY <1>1, <1>2, <1>3, <1>4, <1>5, <1>6 DEF PollStep, ClaimStep

LEMMA SettledKept ==
  ASSUME TypeOK, Backend = "sqlite" => ClaimInv, Next,
         NEW j \in Jobs, status[j] \in Terminal, Unheld(j)
  PROVE  status'[j] \in {status[j], "deleted"} /\ Unheld(j)'
<1> DEFINE Goal == status'[j] \in {status[j], "deleted"} /\ Unheld(j)'
<1> USE DEF row, poll, Terminal
<1>1. ASSUME NEW i \in Jobs, insert_job_with(i) \/ BecomeDue(i) PROVE Goal
  BY <1>1 DEF insert_job_with, BecomeDue, Unheld, TypeOK
<1>2. ASSUME NEW S, cancel_pending_jobs(S) PROVE Goal
  BY <1>2 DEF cancel_pending_jobs, Unheld
<1>3. CASE purge_old_jobs
  BY <1>3 DEF purge_old_jobs, Unheld
<1>4. CASE SecondPasses
  BY <1>4 DEF SecondPasses, Unheld
<1>5. ASSUME NEW p \in Pollers, PollStep(p) PROVE Goal
  BY <1>5, PollLeavesSettled
<1>6. ASSUME NEW e \in exec, ExecStep(e) PROVE Goal
  <2>1. e.job # j
    BY DEF Unheld
  <2>2. status'[j] = status[j]
    BY <1>6, <2>1, VerdictElsewhere
  <2>3. Unheld(j)'
    BY <1>6, ExecHolders, HoldersShrink
  <2>4. QED
    BY <2>2, <2>3
<1>7. ASSUME NEW n \in Nodes, NodeStep(n) PROVE Goal
  <2>1. CASE NodeStart(n)
    <3>1. /\ UNCHANGED <<status, claimed, exec>>
          /\ recov' = [recov EXCEPT ![n] = {i \in Running : ~beat[i]}]
      BY <2>1 DEF NodeStart
    <3>2. \A m \in Nodes : j \notin recov'[m]
      BY <3>1 DEF Running, Unheld, TypeOK
    <3>3. QED
      BY <3>1, <3>2 DEF Unheld
  <2>2. ASSUME NEW i \in Jobs, RecoverMark(n, i) PROVE Goal
    <3>1. /\ i # j /\ UNCHANGED <<claimed, exec>> /\ status' = SetStatus(i, "stale")
          /\ recov' = [recov EXCEPT ![n] = @ \ {i}]
      BY <2>2 DEF RecoverMark, mark_stale, Unheld
    <3>2. status'[j] = status[j]
      BY <3>1 DEF SetStatus, TypeOK
    <3>3. QED
      BY <3>1, <3>2, HoldersShrink DEF TypeOK
  <2>3. CASE NodeReady(n)
    BY <2>3 DEF NodeReady, Unheld
  <2>4. CASE NodeStop(n)
    <3>1. /\ UNCHANGED status /\ exec' \subseteq exec
          /\ \A p \in Pollers : claimed'[p] \subseteq claimed[p]
          /\ \A m \in Nodes : recov'[m] \subseteq recov[m]
      BY <2>4 DEF NodeStop, TypeOK
    <3>2. QED
      BY <3>1, HoldersShrink
  <2>5. QED
    BY <1>7, <2>1, <2>2, <2>3, <2>4 DEF NodeStep
<1>8. QED
  BY <1>1, <1>2, <1>3, <1>4, <1>5, <1>6, <1>7 DEF Next

(* On both backends, for any number of schedulers and polls and with every *)
(* fault, late verdicts included: a job that has ended keeps its verdict,  *)
(* and is not run again, once nobody holds it.                             *)
THEOREM SettledIsFinalTheorem == Spec => SettledIsFinal
<1> DEFINE Kept == \A j \in Jobs :
              status[j] \in Terminal /\ Unheld(j) =>
                  status'[j] \in {status[j], "deleted"} /\ Unheld(j)'
<1>1. CASE Backend = "sqlite"
  <2>1. Spec => []ClaimInv
    BY <1>1, ClaimSerialised
  <2>2. TypeOK /\ ClaimInv /\ [Next]_vars => [Kept]_vars
    BY SettledKept
  <2>3. Spec => [][Kept]_vars
    BY <2>1, <2>2, TypeCorrect, PTL DEF Spec
  <2>4. QED
    BY <2>3 DEF SettledIsFinal
<1>2. CASE Backend # "sqlite"
  <2>1. TypeOK /\ [Next]_vars => [Kept]_vars
    BY <1>2, SettledKept
  <2>2. Spec => [][Kept]_vars
    BY <2>1, TypeCorrect, PTL DEF Spec
  <2>3. QED
    BY <2>2 DEF SettledIsFinal
<1>3. QED
  BY <1>1, <1>2

=============================================================================

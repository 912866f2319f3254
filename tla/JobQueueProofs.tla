--------------------------- MODULE JobQueueProofs ---------------------------
(***************************************************************************)
(* TLAPS proofs about JobQueue, for every value of its constants.           *)
(***************************************************************************)
EXTENDS JobQueue, SumTheorems, TLAPS

USE DEF Alive, Holding, States, Works, Results, drainVars

-----------------------------------------------------------------------------
(***************************************************************************)
(* Facts about the operators.                                               *)
(***************************************************************************)
\* The declared memory of a row is a natural number.
LEMMA MemType == TypeOK => \A j \in JobIds : Mem(j) \in Nat
  BY RequestsAssumption DEF TypeOK, Mem, Request, BackfillRequest

\* The queue order is total and transitive on the rows.
LEMMA BeforeOrder ==
    TypeOK => /\ \A i, j \in JobIds : i = j \/ Before(i, j) \/ Before(j, i)
              /\ \A i, j, k \in JobIds : Before(i, j) /\ Before(j, k) => Before(i, k)
<1> SUFFICES ASSUME TypeOK
             PROVE  /\ \A i, j \in JobIds : i = j \/ Before(i, j) \/ Before(j, i)
                    /\ \A i, j, k \in JobIds : Before(i, j) /\ Before(j, k) => Before(i, k)
  OBVIOUS
<1>1. \A j \in JobIds : req[j].priority \in Int /\ j \in Int
  BY RequestsAssumption, BoundsAssumption DEF TypeOK, Request, BackfillRequest, JobIds
<1>2. QED
  BY <1>1 DEF Before

\* A leading run comes before every row it leaves behind.
LEMMA LeadingRunFirst ==
    ASSUME TypeOK, NEW S \in SUBSET JobIds
    PROVE  \A i \in LeadingRun(S), j \in S \ LeadingRun(S) : Before(i, j)
<1> SUFFICES ASSUME NEW i \in LeadingRun(S), NEW j \in S \ LeadingRun(S) PROVE Before(i, j)
  OBVIOUS
<1>1. PICK k \in S : (k = j \/ Before(k, j)) /\ Kind(k) \notin ParallelSafe
  BY DEF LeadingRun
<1>2. i \in S /\ k # i /\ ~Before(k, i)
  BY <1>1 DEF LeadingRun
<1>3. QED
  BY <1>1, <1>2, BeforeOrder

\* Every selection a drain can be asked for is a subset of the pending rows.
LEMMA SelectionsSubset == ASSUME NEW P, NEW S \in Selections(P) PROVE S \subseteq P
  BY DEF Selections

\* While one drain is alive, no other is, and no other has rows still to come.
LEMMA Alone ==
    ASSUME TypeOK, LocksHeld, WhereRowsAre, NEW d \in Drains, pc[d] \in Alive
    PROVE  \A e \in Drains : e # d => pc[e] \notin Alive /\ sel[e] = {}
  BY DEF LocksHeld, WhereRowsAre

\* What _run_parallel_pool writes for each outcome.
LEMMA RecordedType ==
    \A r \in Results : /\ Recorded(r) \in {"pending", "done", "failed"}
                      /\ (r = "none" => Recorded(r) = "pending")
                      /\ (r = "ok" => Recorded(r) = "done")
                      /\ (r \notin {"none", "ok"} => Recorded(r) = "failed")
  BY DEF Recorded

-----------------------------------------------------------------------------
(***************************************************************************)
(* What the compound actions change, once their choices are made.           *)
(***************************************************************************)
\* The backfill inserts row j.
BackfillAt(j) ==
    /\ state[j] = "absent"
    /\ state' = [state EXCEPT ![j] = "running"]
    /\ req' = [req EXCEPT ![j] = BackfillRequest]
    /\ backfill' = j
    /\ UNCHANGED <<drainLock, writer, pc, width, sel, pool, late, stop, activeMem, work, result>>

LEMMA BackfillStartEffect == ASSUME BackfillStart PROVE \E j \in JobIds : BackfillAt(j)
  BY DEF BackfillStart, NextId, Rows, BackfillAt

\* The enqueuer inserts row j and supersedes pending rows.
NewRowAt(r, j) ==
    /\ state[j] = "absent" /\ state'[j] = "pending"
    /\ state' \in [JobIds -> States]
    /\ \A i \in JobIds : i # j => \/ state'[i] = state[i]
                                  \/ state[i] = "pending" /\ state'[i] = "superseded"
    /\ \A i \in JobIds : i # j => req'[i] = req[i]
    /\ req' = [req EXCEPT ![j] = r]
    /\ UNCHANGED <<drainLock, writer, backfill, pc, width, sel, pool, late, stop, activeMem, work, result>>

LEMMA EnqueueNewEffect ==
    ASSUME TypeOK, NEW r \in Requests, EnqueueNew(r) PROVE \E j \in JobIds : NewRowAt(r, j)
<1>1. PICK j \in JobIds : /\ NextId(j)
                          /\ state' = [Supersede(Stale(r)) EXCEPT ![j] = "pending"]
                          /\ req' = [req EXCEPT ![j] = r]
  BY DEF EnqueueNew
<1>2. state[j] = "absent"
  BY <1>1 DEF NextId, Rows
<1>3. /\ state'[j] = "pending"
      /\ state' \in [JobIds -> States]
      /\ \A i \in JobIds : i # j => \/ state'[i] = state[i]
                                    \/ state[i] = "pending" /\ state'[i] = "superseded"
  BY <1>1 DEF TypeOK, Supersede, Stale
<1>4. \A i \in JobIds : i # j => req'[i] = req[i]
  BY <1>1 DEF TypeOK
<1>5. QED
  BY <1>1, <1>2, <1>3, <1>4 DEF EnqueueNew, NewRowAt

\* The orphan sweep, with snapshot S (or none, and the drain exits).
SelectTo(d, S) ==
    /\ pc[d] = "open"
    /\ state' = Reclaimed
    /\ \A j \in S : j \in JobIds /\ Reclaimed[j] = "pending"
    /\ \/ End(d, "exited")
       \/ /\ sel' = [sel EXCEPT ![d] = S]
          /\ pc' = [pc EXCEPT ![d] = "scan"]
          /\ UNCHANGED <<drainLock, writer, width, late, stop, activeMem>>
    /\ UNCHANGED <<req, backfill, pool, work, result>>

LEMMA SelectEffect ==
    ASSUME NEW d \in Drains, ReclaimAndSelect(d) PROVE \E S \in SUBSET JobIds : SelectTo(d, S)
<1>1. PICK S \in Selections({j \in Rows : Reclaimed[j] = "pending"}) :
             \/ S = {} /\ End(d, "exited")
             \/ /\ S # {}
                /\ sel' = [sel EXCEPT ![d] = S]
                /\ pc' = [pc EXCEPT ![d] = "scan"]
                /\ UNCHANGED <<drainLock, writer, width, late, stop, activeMem>>
  BY DEF ReclaimAndSelect
<1>2. S \subseteq {j \in Rows : Reclaimed[j] = "pending"}
  BY SelectionsSubset
<1>3. S \in SUBSET JobIds /\ \A j \in S : j \in JobIds /\ Reclaimed[j] = "pending"
  BY <1>2 DEF Rows
<1>4. SelectTo(d, S)
  BY <1>1, <1>3 DEF ReclaimAndSelect, SelectTo
<1>5. QED
  BY <1>3, <1>4

\* The in-process job j ends with r.
FinishTo(d, j, r) ==
    /\ pc[d] = "inproc" /\ pc' = [pc EXCEPT ![d] = "scan"]
    /\ state' = [state EXCEPT ![j] = IF r = "ok" THEN "done" ELSE "failed"]
    /\ work' = [work EXCEPT ![d][j] = r]
    /\ result' = [result EXCEPT ![d][j] = r]
    /\ pool' = [pool EXCEPT ![d] = {}]
    /\ UNCHANGED <<req, drainLock, writer, backfill, width, sel, late, stop, activeMem>>

LEMMA FinishEffect ==
    ASSUME NEW d \in Drains, NEW r \in {"ok", "bad"}, FinishInProcess(d, r)
    PROVE  \E j \in pool[d] : FinishTo(d, j, r)
  BY DEF FinishInProcess, FinishTo

\* A pool takes the leading run and starts those of its rows that are not refused.
PoolTo(d, run, started) ==
    /\ pc[d] = "scan"
    /\ run \subseteq sel[d] /\ started \subseteq run
    /\ run = LeadingRun(sel[d])
    /\ \A j \in run : Kind(j) \in ParallelSafe
    /\ sel' = [sel EXCEPT ![d] = @ \ run]
    /\ pool' = [pool EXCEPT ![d] = started]
    /\ state' = [j \in JobIds |-> IF j \in run \ started THEN "failed"
                                  ELSE IF j \in started THEN "running" ELSE state[j]]
    /\ \/ started = {} /\ UNCHANGED <<writer, pc>>
       \/ started # {} /\ writer' = Nobody /\ pc' = [pc EXCEPT ![d] = "pool"]
    /\ stop' = [stop EXCEPT ![d] = "none"]
    /\ activeMem' = [activeMem EXCEPT ![d] = 0]
    /\ UNCHANGED <<req, drainLock, backfill, width, late, work, result>>

LEMMA PoolEffect ==
    ASSUME TypeOK, NEW d \in Drains, StartPool(d)
    PROVE  \E run, started \in SUBSET JobIds : PoolTo(d, run, started)
<1> DEFINE run     == LeadingRun(sel[d])
           refused == FirstOversized(run)
           started == run \ refused
<1>1. /\ run \subseteq sel[d]
      /\ \A j \in run : Kind(j) \in ParallelSafe
  BY DEF LeadingRun
<1>2. refused \subseteq run
  BY DEF FirstOversized
<1>3. /\ sel' = [sel EXCEPT ![d] = @ \ run]
      /\ pool' = [pool EXCEPT ![d] = started]
      /\ state' = [j \in JobIds |-> IF j \in refused THEN "failed"
                                    ELSE IF j \in started THEN "running" ELSE state[j]]
      /\ \/ started = {} /\ UNCHANGED <<writer, pc>>
         \/ started # {} /\ writer' = Nobody /\ pc' = [pc EXCEPT ![d] = "pool"]
  BY DEF StartPool
<1>4. refused = run \ started
  BY <1>2
<1>5. started \subseteq run /\ run = LeadingRun(sel[d])
  OBVIOUS
<1>6. /\ pc[d] = "scan"
      /\ stop' = [stop EXCEPT ![d] = "none"]
      /\ activeMem' = [activeMem EXCEPT ![d] = 0]
      /\ UNCHANGED <<req, drainLock, backfill, width, late, work, result>>
  BY DEF StartPool
<1> HIDE DEF run, refused, started
<1>7. PoolTo(d, run, started)
  BY <1>1, <1>3, <1>4, <1>5, <1>6 DEF PoolTo
<1>8. run \in SUBSET JobIds /\ started \in SUBSET JobIds
  BY <1>1, <1>5 DEF TypeOK
<1>9. QED
  BY <1>7, <1>8

\* The outcome of row j is recorded as state s.
RecordTo(d, j, s) ==
    /\ pc[d] = "record"
    /\ j \in pool[d]
    /\ state' = [state EXCEPT ![j] = s]
    /\ result[d][j] = "none" => s = "pending"
    /\ result[d][j] = "ok" => s = "done"
    /\ result[d][j] \in {"bad", "timeout"} => s = "failed"
    /\ pool' = [pool EXCEPT ![d] = @ \ {j}]
    /\ \/ pool[d] = {j} /\ End(d, "exited")
       \/ /\ pc' = [pc EXCEPT ![d] = IF pool[d] = {j} THEN "scan" ELSE "record"]
          /\ UNCHANGED <<drainLock, writer, width, sel, late, stop, activeMem>>
    /\ UNCHANGED <<req, backfill, work, result>>

LEMMA RecordEffect ==
    ASSUME TypeOK, NEW d \in Drains, NEW j \in JobIds, Record(d, j)
    PROVE  \E s \in {"pending", "done", "failed"} : RecordTo(d, j, s)
<1>1. result[d][j] \in Results
  BY DEF TypeOK
<1> DEFINE s == Recorded(result[d][j])
<1>2. /\ s \in {"pending", "done", "failed"}
      /\ result[d][j] = "none" => s = "pending"
      /\ result[d][j] = "ok" => s = "done"
      /\ result[d][j] \in {"bad", "timeout"} => s = "failed"
  BY <1>1, RecordedType, Zenon
<1>3. state' = [state EXCEPT ![j] = s]
  BY DEF Record
<1> HIDE DEF s
<1>4. RecordTo(d, j, s)
  BY <1>2, <1>3 DEF Record, IsFirst, RecordTo
<1>5. QED
  BY <1>2, <1>4

-----------------------------------------------------------------------------
(***************************************************************************)
(* The parts of the inductive invariant, step by step.                      *)
(***************************************************************************)
\* Every step of the queue keeps every variable in its type.
LEMMA TypeStep ==
    TypeOK /\ [Next]_vars => TypeOK'
<1> SUFFICES ASSUME TypeOK, [Next]_vars PROVE TypeOK'
  OBVIOUS
<1> USE DEF TypeOK, PARALLEL_JOBS_MAX
<1>1. ASSUME NEW r \in Requests, EnqueueOnceDone(r) PROVE TypeOK'
  BY <1>1 DEF EnqueueOnceDone, Supersede, Matching, Rows
<1>2. ASSUME NEW r \in Requests, EnqueueNew(r) PROVE TypeOK'
  BY <1>2 DEF EnqueueNew, Supersede, Stale, NextId, Rows
<1>3. ASSUME NEW r \in Requests, EnqueueDies(r) PROVE TypeOK'
  BY <1>3 DEF EnqueueDies, Supersede, Stale, Rows
<1>4. ASSUME SupersedeStalePending PROVE TypeOK'
  BY <1>4 DEF SupersedeStalePending, Supersede, Rows
<1>5. ASSUME OtherOpens \/ OtherCloses \/ BackfillDies PROVE TypeOK'
  BY <1>5 DEF OtherOpens, OtherCloses, BackfillDies
<1>6. ASSUME BackfillStart PROVE TypeOK'
  <2>1. PICK j \in JobIds : BackfillAt(j)
    BY <1>6, BackfillStartEffect
  <2>2. QED
    BY <2>1 DEF BackfillAt
<1>7. ASSUME NEW s \in {"running", "done"}, BackfillBatch(s) PROVE TypeOK'
  BY <1>7 DEF BackfillBatch
<1>8. ASSUME NEW d \in Drains, AcquireDrainLock(d) PROVE TypeOK'
  BY <1>8, WidthsAssumption DEF AcquireDrainLock, LockFree, Clamped
<1>9. ASSUME NEW d \in Drains, DeclineDrain(d) PROVE TypeOK'
  BY <1>9 DEF DeclineDrain
<1>10. ASSUME NEW d \in Drains, Connect(d) PROVE TypeOK'
  BY <1>10 DEF Connect
<1>11. ASSUME NEW d \in Drains, ConnectFails(d) PROVE TypeOK'
  BY <1>11 DEF ConnectFails, Lose, End
<1>12. ASSUME NEW d \in Drains, ReclaimAndSelect(d) PROVE TypeOK'
  <2>1. PICK S \in SUBSET JobIds : SelectTo(d, S)
    BY <1>12, SelectEffect
  <2>2. CASE End(d, "exited")
    BY <2>1, <2>2 DEF SelectTo, Reclaimed, End
  <2>3. CASE ~End(d, "exited")
    BY <2>1, <2>3 DEF SelectTo, Reclaimed
  <2>4. QED
    BY <2>2, <2>3
<1>13. ASSUME NEW d \in Drains, BudgetExpires(d) \/ PoolBudgetStop(d) \/ PoolGuardStop(d) PROVE
      TypeOK'
  BY <1>13 DEF BudgetExpires, PoolBudgetStop, PoolGuardStop
<1>14. ASSUME NEW d \in Drains, ScanDone(d) PROVE TypeOK'
  BY <1>14 DEF ScanDone, End
<1>15. ASSUME NEW d \in Drains, ScanGuardTrips(d) PROVE TypeOK'
  BY <1>15 DEF ScanGuardTrips, End
<1>16. ASSUME NEW d \in Drains, NEW j \in JobIds, RefuseJob(d, j) PROVE TypeOK'
  BY <1>16 DEF RefuseJob, Next1, IsFirst
<1>17. ASSUME NEW d \in Drains, NEW j \in JobIds, SkipArchiveJob(d, j) PROVE TypeOK'
  BY <1>17 DEF SkipArchiveJob, Next1, IsFirst
<1>18. ASSUME NEW d \in Drains, NEW j \in JobIds, StartReleasing(d, j) PROVE TypeOK'
  BY <1>18 DEF StartReleasing, Next1, IsFirst, Dispatchable
<1>19. ASSUME NEW d \in Drains, NEW j \in JobIds, StartInProcess(d, j) PROVE TypeOK'
  BY <1>19 DEF StartInProcess, Next1, IsFirst, Dispatchable
<1>20. ASSUME NEW d \in Drains, NEW r \in {"ok", "bad"}, FinishInProcess(d, r) PROVE TypeOK'
  <2>1. PICK j \in pool[d] : FinishTo(d, j, r)
    BY <1>20, FinishEffect
  <2>2. QED
    BY <2>1 DEF FinishTo
<1>21. ASSUME NEW d \in Drains, StartPool(d) PROVE TypeOK'
  <2>1. PICK run, started \in SUBSET JobIds : PoolTo(d, run, started)
    BY <1>21, PoolEffect
  <2>2. QED
    BY <2>1 DEF PoolTo
<1>22. ASSUME NEW d \in Drains, NEW j \in JobIds, PoolLaunch(d, j) PROVE TypeOK'
  BY <1>22, MemType DEF PoolLaunch, MayLaunch, IsFirst, Unlaunched
<1>23. ASSUME NEW d \in Drains, NEW j \in JobIds, NEW r \in {"ok", "bad"}, ChildExits(d, j, r)
      PROVE TypeOK'
  BY <1>23 DEF ChildExits
<1>24. ASSUME NEW d \in Drains, NEW j \in JobIds, Reap(d, j) PROVE TypeOK'
  BY <1>24, MemType DEF Reap, Settle, Active, Started, FreedMem
<1>25. ASSUME NEW d \in Drains, NEW j \in JobIds, Timeout(d, j) PROVE TypeOK'
  BY <1>25, MemType DEF Timeout, Settle, Active, Started, FreedMem
<1>26. ASSUME NEW d \in Drains, Reacquire(d) PROVE TypeOK'
  BY <1>26 DEF Reacquire, Quiet, Active, Started
<1>27. ASSUME NEW d \in Drains, ReacquireFails(d) PROVE TypeOK'
  BY <1>27 DEF ReacquireFails, Quiet, Lose, End
<1>28. ASSUME NEW d \in Drains, NEW j \in JobIds, Record(d, j) PROVE TypeOK'
  <2>1. PICK s \in {"pending", "done", "failed"} : RecordTo(d, j, s)
    BY <1>28, RecordEffect
  <2>2. CASE End(d, "exited")
    BY <2>1, <2>2 DEF RecordTo, End
  <2>3. CASE ~End(d, "exited")
    BY <2>1, <2>3 DEF RecordTo
  <2>4. QED
    BY <2>2, <2>3
<1>29. ASSUME NEW d \in Drains, PoolAborts(d) PROVE TypeOK'
  BY <1>29 DEF PoolAborts, Lose, End
<1>30. ASSUME NEW d \in Drains, DrainDies(d) PROVE TypeOK'
  BY <1>30 DEF DrainDies, Lose, End
<1>31. CASE UNCHANGED vars
  BY <1>31 DEF vars
<1>32. QED
  BY <1>1, <1>2, <1>3, <1>4, <1>5, <1>6, <1>7, <1>8, <1>9, <1>10, <1>11, <1>12, <1>13, <1>14,
     <1>15, <1>16, <1>17, <1>18, <1>19, <1>20, <1>21, <1>22, <1>23, <1>24, <1>25, <1>26, <1>27,
     <1>28, <1>29, <1>30, <1>31 DEF Next, EnqueueStep, StoreStep, DrainStep, GuardStep,
     ClockStep, FailureStep, ChildStep

\* The drain lock excludes a second live drain, and DuckDB a second writer, at every step.
LEMMA LocksStep ==
    TypeOK /\ LocksHeld /\ [Next]_vars => LocksHeld'
<1> SUFFICES ASSUME TypeOK, LocksHeld, [Next]_vars PROVE LocksHeld'
  OBVIOUS
<1> USE DEF TypeOK, LocksHeld
<1>1. ASSUME NEW r \in Requests, EnqueueOnceDone(r) PROVE LocksHeld'
  BY <1>1, HoldersAssumption DEF EnqueueOnceDone, Supersede, Matching, Rows
<1>2. ASSUME NEW r \in Requests, EnqueueNew(r) PROVE LocksHeld'
  BY <1>2, HoldersAssumption DEF EnqueueNew, Supersede, Stale, NextId, Rows
<1>3. ASSUME NEW r \in Requests, EnqueueDies(r) PROVE LocksHeld'
  BY <1>3, HoldersAssumption DEF EnqueueDies, Supersede, Stale, Rows
<1>4. ASSUME SupersedeStalePending PROVE LocksHeld'
  BY <1>4, HoldersAssumption DEF SupersedeStalePending, Supersede, Rows
<1>5. ASSUME OtherOpens \/ OtherCloses \/ BackfillDies PROVE LocksHeld'
  BY <1>5, HoldersAssumption DEF OtherOpens, OtherCloses, BackfillDies
<1>6. ASSUME BackfillStart PROVE LocksHeld'
  <2>1. PICK j \in JobIds : BackfillAt(j)
    BY <1>6, BackfillStartEffect
  <2>2. QED
    BY <2>1, HoldersAssumption DEF BackfillAt
<1>7. ASSUME NEW s \in {"running", "done"}, BackfillBatch(s) PROVE LocksHeld'
  BY <1>7, HoldersAssumption DEF BackfillBatch
<1>8. ASSUME NEW d \in Drains, AcquireDrainLock(d) PROVE LocksHeld'
  BY <1>8, HoldersAssumption DEF AcquireDrainLock, LockFree
<1>9. ASSUME NEW d \in Drains, DeclineDrain(d) PROVE LocksHeld'
  BY <1>9, HoldersAssumption DEF DeclineDrain
<1>10. ASSUME NEW d \in Drains, Connect(d) PROVE LocksHeld'
  BY <1>10, HoldersAssumption DEF Connect
<1>11. ASSUME NEW d \in Drains, ConnectFails(d) PROVE LocksHeld'
  BY <1>11, HoldersAssumption DEF ConnectFails, Lose, End
<1>12. ASSUME NEW d \in Drains, ReclaimAndSelect(d) PROVE LocksHeld'
  <2>1. PICK S \in SUBSET JobIds : SelectTo(d, S)
    BY <1>12, SelectEffect
  <2>2. CASE End(d, "exited")
    BY <2>1, <2>2, HoldersAssumption DEF SelectTo, Reclaimed, End
  <2>3. CASE ~End(d, "exited")
    BY <2>1, <2>3, HoldersAssumption DEF SelectTo, Reclaimed
  <2>4. QED
    BY <2>2, <2>3
<1>13. ASSUME NEW d \in Drains, BudgetExpires(d) \/ PoolBudgetStop(d) \/ PoolGuardStop(d) PROVE
      LocksHeld'
  BY <1>13, HoldersAssumption DEF BudgetExpires, PoolBudgetStop, PoolGuardStop
<1>14. ASSUME NEW d \in Drains, ScanDone(d) PROVE LocksHeld'
  BY <1>14, HoldersAssumption DEF ScanDone, End
<1>15. ASSUME NEW d \in Drains, ScanGuardTrips(d) PROVE LocksHeld'
  BY <1>15, HoldersAssumption DEF ScanGuardTrips, End
<1>16. ASSUME NEW d \in Drains, NEW j \in JobIds, RefuseJob(d, j) PROVE LocksHeld'
  BY <1>16, HoldersAssumption DEF RefuseJob, Next1, IsFirst
<1>17. ASSUME NEW d \in Drains, NEW j \in JobIds, SkipArchiveJob(d, j) PROVE LocksHeld'
  BY <1>17, HoldersAssumption DEF SkipArchiveJob, Next1, IsFirst
<1>18. ASSUME NEW d \in Drains, NEW j \in JobIds, StartReleasing(d, j) PROVE LocksHeld'
  BY <1>18, HoldersAssumption DEF StartReleasing, Next1, IsFirst, Dispatchable
<1>19. ASSUME NEW d \in Drains, NEW j \in JobIds, StartInProcess(d, j) PROVE LocksHeld'
  BY <1>19, HoldersAssumption DEF StartInProcess, Next1, IsFirst, Dispatchable
<1>20. ASSUME NEW d \in Drains, NEW r \in {"ok", "bad"}, FinishInProcess(d, r) PROVE LocksHeld'
  <2>1. PICK j \in pool[d] : FinishTo(d, j, r)
    BY <1>20, FinishEffect
  <2>2. QED
    BY <2>1, HoldersAssumption DEF FinishTo
<1>21. ASSUME NEW d \in Drains, StartPool(d) PROVE LocksHeld'
  <2>1. PICK run, started \in SUBSET JobIds : PoolTo(d, run, started)
    BY <1>21, PoolEffect
  <2>2. QED
    BY <2>1, HoldersAssumption DEF PoolTo
<1>22. ASSUME NEW d \in Drains, NEW j \in JobIds, PoolLaunch(d, j) PROVE LocksHeld'
  BY <1>22, HoldersAssumption DEF PoolLaunch, MayLaunch, IsFirst, Unlaunched
<1>23. ASSUME NEW d \in Drains, NEW j \in JobIds, NEW r \in {"ok", "bad"}, ChildExits(d, j, r)
      PROVE LocksHeld'
  BY <1>23, HoldersAssumption DEF ChildExits
<1>24. ASSUME NEW d \in Drains, NEW j \in JobIds, Reap(d, j) PROVE LocksHeld'
  BY <1>24, HoldersAssumption DEF Reap, Settle, Active, Started
<1>25. ASSUME NEW d \in Drains, NEW j \in JobIds, Timeout(d, j) PROVE LocksHeld'
  BY <1>25, HoldersAssumption DEF Timeout, Settle, Active, Started
<1>26. ASSUME NEW d \in Drains, Reacquire(d) PROVE LocksHeld'
  BY <1>26, HoldersAssumption DEF Reacquire, Quiet, Active, Started
<1>27. ASSUME NEW d \in Drains, ReacquireFails(d) PROVE LocksHeld'
  BY <1>27, HoldersAssumption DEF ReacquireFails, Quiet, Lose, End
<1>28. ASSUME NEW d \in Drains, NEW j \in JobIds, Record(d, j) PROVE LocksHeld'
  <2>1. PICK s \in {"pending", "done", "failed"} : RecordTo(d, j, s)
    BY <1>28, RecordEffect
  <2>2. CASE End(d, "exited")
    BY <2>1, <2>2, HoldersAssumption DEF RecordTo, End
  <2>3. CASE ~End(d, "exited")
    BY <2>1, <2>3, HoldersAssumption DEF RecordTo
  <2>4. QED
    BY <2>2, <2>3
<1>29. ASSUME NEW d \in Drains, PoolAborts(d) PROVE LocksHeld'
  BY <1>29, HoldersAssumption DEF PoolAborts, Lose, End
<1>30. ASSUME NEW d \in Drains, DrainDies(d) PROVE LocksHeld'
  BY <1>30, HoldersAssumption DEF DrainDies, Lose, End
<1>31. CASE UNCHANGED vars
  BY <1>31 DEF vars
<1>32. QED
  BY <1>1, <1>2, <1>3, <1>4, <1>5, <1>6, <1>7, <1>8, <1>9, <1>10, <1>11, <1>12, <1>13, <1>14,
     <1>15, <1>16, <1>17, <1>18, <1>19, <1>20, <1>21, <1>22, <1>23, <1>24, <1>25, <1>26, <1>27,
     <1>28, <1>29, <1>30, <1>31 DEF Next, EnqueueStep, StoreStep, DrainStep, GuardStep,
     ClockStep, FailureStep, ChildStep

\* A drain has rows in hand only where its program counter says so.
LEMMA RowsStep ==
    TypeOK /\ WhereRowsAre /\ [Next]_vars => WhereRowsAre'
<1> SUFFICES ASSUME TypeOK, WhereRowsAre, [Next]_vars PROVE WhereRowsAre'
  OBVIOUS
<1> USE DEF TypeOK, WhereRowsAre
<1>1. ASSUME NEW r \in Requests, EnqueueOnceDone(r) PROVE WhereRowsAre'
  BY <1>1 DEF EnqueueOnceDone, Supersede, Matching, Rows
<1>2. ASSUME NEW r \in Requests, EnqueueNew(r) PROVE WhereRowsAre'
  BY <1>2 DEF EnqueueNew, Supersede, Stale, NextId, Rows
<1>3. ASSUME NEW r \in Requests, EnqueueDies(r) PROVE WhereRowsAre'
  BY <1>3 DEF EnqueueDies, Supersede, Stale, Rows
<1>4. ASSUME SupersedeStalePending PROVE WhereRowsAre'
  BY <1>4 DEF SupersedeStalePending, Supersede, Rows
<1>5. ASSUME OtherOpens \/ OtherCloses \/ BackfillDies PROVE WhereRowsAre'
  BY <1>5 DEF OtherOpens, OtherCloses, BackfillDies
<1>6. ASSUME BackfillStart PROVE WhereRowsAre'
  <2>1. PICK j \in JobIds : BackfillAt(j)
    BY <1>6, BackfillStartEffect
  <2>2. QED
    BY <2>1 DEF BackfillAt
<1>7. ASSUME NEW s \in {"running", "done"}, BackfillBatch(s) PROVE WhereRowsAre'
  BY <1>7 DEF BackfillBatch
<1>8. ASSUME NEW d \in Drains, AcquireDrainLock(d) PROVE WhereRowsAre'
  BY <1>8 DEF AcquireDrainLock, LockFree
<1>9. ASSUME NEW d \in Drains, DeclineDrain(d) PROVE WhereRowsAre'
  BY <1>9 DEF DeclineDrain
<1>10. ASSUME NEW d \in Drains, Connect(d) PROVE WhereRowsAre'
  BY <1>10 DEF Connect
<1>11. ASSUME NEW d \in Drains, ConnectFails(d) PROVE WhereRowsAre'
  BY <1>11 DEF ConnectFails, Lose, End
<1>12. ASSUME NEW d \in Drains, ReclaimAndSelect(d) PROVE WhereRowsAre'
  <2>1. PICK S \in SUBSET JobIds : SelectTo(d, S)
    BY <1>12, SelectEffect
  <2>2. CASE End(d, "exited")
    BY <2>1, <2>2 DEF SelectTo, Reclaimed, End
  <2>3. CASE ~End(d, "exited")
    <3>1. /\ pc[d] = "open" /\ sel' = [sel EXCEPT ![d] = S] /\ pc' = [pc EXCEPT ![d] = "scan"]
          /\ state' = Reclaimed /\ UNCHANGED <<req, pool>>
          /\ \A j \in S : j \in JobIds /\ Reclaimed[j] = "pending"
      BY <2>1, <2>3 DEF SelectTo
    <3>2. pool[d] = {}
      BY <3>1
    <3>3. QED
      BY <3>1, <3>2
  <2>4. QED
    BY <2>2, <2>3
<1>13. ASSUME NEW d \in Drains, BudgetExpires(d) \/ PoolBudgetStop(d) \/ PoolGuardStop(d) PROVE
      WhereRowsAre'
  BY <1>13 DEF BudgetExpires, PoolBudgetStop, PoolGuardStop
<1>14. ASSUME NEW d \in Drains, ScanDone(d) PROVE WhereRowsAre'
  BY <1>14 DEF ScanDone, End
<1>15. ASSUME NEW d \in Drains, ScanGuardTrips(d) PROVE WhereRowsAre'
  BY <1>15 DEF ScanGuardTrips, End
<1>16. ASSUME NEW d \in Drains, NEW j \in JobIds, RefuseJob(d, j) PROVE WhereRowsAre'
  BY <1>16 DEF RefuseJob, Next1, IsFirst
<1>17. ASSUME NEW d \in Drains, NEW j \in JobIds, SkipArchiveJob(d, j) PROVE WhereRowsAre'
  BY <1>17 DEF SkipArchiveJob, Next1, IsFirst
<1>18. ASSUME NEW d \in Drains, NEW j \in JobIds, StartReleasing(d, j) PROVE WhereRowsAre'
  BY <1>18 DEF StartReleasing, Next1, IsFirst, Dispatchable
<1>19. ASSUME NEW d \in Drains, NEW j \in JobIds, StartInProcess(d, j) PROVE WhereRowsAre'
  BY <1>19 DEF StartInProcess, Next1, IsFirst, Dispatchable
<1>20. ASSUME NEW d \in Drains, NEW r \in {"ok", "bad"}, FinishInProcess(d, r) PROVE
      WhereRowsAre'
  <2>1. PICK j \in pool[d] : FinishTo(d, j, r)
    BY <1>20, FinishEffect
  <2>2. QED
    BY <2>1 DEF FinishTo
<1>21. ASSUME NEW d \in Drains, StartPool(d) PROVE WhereRowsAre'
  <2>1. PICK run, started \in SUBSET JobIds : PoolTo(d, run, started)
    BY <1>21, PoolEffect
  <2>2. QED
    BY <2>1 DEF PoolTo
<1>22. ASSUME NEW d \in Drains, NEW j \in JobIds, PoolLaunch(d, j) PROVE WhereRowsAre'
  BY <1>22 DEF PoolLaunch, MayLaunch, IsFirst, Unlaunched
<1>23. ASSUME NEW d \in Drains, NEW j \in JobIds, NEW r \in {"ok", "bad"}, ChildExits(d, j, r)
      PROVE WhereRowsAre'
  BY <1>23 DEF ChildExits
<1>24. ASSUME NEW d \in Drains, NEW j \in JobIds, Reap(d, j) PROVE WhereRowsAre'
  BY <1>24 DEF Reap, Settle, Active, Started
<1>25. ASSUME NEW d \in Drains, NEW j \in JobIds, Timeout(d, j) PROVE WhereRowsAre'
  BY <1>25 DEF Timeout, Settle, Active, Started
<1>26. ASSUME NEW d \in Drains, Reacquire(d) PROVE WhereRowsAre'
  BY <1>26 DEF Reacquire, Quiet, Active, Started
<1>27. ASSUME NEW d \in Drains, ReacquireFails(d) PROVE WhereRowsAre'
  BY <1>27 DEF ReacquireFails, Quiet, Lose, End
<1>28. ASSUME NEW d \in Drains, NEW j \in JobIds, Record(d, j) PROVE WhereRowsAre'
  <2>1. PICK s \in {"pending", "done", "failed"} : RecordTo(d, j, s)
    BY <1>28, RecordEffect
  <2>2. CASE End(d, "exited")
    BY <2>1, <2>2 DEF RecordTo, End
  <2>3. CASE ~End(d, "exited")
    BY <2>1, <2>3 DEF RecordTo
  <2>4. QED
    BY <2>2, <2>3
<1>29. ASSUME NEW d \in Drains, PoolAborts(d) PROVE WhereRowsAre'
  BY <1>29 DEF PoolAborts, Lose, End
<1>30. ASSUME NEW d \in Drains, DrainDies(d) PROVE WhereRowsAre'
  BY <1>30 DEF DrainDies, Lose, End
<1>31. CASE UNCHANGED vars
  BY <1>31 DEF vars
<1>32. QED
  BY <1>1, <1>2, <1>3, <1>4, <1>5, <1>6, <1>7, <1>8, <1>9, <1>10, <1>11, <1>12, <1>13, <1>14,
     <1>15, <1>16, <1>17, <1>18, <1>19, <1>20, <1>21, <1>22, <1>23, <1>24, <1>25, <1>26, <1>27,
     <1>28, <1>29, <1>30, <1>31 DEF Next, EnqueueStep, StoreStep, DrainStep, GuardStep,
     ClockStep, FailureStep, ChildStep

\* The live backfill keeps a row of its own.
LEMMA BackfillStep ==
    TypeOK /\ BackfillOwn /\ [Next]_vars => BackfillOwn'
<1> SUFFICES ASSUME TypeOK, BackfillOwn, [Next]_vars PROVE BackfillOwn'
  OBVIOUS
<1> USE DEF TypeOK, BackfillOwn, Kind
<1>1. ASSUME NEW r \in Requests, EnqueueOnceDone(r) PROVE BackfillOwn'
  BY <1>1 DEF EnqueueOnceDone, Supersede, Matching, Rows
<1>2. ASSUME NEW r \in Requests, EnqueueNew(r) PROVE BackfillOwn'
  BY <1>2 DEF EnqueueNew, Supersede, Stale, NextId, Rows
<1>3. ASSUME NEW r \in Requests, EnqueueDies(r) PROVE BackfillOwn'
  BY <1>3 DEF EnqueueDies, Supersede, Stale, Rows
<1>4. ASSUME SupersedeStalePending PROVE BackfillOwn'
  BY <1>4 DEF SupersedeStalePending, Supersede, Rows
<1>5. ASSUME OtherOpens \/ OtherCloses \/ BackfillDies PROVE BackfillOwn'
  BY <1>5 DEF OtherOpens, OtherCloses, BackfillDies
<1>6. ASSUME BackfillStart PROVE BackfillOwn'
  <2>1. PICK j \in JobIds : BackfillAt(j)
    BY <1>6, BackfillStartEffect
  <2>2. QED
    BY <2>1 DEF BackfillAt, BackfillRequest
<1>7. ASSUME NEW s \in {"running", "done"}, BackfillBatch(s) PROVE BackfillOwn'
  BY <1>7 DEF BackfillBatch
<1>8. ASSUME NEW d \in Drains, AcquireDrainLock(d) PROVE BackfillOwn'
  BY <1>8 DEF AcquireDrainLock, LockFree
<1>9. ASSUME NEW d \in Drains, DeclineDrain(d) PROVE BackfillOwn'
  BY <1>9 DEF DeclineDrain
<1>10. ASSUME NEW d \in Drains, Connect(d) PROVE BackfillOwn'
  BY <1>10 DEF Connect
<1>11. ASSUME NEW d \in Drains, ConnectFails(d) PROVE BackfillOwn'
  BY <1>11 DEF ConnectFails, Lose, End
<1>12. ASSUME NEW d \in Drains, ReclaimAndSelect(d) PROVE BackfillOwn'
  <2>1. PICK S \in SUBSET JobIds : SelectTo(d, S)
    BY <1>12, SelectEffect
  <2>2. CASE End(d, "exited")
    BY <2>1, <2>2 DEF SelectTo, Reclaimed, End
  <2>3. CASE ~End(d, "exited")
    BY <2>1, <2>3 DEF SelectTo, Reclaimed
  <2>4. QED
    BY <2>2, <2>3
<1>13. ASSUME NEW d \in Drains, BudgetExpires(d) \/ PoolBudgetStop(d) \/ PoolGuardStop(d) PROVE
      BackfillOwn'
  BY <1>13 DEF BudgetExpires, PoolBudgetStop, PoolGuardStop
<1>14. ASSUME NEW d \in Drains, ScanDone(d) PROVE BackfillOwn'
  BY <1>14 DEF ScanDone, End
<1>15. ASSUME NEW d \in Drains, ScanGuardTrips(d) PROVE BackfillOwn'
  BY <1>15 DEF ScanGuardTrips, End
<1>16. ASSUME NEW d \in Drains, NEW j \in JobIds, RefuseJob(d, j) PROVE BackfillOwn'
  BY <1>16 DEF RefuseJob, Next1, IsFirst
<1>17. ASSUME NEW d \in Drains, NEW j \in JobIds, SkipArchiveJob(d, j) PROVE BackfillOwn'
  BY <1>17 DEF SkipArchiveJob, Next1, IsFirst
<1>18. ASSUME NEW d \in Drains, NEW j \in JobIds, StartReleasing(d, j) PROVE BackfillOwn'
  BY <1>18 DEF StartReleasing, Next1, IsFirst, Dispatchable
<1>19. ASSUME NEW d \in Drains, NEW j \in JobIds, StartInProcess(d, j) PROVE BackfillOwn'
  BY <1>19 DEF StartInProcess, Next1, IsFirst, Dispatchable
<1>20. ASSUME NEW d \in Drains, NEW r \in {"ok", "bad"}, FinishInProcess(d, r) PROVE
      BackfillOwn'
  <2>1. PICK j \in pool[d] : FinishTo(d, j, r)
    BY <1>20, FinishEffect
  <2>2. QED
    BY <2>1 DEF FinishTo
<1>21. ASSUME NEW d \in Drains, StartPool(d) PROVE BackfillOwn'
  <2>1. PICK run, started \in SUBSET JobIds : PoolTo(d, run, started)
    BY <1>21, PoolEffect
  <2>2. QED
    BY <2>1 DEF PoolTo
<1>22. ASSUME NEW d \in Drains, NEW j \in JobIds, PoolLaunch(d, j) PROVE BackfillOwn'
  BY <1>22 DEF PoolLaunch, MayLaunch, IsFirst, Unlaunched
<1>23. ASSUME NEW d \in Drains, NEW j \in JobIds, NEW r \in {"ok", "bad"}, ChildExits(d, j, r)
      PROVE BackfillOwn'
  BY <1>23 DEF ChildExits
<1>24. ASSUME NEW d \in Drains, NEW j \in JobIds, Reap(d, j) PROVE BackfillOwn'
  BY <1>24 DEF Reap, Settle, Active, Started
<1>25. ASSUME NEW d \in Drains, NEW j \in JobIds, Timeout(d, j) PROVE BackfillOwn'
  BY <1>25 DEF Timeout, Settle, Active, Started
<1>26. ASSUME NEW d \in Drains, Reacquire(d) PROVE BackfillOwn'
  BY <1>26 DEF Reacquire, Quiet, Active, Started
<1>27. ASSUME NEW d \in Drains, ReacquireFails(d) PROVE BackfillOwn'
  BY <1>27 DEF ReacquireFails, Quiet, Lose, End
<1>28. ASSUME NEW d \in Drains, NEW j \in JobIds, Record(d, j) PROVE BackfillOwn'
  <2>1. PICK s \in {"pending", "done", "failed"} : RecordTo(d, j, s)
    BY <1>28, RecordEffect
  <2>2. CASE End(d, "exited")
    BY <2>1, <2>2 DEF RecordTo, End
  <2>3. CASE ~End(d, "exited")
    BY <2>1, <2>3 DEF RecordTo
  <2>4. QED
    BY <2>2, <2>3
<1>29. ASSUME NEW d \in Drains, PoolAborts(d) PROVE BackfillOwn'
  BY <1>29 DEF PoolAborts, Lose, End
<1>30. ASSUME NEW d \in Drains, DrainDies(d) PROVE BackfillOwn'
  BY <1>30 DEF DrainDies, Lose, End
<1>31. CASE UNCHANGED vars
  BY <1>31 DEF vars
<1>32. QED
  BY <1>1, <1>2, <1>3, <1>4, <1>5, <1>6, <1>7, <1>8, <1>9, <1>10, <1>11, <1>12, <1>13, <1>14,
     <1>15, <1>16, <1>17, <1>18, <1>19, <1>20, <1>21, <1>22, <1>23, <1>24, <1>25, <1>26, <1>27,
     <1>28, <1>29, <1>30, <1>31 DEF Next, EnqueueStep, StoreStep, DrainStep, GuardStep,
     ClockStep, FailureStep, ChildStep

\* No step takes a row away from the drain that holds it.
LEMMA HeldStep ==
    TypeOK /\ LocksHeld /\ WhereRowsAre /\ BackfillOwn /\ PoolKinds /\ HeldRowsRunning /\
    [Next]_vars => HeldRowsRunning'
<1> SUFFICES ASSUME TypeOK, LocksHeld, WhereRowsAre, BackfillOwn, PoolKinds, HeldRowsRunning,
      [Next]_vars PROVE HeldRowsRunning'
  OBVIOUS
<1> USE DEF TypeOK, LocksHeld, WhereRowsAre, HeldRowsRunning
<1>1. ASSUME NEW r \in Requests, EnqueueOnceDone(r) PROVE HeldRowsRunning'
  BY <1>1 DEF EnqueueOnceDone, Supersede, Matching, Rows
<1>2. ASSUME NEW r \in Requests, EnqueueNew(r) PROVE HeldRowsRunning'
  BY <1>2 DEF EnqueueNew, Supersede, Stale, NextId, Rows
<1>3. ASSUME NEW r \in Requests, EnqueueDies(r) PROVE HeldRowsRunning'
  BY <1>3 DEF EnqueueDies, Supersede, Stale, Rows
<1>4. ASSUME SupersedeStalePending PROVE HeldRowsRunning'
  BY <1>4 DEF SupersedeStalePending, Supersede, Rows
<1>5. ASSUME OtherOpens \/ OtherCloses \/ BackfillDies PROVE HeldRowsRunning'
  BY <1>5 DEF OtherOpens, OtherCloses, BackfillDies
<1>6. ASSUME BackfillStart PROVE HeldRowsRunning'
  <2>1. PICK j \in JobIds : BackfillAt(j)
    BY <1>6, BackfillStartEffect
  <2>2. QED
    BY <2>1 DEF BackfillAt
<1>7. ASSUME NEW s \in {"running", "done"}, BackfillBatch(s) PROVE HeldRowsRunning'
  BY <1>7 DEF BackfillBatch, BackfillOwn, PoolKinds, Kind, JOB_TYPES, Backfill, ParallelSafe,
     ReleasesWriter
<1>8. ASSUME NEW d \in Drains, AcquireDrainLock(d) PROVE HeldRowsRunning'
  BY <1>8 DEF AcquireDrainLock, LockFree
<1>9. ASSUME NEW d \in Drains, DeclineDrain(d) PROVE HeldRowsRunning'
  BY <1>9 DEF DeclineDrain
<1>10. ASSUME NEW d \in Drains, Connect(d) PROVE HeldRowsRunning'
  BY <1>10 DEF Connect
<1>11. ASSUME NEW d \in Drains, ConnectFails(d) PROVE HeldRowsRunning'
  BY <1>11 DEF ConnectFails, Lose, End
<1>12. ASSUME NEW d \in Drains, ReclaimAndSelect(d) PROVE HeldRowsRunning'
  <2>1. PICK S \in SUBSET JobIds : SelectTo(d, S)
    BY <1>12, SelectEffect
  <2>2. CASE End(d, "exited")
    BY <2>1, <2>2 DEF SelectTo, Reclaimed, End
  <2>3. CASE ~End(d, "exited")
    <3>1. /\ pc[d] = "open" /\ sel' = [sel EXCEPT ![d] = S] /\ pc' = [pc EXCEPT ![d] = "scan"]
          /\ state' = Reclaimed /\ UNCHANGED <<req, pool>>
          /\ \A j \in S : j \in JobIds /\ Reclaimed[j] = "pending"
      BY <2>1, <2>3 DEF SelectTo
    <3>2. \A e \in Drains : e # d => pc[e] \notin Holding
      BY <3>1, Alone
    <3>3. QED
      BY <3>1, <3>2
  <2>4. QED
    BY <2>2, <2>3
<1>13. ASSUME NEW d \in Drains, BudgetExpires(d) \/ PoolBudgetStop(d) \/ PoolGuardStop(d) PROVE
      HeldRowsRunning'
  BY <1>13 DEF BudgetExpires, PoolBudgetStop, PoolGuardStop
<1>14. ASSUME NEW d \in Drains, ScanDone(d) PROVE HeldRowsRunning'
  BY <1>14 DEF ScanDone, End
<1>15. ASSUME NEW d \in Drains, ScanGuardTrips(d) PROVE HeldRowsRunning'
  BY <1>15 DEF ScanGuardTrips, End
<1>16. ASSUME NEW d \in Drains, NEW j \in JobIds, RefuseJob(d, j) PROVE HeldRowsRunning'
  BY <1>16 DEF RefuseJob, Next1, IsFirst
<1>17. ASSUME NEW d \in Drains, NEW j \in JobIds, SkipArchiveJob(d, j) PROVE HeldRowsRunning'
  BY <1>17 DEF SkipArchiveJob, Next1, IsFirst
<1>18. ASSUME NEW d \in Drains, NEW j \in JobIds, StartReleasing(d, j) PROVE HeldRowsRunning'
  BY <1>18 DEF StartReleasing, Next1, IsFirst, Dispatchable
<1>19. ASSUME NEW d \in Drains, NEW j \in JobIds, StartInProcess(d, j) PROVE HeldRowsRunning'
  BY <1>19 DEF StartInProcess, Next1, IsFirst, Dispatchable
<1>20. ASSUME NEW d \in Drains, NEW r \in {"ok", "bad"}, FinishInProcess(d, r) PROVE
      HeldRowsRunning'
  <2>1. PICK j \in pool[d] : FinishTo(d, j, r)
    BY <1>20, FinishEffect
  <2>2. QED
    BY <2>1 DEF FinishTo
<1>21. ASSUME NEW d \in Drains, StartPool(d) PROVE HeldRowsRunning'
  <2>1. PICK run, started \in SUBSET JobIds : PoolTo(d, run, started)
    BY <1>21, PoolEffect
  <2>2. QED
    BY <2>1 DEF PoolTo
<1>22. ASSUME NEW d \in Drains, NEW j \in JobIds, PoolLaunch(d, j) PROVE HeldRowsRunning'
  BY <1>22 DEF PoolLaunch, MayLaunch, IsFirst, Unlaunched
<1>23. ASSUME NEW d \in Drains, NEW j \in JobIds, NEW r \in {"ok", "bad"}, ChildExits(d, j, r)
      PROVE HeldRowsRunning'
  BY <1>23 DEF ChildExits
<1>24. ASSUME NEW d \in Drains, NEW j \in JobIds, Reap(d, j) PROVE HeldRowsRunning'
  BY <1>24 DEF Reap, Settle, Active, Started
<1>25. ASSUME NEW d \in Drains, NEW j \in JobIds, Timeout(d, j) PROVE HeldRowsRunning'
  BY <1>25 DEF Timeout, Settle, Active, Started
<1>26. ASSUME NEW d \in Drains, Reacquire(d) PROVE HeldRowsRunning'
  BY <1>26 DEF Reacquire, Quiet, Active, Started
<1>27. ASSUME NEW d \in Drains, ReacquireFails(d) PROVE HeldRowsRunning'
  BY <1>27 DEF ReacquireFails, Quiet, Lose, End
<1>28. ASSUME NEW d \in Drains, NEW j \in JobIds, Record(d, j) PROVE HeldRowsRunning'
  <2>1. PICK s \in {"pending", "done", "failed"} : RecordTo(d, j, s)
    BY <1>28, RecordEffect
  <2>2. CASE End(d, "exited")
    BY <2>1, <2>2 DEF RecordTo, End
  <2>3. CASE ~End(d, "exited")
    BY <2>1, <2>3 DEF RecordTo
  <2>4. QED
    BY <2>2, <2>3
<1>29. ASSUME NEW d \in Drains, PoolAborts(d) PROVE HeldRowsRunning'
  BY <1>29 DEF PoolAborts, Lose, End
<1>30. ASSUME NEW d \in Drains, DrainDies(d) PROVE HeldRowsRunning'
  BY <1>30 DEF DrainDies, Lose, End
<1>31. CASE UNCHANGED vars
  BY <1>31 DEF vars
<1>32. QED
  BY <1>1, <1>2, <1>3, <1>4, <1>5, <1>6, <1>7, <1>8, <1>9, <1>10, <1>11, <1>12, <1>13, <1>14,
     <1>15, <1>16, <1>17, <1>18, <1>19, <1>20, <1>21, <1>22, <1>23, <1>24, <1>25, <1>26, <1>27,
     <1>28, <1>29, <1>30, <1>31 DEF Next, EnqueueStep, StoreStep, DrainStep, GuardStep,
     ClockStep, FailureStep, ChildStep

\* The rows in hand have dispatchable kinds; a pool's are parallel-safe.
LEMMA PoolKindsStep ==
    TypeOK /\ LocksHeld /\ WhereRowsAre /\ HeldRowsRunning /\ PoolKinds /\ [Next]_vars =>
    PoolKinds'
<1> SUFFICES ASSUME TypeOK, LocksHeld, WhereRowsAre, HeldRowsRunning, PoolKinds, [Next]_vars
      PROVE PoolKinds'
  OBVIOUS
<1> USE DEF TypeOK, LocksHeld, WhereRowsAre, HeldRowsRunning, PoolKinds, Kind
<1>1. ASSUME NEW r \in Requests, EnqueueOnceDone(r) PROVE PoolKinds'
  BY <1>1 DEF EnqueueOnceDone, Supersede, Matching, Rows
<1>2. ASSUME NEW r \in Requests, EnqueueNew(r) PROVE PoolKinds'
  BY <1>2 DEF EnqueueNew, Supersede, Stale, NextId, Rows
<1>3. ASSUME NEW r \in Requests, EnqueueDies(r) PROVE PoolKinds'
  BY <1>3 DEF EnqueueDies, Supersede, Stale, Rows
<1>4. ASSUME SupersedeStalePending PROVE PoolKinds'
  BY <1>4 DEF SupersedeStalePending, Supersede, Rows
<1>5. ASSUME OtherOpens \/ OtherCloses \/ BackfillDies PROVE PoolKinds'
  BY <1>5 DEF OtherOpens, OtherCloses, BackfillDies
<1>6. ASSUME BackfillStart PROVE PoolKinds'
  <2>1. PICK j \in JobIds : BackfillAt(j)
    BY <1>6, BackfillStartEffect
  <2>2. QED
    BY <2>1 DEF BackfillAt
<1>7. ASSUME NEW s \in {"running", "done"}, BackfillBatch(s) PROVE PoolKinds'
  BY <1>7 DEF BackfillBatch
<1>8. ASSUME NEW d \in Drains, AcquireDrainLock(d) PROVE PoolKinds'
  BY <1>8 DEF AcquireDrainLock, LockFree
<1>9. ASSUME NEW d \in Drains, DeclineDrain(d) PROVE PoolKinds'
  BY <1>9 DEF DeclineDrain
<1>10. ASSUME NEW d \in Drains, Connect(d) PROVE PoolKinds'
  BY <1>10 DEF Connect
<1>11. ASSUME NEW d \in Drains, ConnectFails(d) PROVE PoolKinds'
  BY <1>11 DEF ConnectFails, Lose, End
<1>12. ASSUME NEW d \in Drains, ReclaimAndSelect(d) PROVE PoolKinds'
  <2>1. PICK S \in SUBSET JobIds : SelectTo(d, S)
    BY <1>12, SelectEffect
  <2>2. CASE End(d, "exited")
    BY <2>1, <2>2 DEF SelectTo, Reclaimed, End
  <2>3. CASE ~End(d, "exited")
    BY <2>1, <2>3 DEF SelectTo, Reclaimed
  <2>4. QED
    BY <2>2, <2>3
<1>13. ASSUME NEW d \in Drains, BudgetExpires(d) \/ PoolBudgetStop(d) \/ PoolGuardStop(d) PROVE
      PoolKinds'
  BY <1>13 DEF BudgetExpires, PoolBudgetStop, PoolGuardStop
<1>14. ASSUME NEW d \in Drains, ScanDone(d) PROVE PoolKinds'
  BY <1>14 DEF ScanDone, End
<1>15. ASSUME NEW d \in Drains, ScanGuardTrips(d) PROVE PoolKinds'
  BY <1>15 DEF ScanGuardTrips, End
<1>16. ASSUME NEW d \in Drains, NEW j \in JobIds, RefuseJob(d, j) PROVE PoolKinds'
  BY <1>16 DEF RefuseJob, Next1, IsFirst
<1>17. ASSUME NEW d \in Drains, NEW j \in JobIds, SkipArchiveJob(d, j) PROVE PoolKinds'
  BY <1>17 DEF SkipArchiveJob, Next1, IsFirst
<1>18. ASSUME NEW d \in Drains, NEW j \in JobIds, StartReleasing(d, j) PROVE PoolKinds'
  BY <1>18 DEF StartReleasing, Next1, IsFirst, Dispatchable
<1>19. ASSUME NEW d \in Drains, NEW j \in JobIds, StartInProcess(d, j) PROVE PoolKinds'
  BY <1>19 DEF StartInProcess, Next1, IsFirst, Dispatchable
<1>20. ASSUME NEW d \in Drains, NEW r \in {"ok", "bad"}, FinishInProcess(d, r) PROVE PoolKinds'
  <2>1. PICK j \in pool[d] : FinishTo(d, j, r)
    BY <1>20, FinishEffect
  <2>2. QED
    BY <2>1 DEF FinishTo
<1>21. ASSUME NEW d \in Drains, StartPool(d) PROVE PoolKinds'
  <2>1. PICK run, started \in SUBSET JobIds : PoolTo(d, run, started)
    BY <1>21, PoolEffect
  <2>2. QED
    BY <2>1 DEF PoolTo, JOB_TYPES
<1>22. ASSUME NEW d \in Drains, NEW j \in JobIds, PoolLaunch(d, j) PROVE PoolKinds'
  BY <1>22 DEF PoolLaunch, MayLaunch, IsFirst, Unlaunched
<1>23. ASSUME NEW d \in Drains, NEW j \in JobIds, NEW r \in {"ok", "bad"}, ChildExits(d, j, r)
      PROVE PoolKinds'
  BY <1>23 DEF ChildExits
<1>24. ASSUME NEW d \in Drains, NEW j \in JobIds, Reap(d, j) PROVE PoolKinds'
  BY <1>24 DEF Reap, Settle, Active, Started
<1>25. ASSUME NEW d \in Drains, NEW j \in JobIds, Timeout(d, j) PROVE PoolKinds'
  BY <1>25 DEF Timeout, Settle, Active, Started
<1>26. ASSUME NEW d \in Drains, Reacquire(d) PROVE PoolKinds'
  BY <1>26 DEF Reacquire, Quiet, Active, Started
<1>27. ASSUME NEW d \in Drains, ReacquireFails(d) PROVE PoolKinds'
  BY <1>27 DEF ReacquireFails, Quiet, Lose, End
<1>28. ASSUME NEW d \in Drains, NEW j \in JobIds, Record(d, j) PROVE PoolKinds'
  <2>1. PICK s \in {"pending", "done", "failed"} : RecordTo(d, j, s)
    BY <1>28, RecordEffect
  <2>2. CASE End(d, "exited")
    BY <2>1, <2>2 DEF RecordTo, End
  <2>3. CASE ~End(d, "exited")
    BY <2>1, <2>3 DEF RecordTo
  <2>4. QED
    BY <2>2, <2>3
<1>29. ASSUME NEW d \in Drains, PoolAborts(d) PROVE PoolKinds'
  BY <1>29 DEF PoolAborts, Lose, End
<1>30. ASSUME NEW d \in Drains, DrainDies(d) PROVE PoolKinds'
  BY <1>30 DEF DrainDies, Lose, End
<1>31. CASE UNCHANGED vars
  BY <1>31 DEF vars
<1>32. QED
  BY <1>1, <1>2, <1>3, <1>4, <1>5, <1>6, <1>7, <1>8, <1>9, <1>10, <1>11, <1>12, <1>13, <1>14,
     <1>15, <1>16, <1>17, <1>18, <1>19, <1>20, <1>21, <1>22, <1>23, <1>24, <1>25, <1>26, <1>27,
     <1>28, <1>29, <1>30, <1>31 DEF Next, EnqueueStep, StoreStep, DrainStep, GuardStep,
     ClockStep, FailureStep, ChildStep

\* A row of a snapshot is changed by its own drain only, except for superseding.
LEMMA SelectedStep ==
    TypeOK /\ LocksHeld /\ WhereRowsAre /\ BackfillOwn /\ SelectedWaiting /\ [Next]_vars =>
    SelectedWaiting'
<1> SUFFICES ASSUME TypeOK, LocksHeld, WhereRowsAre, BackfillOwn, SelectedWaiting, [Next]_vars
      PROVE SelectedWaiting'
  OBVIOUS
<1> USE DEF TypeOK, LocksHeld, WhereRowsAre, BackfillOwn, SelectedWaiting, Kind
<1>1. ASSUME NEW r \in Requests, EnqueueOnceDone(r) PROVE SelectedWaiting'
  BY <1>1 DEF EnqueueOnceDone, Supersede, Matching, Rows
<1>2. ASSUME NEW r \in Requests, EnqueueNew(r) PROVE SelectedWaiting'
  BY <1>2 DEF EnqueueNew, Supersede, Stale, NextId, Rows
<1>3. ASSUME NEW r \in Requests, EnqueueDies(r) PROVE SelectedWaiting'
  BY <1>3 DEF EnqueueDies, Supersede, Stale, Rows
<1>4. ASSUME SupersedeStalePending PROVE SelectedWaiting'
  BY <1>4 DEF SupersedeStalePending, Supersede, Rows
<1>5. ASSUME OtherOpens \/ OtherCloses \/ BackfillDies PROVE SelectedWaiting'
  BY <1>5 DEF OtherOpens, OtherCloses, BackfillDies
<1>6. ASSUME BackfillStart PROVE SelectedWaiting'
  <2>1. PICK j \in JobIds : BackfillAt(j)
    BY <1>6, BackfillStartEffect
  <2>2. QED
    BY <2>1 DEF BackfillAt
<1>7. ASSUME NEW s \in {"running", "done"}, BackfillBatch(s) PROVE SelectedWaiting'
  BY <1>7 DEF BackfillBatch
<1>8. ASSUME NEW d \in Drains, AcquireDrainLock(d) PROVE SelectedWaiting'
  BY <1>8 DEF AcquireDrainLock, LockFree
<1>9. ASSUME NEW d \in Drains, DeclineDrain(d) PROVE SelectedWaiting'
  BY <1>9 DEF DeclineDrain
<1>10. ASSUME NEW d \in Drains, Connect(d) PROVE SelectedWaiting'
  BY <1>10 DEF Connect
<1>11. ASSUME NEW d \in Drains, ConnectFails(d) PROVE SelectedWaiting'
  BY <1>11 DEF ConnectFails, Lose, End
<1>12. ASSUME NEW d \in Drains, ReclaimAndSelect(d) PROVE SelectedWaiting'
  <2>1. PICK S \in SUBSET JobIds : SelectTo(d, S)
    BY <1>12, SelectEffect
  <2>2. CASE End(d, "exited")
    BY <2>1, <2>2 DEF SelectTo, Reclaimed, End
  <2>3. CASE ~End(d, "exited")
    <3>1. /\ pc[d] = "open" /\ sel' = [sel EXCEPT ![d] = S] /\ pc' = [pc EXCEPT ![d] = "scan"]
          /\ state' = Reclaimed /\ UNCHANGED <<req, pool>>
          /\ \A j \in S : j \in JobIds /\ Reclaimed[j] = "pending"
      BY <2>1, <2>3 DEF SelectTo
    <3>2. \A e \in Drains : e # d => sel[e] = {}
      BY <3>1, Alone
    <3>3. QED
      BY <3>1, <3>2
  <2>4. QED
    BY <2>2, <2>3
<1>13. ASSUME NEW d \in Drains, BudgetExpires(d) \/ PoolBudgetStop(d) \/ PoolGuardStop(d) PROVE
      SelectedWaiting'
  BY <1>13 DEF BudgetExpires, PoolBudgetStop, PoolGuardStop
<1>14. ASSUME NEW d \in Drains, ScanDone(d) PROVE SelectedWaiting'
  BY <1>14 DEF ScanDone, End
<1>15. ASSUME NEW d \in Drains, ScanGuardTrips(d) PROVE SelectedWaiting'
  BY <1>15 DEF ScanGuardTrips, End
<1>16. ASSUME NEW d \in Drains, NEW j \in JobIds, RefuseJob(d, j) PROVE SelectedWaiting'
  BY <1>16 DEF RefuseJob, Next1, IsFirst
<1>17. ASSUME NEW d \in Drains, NEW j \in JobIds, SkipArchiveJob(d, j) PROVE SelectedWaiting'
  BY <1>17 DEF SkipArchiveJob, Next1, IsFirst
<1>18. ASSUME NEW d \in Drains, NEW j \in JobIds, StartReleasing(d, j) PROVE SelectedWaiting'
  BY <1>18 DEF StartReleasing, Next1, IsFirst, Dispatchable
<1>19. ASSUME NEW d \in Drains, NEW j \in JobIds, StartInProcess(d, j) PROVE SelectedWaiting'
  BY <1>19 DEF StartInProcess, Next1, IsFirst, Dispatchable
<1>20. ASSUME NEW d \in Drains, NEW r \in {"ok", "bad"}, FinishInProcess(d, r) PROVE
      SelectedWaiting'
  <2>1. PICK j \in pool[d] : FinishTo(d, j, r)
    BY <1>20, FinishEffect
  <2>2. \A e \in Drains : e # d => sel[e] = {}
    BY <2>1, Alone DEF FinishTo
  <2>3. j \notin sel[d]
    BY <2>1
  <2>4. QED
    BY <2>1, <2>2, <2>3 DEF FinishTo
<1>21. ASSUME NEW d \in Drains, StartPool(d) PROVE SelectedWaiting'
  <2>1. PICK run, started \in SUBSET JobIds : PoolTo(d, run, started)
    BY <1>21, PoolEffect
  <2>2. QED
    BY <2>1 DEF PoolTo
<1>22. ASSUME NEW d \in Drains, NEW j \in JobIds, PoolLaunch(d, j) PROVE SelectedWaiting'
  BY <1>22 DEF PoolLaunch, MayLaunch, IsFirst, Unlaunched
<1>23. ASSUME NEW d \in Drains, NEW j \in JobIds, NEW r \in {"ok", "bad"}, ChildExits(d, j, r)
      PROVE SelectedWaiting'
  BY <1>23 DEF ChildExits
<1>24. ASSUME NEW d \in Drains, NEW j \in JobIds, Reap(d, j) PROVE SelectedWaiting'
  BY <1>24 DEF Reap, Settle, Active, Started
<1>25. ASSUME NEW d \in Drains, NEW j \in JobIds, Timeout(d, j) PROVE SelectedWaiting'
  BY <1>25 DEF Timeout, Settle, Active, Started
<1>26. ASSUME NEW d \in Drains, Reacquire(d) PROVE SelectedWaiting'
  BY <1>26 DEF Reacquire, Quiet, Active, Started
<1>27. ASSUME NEW d \in Drains, ReacquireFails(d) PROVE SelectedWaiting'
  BY <1>27 DEF ReacquireFails, Quiet, Lose, End
<1>28. ASSUME NEW d \in Drains, NEW j \in JobIds, Record(d, j) PROVE SelectedWaiting'
  <2>1. PICK s \in {"pending", "done", "failed"} : RecordTo(d, j, s)
    BY <1>28, RecordEffect
  <2>2. \A e \in Drains : e # d => sel[e] = {}
    BY <2>1, Alone DEF RecordTo
  <2>3. j \notin sel[d] /\ (sel'[d] = sel[d] \/ sel'[d] = {}) /\ \A e \in Drains : e # d => sel'[e] = sel[e]
    BY <2>1 DEF RecordTo, End
  <2>4. state' = [state EXCEPT ![j] = s] /\ req' = req
    BY <2>1 DEF RecordTo
  <2>5. \A e \in Drains : sel'[e] \subseteq sel[e] /\ j \notin sel[e]
    BY <2>2, <2>3
  <2>6. QED
    BY <2>4, <2>5
<1>29. ASSUME NEW d \in Drains, PoolAborts(d) PROVE SelectedWaiting'
  BY <1>29 DEF PoolAborts, Lose, End
<1>30. ASSUME NEW d \in Drains, DrainDies(d) PROVE SelectedWaiting'
  BY <1>30 DEF DrainDies, Lose, End
<1>31. CASE UNCHANGED vars
  BY <1>31 DEF vars
<1>32. QED
  BY <1>1, <1>2, <1>3, <1>4, <1>5, <1>6, <1>7, <1>8, <1>9, <1>10, <1>11, <1>12, <1>13, <1>14,
     <1>15, <1>16, <1>17, <1>18, <1>19, <1>20, <1>21, <1>22, <1>23, <1>24, <1>25, <1>26, <1>27,
     <1>28, <1>29, <1>30, <1>31 DEF Next, EnqueueStep, StoreStep, DrainStep, GuardStep,
     ClockStep, FailureStep, ChildStep

\* A drain starts a row at most once, and its view of an execution follows the execution.
LEMMA WorkStep ==
    TypeOK /\ WhereRowsAre /\ HeldRowsRunning /\ PoolKinds /\ SelectedWaiting /\ WorkOnce /\
    [Next]_vars => WorkOnce'
<1> SUFFICES ASSUME TypeOK, WhereRowsAre, HeldRowsRunning, PoolKinds, SelectedWaiting,
      WorkOnce, [Next]_vars PROVE WorkOnce'
  OBVIOUS
<1> USE DEF TypeOK, WhereRowsAre, HeldRowsRunning, PoolKinds, SelectedWaiting, WorkOnce, Kind
<1>1. ASSUME NEW r \in Requests, EnqueueOnceDone(r) PROVE WorkOnce'
  BY <1>1 DEF EnqueueOnceDone, Supersede, Matching, Rows
<1>2. ASSUME NEW r \in Requests, EnqueueNew(r) PROVE WorkOnce'
  BY <1>2 DEF EnqueueNew, Supersede, Stale, NextId, Rows
<1>3. ASSUME NEW r \in Requests, EnqueueDies(r) PROVE WorkOnce'
  BY <1>3 DEF EnqueueDies, Supersede, Stale, Rows
<1>4. ASSUME SupersedeStalePending PROVE WorkOnce'
  BY <1>4 DEF SupersedeStalePending, Supersede, Rows
<1>5. ASSUME OtherOpens \/ OtherCloses \/ BackfillDies PROVE WorkOnce'
  BY <1>5 DEF OtherOpens, OtherCloses, BackfillDies
<1>6. ASSUME BackfillStart PROVE WorkOnce'
  <2>1. PICK j \in JobIds : BackfillAt(j)
    BY <1>6, BackfillStartEffect
  <2>2. QED
    BY <2>1 DEF BackfillAt
<1>7. ASSUME NEW s \in {"running", "done"}, BackfillBatch(s) PROVE WorkOnce'
  BY <1>7 DEF BackfillBatch
<1>8. ASSUME NEW d \in Drains, AcquireDrainLock(d) PROVE WorkOnce'
  BY <1>8 DEF AcquireDrainLock, LockFree
<1>9. ASSUME NEW d \in Drains, DeclineDrain(d) PROVE WorkOnce'
  BY <1>9 DEF DeclineDrain
<1>10. ASSUME NEW d \in Drains, Connect(d) PROVE WorkOnce'
  BY <1>10 DEF Connect
<1>11. ASSUME NEW d \in Drains, ConnectFails(d) PROVE WorkOnce'
  BY <1>11 DEF ConnectFails, Lose, End
<1>12. ASSUME NEW d \in Drains, ReclaimAndSelect(d) PROVE WorkOnce'
  <2>1. PICK S \in SUBSET JobIds : SelectTo(d, S)
    BY <1>12, SelectEffect
  <2>2. CASE End(d, "exited")
    BY <2>1, <2>2 DEF SelectTo, Reclaimed, End
  <2>3. CASE ~End(d, "exited")
    BY <2>1, <2>3 DEF SelectTo, Reclaimed
  <2>4. QED
    BY <2>2, <2>3
<1>13. ASSUME NEW d \in Drains, BudgetExpires(d) \/ PoolBudgetStop(d) \/ PoolGuardStop(d) PROVE
      WorkOnce'
  BY <1>13 DEF BudgetExpires, PoolBudgetStop, PoolGuardStop
<1>14. ASSUME NEW d \in Drains, ScanDone(d) PROVE WorkOnce'
  BY <1>14 DEF ScanDone, End
<1>15. ASSUME NEW d \in Drains, ScanGuardTrips(d) PROVE WorkOnce'
  BY <1>15 DEF ScanGuardTrips, End
<1>16. ASSUME NEW d \in Drains, NEW j \in JobIds, RefuseJob(d, j) PROVE WorkOnce'
  BY <1>16 DEF RefuseJob, Next1, IsFirst
<1>17. ASSUME NEW d \in Drains, NEW j \in JobIds, SkipArchiveJob(d, j) PROVE WorkOnce'
  BY <1>17 DEF SkipArchiveJob, Next1, IsFirst
<1>18. ASSUME NEW d \in Drains, NEW j \in JobIds, StartReleasing(d, j) PROVE WorkOnce'
  BY <1>18 DEF StartReleasing, Next1, IsFirst, Dispatchable
<1>19. ASSUME NEW d \in Drains, NEW j \in JobIds, StartInProcess(d, j) PROVE WorkOnce'
  BY <1>19 DEF StartInProcess, Next1, IsFirst, Dispatchable
<1>20. ASSUME NEW d \in Drains, NEW r \in {"ok", "bad"}, FinishInProcess(d, r) PROVE WorkOnce'
  <2>1. PICK j \in pool[d] : FinishTo(d, j, r)
    BY <1>20, FinishEffect
  <2>2. QED
    BY <2>1 DEF FinishTo
<1>21. ASSUME NEW d \in Drains, StartPool(d) PROVE WorkOnce'
  <2>1. PICK run, started \in SUBSET JobIds : PoolTo(d, run, started)
    BY <1>21, PoolEffect
  <2>2. QED
    BY <2>1 DEF PoolTo
<1>22. ASSUME NEW d \in Drains, NEW j \in JobIds, PoolLaunch(d, j) PROVE WorkOnce'
  BY <1>22 DEF PoolLaunch, MayLaunch, IsFirst, Unlaunched
<1>23. ASSUME NEW d \in Drains, NEW j \in JobIds, NEW r \in {"ok", "bad"}, ChildExits(d, j, r)
      PROVE WorkOnce'
  BY <1>23 DEF ChildExits
<1>24. ASSUME NEW d \in Drains, NEW j \in JobIds, Reap(d, j) PROVE WorkOnce'
  BY <1>24 DEF Reap, Settle, Active, Started
<1>25. ASSUME NEW d \in Drains, NEW j \in JobIds, Timeout(d, j) PROVE WorkOnce'
  BY <1>25 DEF Timeout, Settle, Active, Started
<1>26. ASSUME NEW d \in Drains, Reacquire(d) PROVE WorkOnce'
  BY <1>26 DEF Reacquire, Quiet, Active, Started
<1>27. ASSUME NEW d \in Drains, ReacquireFails(d) PROVE WorkOnce'
  BY <1>27 DEF ReacquireFails, Quiet, Lose, End
<1>28. ASSUME NEW d \in Drains, NEW j \in JobIds, Record(d, j) PROVE WorkOnce'
  <2>1. PICK s \in {"pending", "done", "failed"} : RecordTo(d, j, s)
    BY <1>28, RecordEffect
  <2>2. CASE End(d, "exited")
    BY <2>1, <2>2 DEF RecordTo, End
  <2>3. CASE ~End(d, "exited")
    BY <2>1, <2>3 DEF RecordTo
  <2>4. QED
    BY <2>2, <2>3
<1>29. ASSUME NEW d \in Drains, PoolAborts(d) PROVE WorkOnce'
  BY <1>29 DEF PoolAborts, Lose, End
<1>30. ASSUME NEW d \in Drains, DrainDies(d) PROVE WorkOnce'
  BY <1>30 DEF DrainDies, Lose, End
<1>31. CASE UNCHANGED vars
  BY <1>31 DEF vars
<1>32. QED
  BY <1>1, <1>2, <1>3, <1>4, <1>5, <1>6, <1>7, <1>8, <1>9, <1>10, <1>11, <1>12, <1>13, <1>14,
     <1>15, <1>16, <1>17, <1>18, <1>19, <1>20, <1>21, <1>22, <1>23, <1>24, <1>25, <1>26, <1>27,
     <1>28, <1>29, <1>30, <1>31 DEF Next, EnqueueStep, StoreStep, DrainStep, GuardStep,
     ClockStep, FailureStep, ChildStep

\* 'done' is written only for an execution that succeeded.
LEMMA DoneStep ==
    TypeOK /\ HeldRowsRunning /\ BackfillOwn /\ WorkOnce /\ DoneIsTrue /\ [Next]_vars =>
    DoneIsTrue'
<1> SUFFICES ASSUME TypeOK, HeldRowsRunning, BackfillOwn, WorkOnce, DoneIsTrue, [Next]_vars
      PROVE DoneIsTrue'
  OBVIOUS
<1> USE DEF TypeOK, HeldRowsRunning, BackfillOwn, WorkOnce, DoneIsTrue, Kind
<1>1. ASSUME NEW r \in Requests, EnqueueOnceDone(r) PROVE DoneIsTrue'
  BY <1>1 DEF EnqueueOnceDone, Supersede, Matching, Rows
<1>2. ASSUME NEW r \in Requests, EnqueueNew(r) PROVE DoneIsTrue'
  <2>1. PICK j \in JobIds : NewRowAt(r, j)
    BY <1>2, EnqueueNewEffect
  <2>2. SUFFICES ASSUME NEW i \in JobIds, state'[i] = "done", (Kind(i) # Backfill)'
                 PROVE  \E d \in Drains : work'[d][i] = "ok"
    BY DEF DoneIsTrue
  <2>3. i # j /\ state[i] = "done" /\ req'[i] = req[i]
    BY <2>1, <2>2 DEF NewRowAt
  <2>4. \E d \in Drains : work[d][i] = "ok"
    BY <2>2, <2>3
  <2>5. QED
    BY <2>1, <2>4 DEF NewRowAt
<1>3. ASSUME NEW r \in Requests, EnqueueDies(r) PROVE DoneIsTrue'
  BY <1>3 DEF EnqueueDies, Supersede, Stale, Rows
<1>4. ASSUME SupersedeStalePending PROVE DoneIsTrue'
  BY <1>4 DEF SupersedeStalePending, Supersede, Rows
<1>5. ASSUME OtherOpens \/ OtherCloses \/ BackfillDies PROVE DoneIsTrue'
  BY <1>5 DEF OtherOpens, OtherCloses, BackfillDies
<1>6. ASSUME BackfillStart PROVE DoneIsTrue'
  <2>1. PICK j \in JobIds : BackfillAt(j)
    BY <1>6, BackfillStartEffect
  <2>2. QED
    BY <2>1 DEF BackfillAt
<1>7. ASSUME NEW s \in {"running", "done"}, BackfillBatch(s) PROVE DoneIsTrue'
  BY <1>7 DEF BackfillBatch
<1>8. ASSUME NEW d \in Drains, AcquireDrainLock(d) PROVE DoneIsTrue'
  BY <1>8 DEF AcquireDrainLock, LockFree
<1>9. ASSUME NEW d \in Drains, DeclineDrain(d) PROVE DoneIsTrue'
  BY <1>9 DEF DeclineDrain
<1>10. ASSUME NEW d \in Drains, Connect(d) PROVE DoneIsTrue'
  BY <1>10 DEF Connect
<1>11. ASSUME NEW d \in Drains, ConnectFails(d) PROVE DoneIsTrue'
  BY <1>11 DEF ConnectFails, Lose, End
<1>12. ASSUME NEW d \in Drains, ReclaimAndSelect(d) PROVE DoneIsTrue'
  <2>1. PICK S \in SUBSET JobIds : SelectTo(d, S)
    BY <1>12, SelectEffect
  <2>2. CASE End(d, "exited")
    BY <2>1, <2>2 DEF SelectTo, Reclaimed, End
  <2>3. CASE ~End(d, "exited")
    BY <2>1, <2>3 DEF SelectTo, Reclaimed
  <2>4. QED
    BY <2>2, <2>3
<1>13. ASSUME NEW d \in Drains, BudgetExpires(d) \/ PoolBudgetStop(d) \/ PoolGuardStop(d) PROVE
      DoneIsTrue'
  BY <1>13 DEF BudgetExpires, PoolBudgetStop, PoolGuardStop
<1>14. ASSUME NEW d \in Drains, ScanDone(d) PROVE DoneIsTrue'
  BY <1>14 DEF ScanDone, End
<1>15. ASSUME NEW d \in Drains, ScanGuardTrips(d) PROVE DoneIsTrue'
  BY <1>15 DEF ScanGuardTrips, End
<1>16. ASSUME NEW d \in Drains, NEW j \in JobIds, RefuseJob(d, j) PROVE DoneIsTrue'
  BY <1>16 DEF RefuseJob, Next1, IsFirst
<1>17. ASSUME NEW d \in Drains, NEW j \in JobIds, SkipArchiveJob(d, j) PROVE DoneIsTrue'
  BY <1>17 DEF SkipArchiveJob, Next1, IsFirst
<1>18. ASSUME NEW d \in Drains, NEW j \in JobIds, StartReleasing(d, j) PROVE DoneIsTrue'
  BY <1>18 DEF StartReleasing, Next1, IsFirst, Dispatchable
<1>19. ASSUME NEW d \in Drains, NEW j \in JobIds, StartInProcess(d, j) PROVE DoneIsTrue'
  BY <1>19 DEF StartInProcess, Next1, IsFirst, Dispatchable
<1>20. ASSUME NEW d \in Drains, NEW r \in {"ok", "bad"}, FinishInProcess(d, r) PROVE
      DoneIsTrue'
  <2>1. PICK j \in pool[d] : FinishTo(d, j, r)
    BY <1>20, FinishEffect
  <2>2. QED
    BY <2>1 DEF FinishTo
<1>21. ASSUME NEW d \in Drains, StartPool(d) PROVE DoneIsTrue'
  <2>1. PICK run, started \in SUBSET JobIds : PoolTo(d, run, started)
    BY <1>21, PoolEffect
  <2>2. QED
    BY <2>1 DEF PoolTo
<1>22. ASSUME NEW d \in Drains, NEW j \in JobIds, PoolLaunch(d, j) PROVE DoneIsTrue'
  BY <1>22 DEF PoolLaunch, MayLaunch, IsFirst, Unlaunched
<1>23. ASSUME NEW d \in Drains, NEW j \in JobIds, NEW r \in {"ok", "bad"}, ChildExits(d, j, r)
      PROVE DoneIsTrue'
  BY <1>23 DEF ChildExits
<1>24. ASSUME NEW d \in Drains, NEW j \in JobIds, Reap(d, j) PROVE DoneIsTrue'
  BY <1>24 DEF Reap, Settle, Active, Started
<1>25. ASSUME NEW d \in Drains, NEW j \in JobIds, Timeout(d, j) PROVE DoneIsTrue'
  BY <1>25 DEF Timeout, Settle, Active, Started
<1>26. ASSUME NEW d \in Drains, Reacquire(d) PROVE DoneIsTrue'
  BY <1>26 DEF Reacquire, Quiet, Active, Started
<1>27. ASSUME NEW d \in Drains, ReacquireFails(d) PROVE DoneIsTrue'
  BY <1>27 DEF ReacquireFails, Quiet, Lose, End
<1>28. ASSUME NEW d \in Drains, NEW j \in JobIds, Record(d, j) PROVE DoneIsTrue'
  <2>1. PICK s \in {"pending", "done", "failed"} : RecordTo(d, j, s)
    BY <1>28, RecordEffect
  <2>2. CASE End(d, "exited")
    BY <2>1, <2>2 DEF RecordTo, End
  <2>3. CASE ~End(d, "exited")
    BY <2>1, <2>3 DEF RecordTo
  <2>4. QED
    BY <2>2, <2>3
<1>29. ASSUME NEW d \in Drains, PoolAborts(d) PROVE DoneIsTrue'
  BY <1>29 DEF PoolAborts, Lose, End
<1>30. ASSUME NEW d \in Drains, DrainDies(d) PROVE DoneIsTrue'
  BY <1>30 DEF DrainDies, Lose, End
<1>31. CASE UNCHANGED vars
  BY <1>31 DEF vars
<1>32. QED
  BY <1>1, <1>2, <1>3, <1>4, <1>5, <1>6, <1>7, <1>8, <1>9, <1>10, <1>11, <1>12, <1>13, <1>14,
     <1>15, <1>16, <1>17, <1>18, <1>19, <1>20, <1>21, <1>22, <1>23, <1>24, <1>25, <1>26, <1>27,
     <1>28, <1>29, <1>30, <1>31 DEF Next, EnqueueStep, StoreStep, DrainStep, GuardStep,
     ClockStep, FailureStep, ChildStep

\* No step rewrites a recorded outcome.
LEMMA FinalStep ==
    TypeOK /\ LocksHeld /\ WhereRowsAre /\ HeldRowsRunning /\ BackfillOwn /\ SelectedWaiting /\
    [Next]_vars => OutcomesKept
<1> SUFFICES ASSUME TypeOK, LocksHeld, WhereRowsAre, HeldRowsRunning, BackfillOwn,
      SelectedWaiting, [Next]_vars PROVE OutcomesKept
  OBVIOUS
<1> USE DEF TypeOK, HeldRowsRunning, BackfillOwn, SelectedWaiting, OutcomesKept, Kind
<1>1. ASSUME NEW r \in Requests, EnqueueOnceDone(r) PROVE OutcomesKept
  BY <1>1 DEF EnqueueOnceDone, Supersede, Matching, Rows
<1>2. ASSUME NEW r \in Requests, EnqueueNew(r) PROVE OutcomesKept
  <2>1. PICK j \in JobIds : NewRowAt(r, j)
    BY <1>2, EnqueueNewEffect
  <2>2. QED
    BY <2>1 DEF NewRowAt
<1>3. ASSUME NEW r \in Requests, EnqueueDies(r) PROVE OutcomesKept
  BY <1>3 DEF EnqueueDies, Supersede, Stale, Rows
<1>4. ASSUME SupersedeStalePending PROVE OutcomesKept
  BY <1>4 DEF SupersedeStalePending, Supersede, Rows
<1>5. ASSUME OtherOpens \/ OtherCloses \/ BackfillDies PROVE OutcomesKept
  BY <1>5 DEF OtherOpens, OtherCloses, BackfillDies
<1>6. ASSUME BackfillStart PROVE OutcomesKept
  <2>1. PICK j \in JobIds : BackfillAt(j)
    BY <1>6, BackfillStartEffect
  <2>2. QED
    BY <2>1 DEF BackfillAt
<1>7. ASSUME NEW s \in {"running", "done"}, BackfillBatch(s) PROVE OutcomesKept
  BY <1>7 DEF BackfillBatch
<1>8. ASSUME NEW d \in Drains, AcquireDrainLock(d) PROVE OutcomesKept
  BY <1>8 DEF AcquireDrainLock, LockFree
<1>9. ASSUME NEW d \in Drains, DeclineDrain(d) PROVE OutcomesKept
  BY <1>9 DEF DeclineDrain
<1>10. ASSUME NEW d \in Drains, Connect(d) PROVE OutcomesKept
  BY <1>10 DEF Connect
<1>11. ASSUME NEW d \in Drains, ConnectFails(d) PROVE OutcomesKept
  BY <1>11 DEF ConnectFails, Lose, End
<1>12. ASSUME NEW d \in Drains, ReclaimAndSelect(d) PROVE OutcomesKept
  <2>1. PICK S \in SUBSET JobIds : SelectTo(d, S)
    BY <1>12, SelectEffect
  <2>2. CASE End(d, "exited")
    BY <2>1, <2>2 DEF SelectTo, Reclaimed, End
  <2>3. CASE ~End(d, "exited")
    BY <2>1, <2>3 DEF SelectTo, Reclaimed
  <2>4. QED
    BY <2>2, <2>3
<1>13. ASSUME NEW d \in Drains, BudgetExpires(d) \/ PoolBudgetStop(d) \/ PoolGuardStop(d) PROVE
      OutcomesKept
  BY <1>13 DEF BudgetExpires, PoolBudgetStop, PoolGuardStop
<1>14. ASSUME NEW d \in Drains, ScanDone(d) PROVE OutcomesKept
  BY <1>14 DEF ScanDone, End
<1>15. ASSUME NEW d \in Drains, ScanGuardTrips(d) PROVE OutcomesKept
  BY <1>15 DEF ScanGuardTrips, End
<1>16. ASSUME NEW d \in Drains, NEW j \in JobIds, RefuseJob(d, j) PROVE OutcomesKept
  BY <1>16 DEF RefuseJob, Next1, IsFirst
<1>17. ASSUME NEW d \in Drains, NEW j \in JobIds, SkipArchiveJob(d, j) PROVE OutcomesKept
  BY <1>17 DEF SkipArchiveJob, Next1, IsFirst
<1>18. ASSUME NEW d \in Drains, NEW j \in JobIds, StartReleasing(d, j) PROVE OutcomesKept
  BY <1>18 DEF StartReleasing, Next1, IsFirst, Dispatchable
<1>19. ASSUME NEW d \in Drains, NEW j \in JobIds, StartInProcess(d, j) PROVE OutcomesKept
  BY <1>19 DEF StartInProcess, Next1, IsFirst, Dispatchable
<1>20. ASSUME NEW d \in Drains, NEW r \in {"ok", "bad"}, FinishInProcess(d, r) PROVE
      OutcomesKept
  <2>1. PICK j \in pool[d] : FinishTo(d, j, r)
    BY <1>20, FinishEffect
  <2>2. QED
    BY <2>1 DEF FinishTo
<1>21. ASSUME NEW d \in Drains, StartPool(d) PROVE OutcomesKept
  <2>1. PICK run, started \in SUBSET JobIds : PoolTo(d, run, started)
    BY <1>21, PoolEffect
  <2>2. QED
    BY <2>1 DEF PoolTo, JOB_TYPES, ParallelSafe, Backfill
<1>22. ASSUME NEW d \in Drains, NEW j \in JobIds, PoolLaunch(d, j) PROVE OutcomesKept
  BY <1>22 DEF PoolLaunch, MayLaunch, IsFirst, Unlaunched
<1>23. ASSUME NEW d \in Drains, NEW j \in JobIds, NEW r \in {"ok", "bad"}, ChildExits(d, j, r)
      PROVE OutcomesKept
  BY <1>23 DEF ChildExits
<1>24. ASSUME NEW d \in Drains, NEW j \in JobIds, Reap(d, j) PROVE OutcomesKept
  BY <1>24 DEF Reap, Settle, Active, Started
<1>25. ASSUME NEW d \in Drains, NEW j \in JobIds, Timeout(d, j) PROVE OutcomesKept
  BY <1>25 DEF Timeout, Settle, Active, Started
<1>26. ASSUME NEW d \in Drains, Reacquire(d) PROVE OutcomesKept
  BY <1>26 DEF Reacquire, Quiet, Active, Started
<1>27. ASSUME NEW d \in Drains, ReacquireFails(d) PROVE OutcomesKept
  BY <1>27 DEF ReacquireFails, Quiet, Lose, End
<1>28. ASSUME NEW d \in Drains, NEW j \in JobIds, Record(d, j) PROVE OutcomesKept
  <2>1. PICK s \in {"pending", "done", "failed"} : RecordTo(d, j, s)
    BY <1>28, RecordEffect
  <2>2. CASE End(d, "exited")
    BY <2>1, <2>2 DEF RecordTo, End
  <2>3. CASE ~End(d, "exited")
    BY <2>1, <2>3 DEF RecordTo
  <2>4. QED
    BY <2>2, <2>3
<1>29. ASSUME NEW d \in Drains, PoolAborts(d) PROVE OutcomesKept
  BY <1>29 DEF PoolAborts, Lose, End
<1>30. ASSUME NEW d \in Drains, DrainDies(d) PROVE OutcomesKept
  BY <1>30 DEF DrainDies, Lose, End
<1>31. CASE UNCHANGED vars
  BY <1>31 DEF vars
<1>32. QED
  BY <1>1, <1>2, <1>3, <1>4, <1>5, <1>6, <1>7, <1>8, <1>9, <1>10, <1>11, <1>12, <1>13, <1>14,
     <1>15, <1>16, <1>17, <1>18, <1>19, <1>20, <1>21, <1>22, <1>23, <1>24, <1>25, <1>26, <1>27,
     <1>28, <1>29, <1>30, <1>31 DEF Next, EnqueueStep, StoreStep, DrainStep, GuardStep,
     ClockStep, FailureStep, ChildStep

\* What a drain noticed stays what the row says.
LEMMA RecordedStep ==
    TypeOK /\ LocksHeld /\ WhereRowsAre /\ HeldRowsRunning /\ BackfillOwn /\ SelectedWaiting /\
    PoolKinds /\ WorkOnce /\ OutcomesRecorded /\ [Next]_vars => OutcomesRecorded'
<1> SUFFICES ASSUME TypeOK, LocksHeld, WhereRowsAre, HeldRowsRunning, BackfillOwn,
      SelectedWaiting, PoolKinds, WorkOnce, OutcomesRecorded, [Next]_vars PROVE
      OutcomesRecorded'
  OBVIOUS
<1> USE DEF TypeOK, OutcomesRecorded
<1>k. OutcomesKept
  BY FinalStep
<1>s. \A e \in Drains, i \in JobIds :
        pc[e] \in Alive \cup {"exited"} /\ i \notin pool[e] /\ result[e][i] # "none"
        => state'[i] = IF result[e][i] = "ok" THEN "done" ELSE "failed"
  <2>1. SUFFICES ASSUME NEW e \in Drains, NEW i \in JobIds, pc[e] \in Alive \cup {"exited"},
                        i \notin pool[e], result[e][i] # "none"
                 PROVE  state'[i] = IF result[e][i] = "ok" THEN "done" ELSE "failed"
    OBVIOUS
  <2>2. Kind(i) # Backfill
    BY <2>1 DEF WorkOnce, JOB_TYPES, ParallelSafe, ReleasesWriter, Backfill
  <2>3. state[i] = IF result[e][i] = "ok" THEN "done" ELSE "failed"
    BY <2>1 DEF OutcomesRecorded
  <2>4. QED
    BY <1>k, <2>2, <2>3 DEF OutcomesKept
<1>1. ASSUME NEW r \in Requests, EnqueueOnceDone(r) PROVE OutcomesRecorded'
  BY <1>1, <1>s DEF EnqueueOnceDone, Supersede, Matching, Rows
<1>2. ASSUME NEW r \in Requests, EnqueueNew(r) PROVE OutcomesRecorded'
  <2>1. PICK j \in JobIds : NewRowAt(r, j)
    BY <1>2, EnqueueNewEffect
  <2>2. QED
    BY <1>s, <2>1 DEF NewRowAt
<1>3. ASSUME NEW r \in Requests, EnqueueDies(r) PROVE OutcomesRecorded'
  BY <1>3, <1>s DEF EnqueueDies, Supersede, Stale, Rows
<1>4. ASSUME SupersedeStalePending PROVE OutcomesRecorded'
  BY <1>4, <1>s DEF SupersedeStalePending, Supersede, Rows
<1>5. ASSUME OtherOpens \/ OtherCloses \/ BackfillDies PROVE OutcomesRecorded'
  BY <1>5, <1>s DEF OtherOpens, OtherCloses, BackfillDies
<1>6. ASSUME BackfillStart PROVE OutcomesRecorded'
  <2>1. PICK j \in JobIds : BackfillAt(j)
    BY <1>6, BackfillStartEffect
  <2>2. QED
    BY <2>1, <1>s DEF BackfillAt
<1>7. ASSUME NEW s \in {"running", "done"}, BackfillBatch(s) PROVE OutcomesRecorded'
  BY <1>7, <1>s DEF BackfillBatch
<1>8. ASSUME NEW d \in Drains, AcquireDrainLock(d) PROVE OutcomesRecorded'
  BY <1>8, <1>s DEF AcquireDrainLock, LockFree, WorkOnce
<1>9. ASSUME NEW d \in Drains, DeclineDrain(d) PROVE OutcomesRecorded'
  BY <1>9, <1>s DEF DeclineDrain, WorkOnce
<1>10. ASSUME NEW d \in Drains, Connect(d) PROVE OutcomesRecorded'
  BY <1>10, <1>s DEF Connect
<1>11. ASSUME NEW d \in Drains, ConnectFails(d) PROVE OutcomesRecorded'
  BY <1>11, <1>s DEF ConnectFails, Lose, End
<1>12. ASSUME NEW d \in Drains, ReclaimAndSelect(d) PROVE OutcomesRecorded'
  <2>1. pc[d] = "open" /\ pool' = pool /\ result' = result /\ \A e \in Drains : e # d => pc'[e] = pc[e]
    BY <1>12 DEF ReclaimAndSelect, End
  <2>2. QED
    BY <1>s, <2>1
<1>13. ASSUME NEW d \in Drains, BudgetExpires(d) \/ PoolBudgetStop(d) \/ PoolGuardStop(d) PROVE
      OutcomesRecorded'
  BY <1>13, <1>s DEF BudgetExpires, PoolBudgetStop, PoolGuardStop
<1>14. ASSUME NEW d \in Drains, ScanDone(d) PROVE OutcomesRecorded'
  BY <1>14, <1>s DEF ScanDone, End
<1>15. ASSUME NEW d \in Drains, ScanGuardTrips(d) PROVE OutcomesRecorded'
  BY <1>15, <1>s DEF ScanGuardTrips, End
<1>16. ASSUME NEW d \in Drains, NEW j \in JobIds, RefuseJob(d, j) PROVE OutcomesRecorded'
  BY <1>16, <1>s DEF RefuseJob, Next1, IsFirst
<1>17. ASSUME NEW d \in Drains, NEW j \in JobIds, SkipArchiveJob(d, j) PROVE OutcomesRecorded'
  BY <1>17, <1>s DEF SkipArchiveJob, Next1, IsFirst
<1>18. ASSUME NEW d \in Drains, NEW j \in JobIds, StartReleasing(d, j) PROVE OutcomesRecorded'
  BY <1>18, <1>s DEF StartReleasing, Next1, IsFirst, Dispatchable, WhereRowsAre
<1>19. ASSUME NEW d \in Drains, NEW j \in JobIds, StartInProcess(d, j) PROVE OutcomesRecorded'
  <2>1. pc[d] = "scan" /\ pool' = [pool EXCEPT ![d] = {j}] /\ result' = result /\ pc' = [pc EXCEPT ![d] = "inproc"]
    BY <1>19 DEF StartInProcess, Next1
  <2>2. pool[d] = {}
    BY <2>1 DEF WhereRowsAre
  <2>3. QED
    BY <1>s, <2>1, <2>2
<1>20. ASSUME NEW d \in Drains, NEW r \in {"ok", "bad"}, FinishInProcess(d, r) PROVE
      OutcomesRecorded'
  <2>1. PICK j \in pool[d] : FinishTo(d, j, r)
    BY <1>20, FinishEffect
  <2>2. QED
    BY <2>1, <1>s DEF FinishTo, WhereRowsAre, WorkOnce
<1>21. ASSUME NEW d \in Drains, StartPool(d) PROVE OutcomesRecorded'
  <2>1. PICK run, started \in SUBSET JobIds : PoolTo(d, run, started)
    BY <1>21, PoolEffect
  <2>2. pc[d] = "scan" /\ pool' = [pool EXCEPT ![d] = started] /\ result' = result
        /\ \A e \in Drains : e # d => pc'[e] = pc[e]
    BY <2>1 DEF PoolTo
  <2>3. pool[d] = {}
    BY <2>2 DEF WhereRowsAre
  <2>4. QED
    BY <1>s, <2>2, <2>3
<1>22. ASSUME NEW d \in Drains, NEW j \in JobIds, PoolLaunch(d, j) PROVE OutcomesRecorded'
  BY <1>22, <1>s DEF PoolLaunch, MayLaunch, IsFirst, Unlaunched
<1>23. ASSUME NEW d \in Drains, NEW j \in JobIds, NEW r \in {"ok", "bad"}, ChildExits(d, j, r)
      PROVE OutcomesRecorded'
  BY <1>23, <1>s DEF ChildExits
<1>24. ASSUME NEW d \in Drains, NEW j \in JobIds, Reap(d, j) PROVE OutcomesRecorded'
  BY <1>24, <1>s DEF Reap, Settle, Active, Started
<1>25. ASSUME NEW d \in Drains, NEW j \in JobIds, Timeout(d, j) PROVE OutcomesRecorded'
  BY <1>25, <1>s DEF Timeout, Settle, Active, Started
<1>26. ASSUME NEW d \in Drains, Reacquire(d) PROVE OutcomesRecorded'
  BY <1>26, <1>s DEF Reacquire, Quiet, Active, Started
<1>27. ASSUME NEW d \in Drains, ReacquireFails(d) PROVE OutcomesRecorded'
  BY <1>27, <1>s DEF ReacquireFails, Quiet, Lose, End
<1>28. ASSUME NEW d \in Drains, NEW j \in JobIds, Record(d, j) PROVE OutcomesRecorded'
  <2>1. PICK s \in {"pending", "done", "failed"} : RecordTo(d, j, s)
    BY <1>28, RecordEffect
  <2>2. CASE End(d, "exited")
    BY <2>1, <2>2, <1>s DEF RecordTo, End, HeldRowsRunning, WorkOnce, WhereRowsAre
  <2>3. CASE ~End(d, "exited")
    BY <2>1, <2>3, <1>s DEF RecordTo, HeldRowsRunning, WorkOnce, WhereRowsAre
  <2>4. QED
    BY <2>2, <2>3
<1>29. ASSUME NEW d \in Drains, PoolAborts(d) PROVE OutcomesRecorded'
  BY <1>29, <1>s DEF PoolAborts, Lose, End
<1>30. ASSUME NEW d \in Drains, DrainDies(d) PROVE OutcomesRecorded'
  BY <1>30, <1>s DEF DrainDies, Lose, End
<1>31. CASE UNCHANGED vars
  BY <1>31 DEF vars
<1>32. QED
  BY <1>1, <1>2, <1>3, <1>4, <1>5, <1>6, <1>7, <1>8, <1>9, <1>10, <1>11, <1>12, <1>13, <1>14,
     <1>15, <1>16, <1>17, <1>18, <1>19, <1>20, <1>21, <1>22, <1>23, <1>24, <1>25, <1>26, <1>27,
     <1>28, <1>29, <1>30, <1>31 DEF Next, EnqueueStep, StoreStep, DrainStep, GuardStep,
     ClockStep, FailureStep, ChildStep

\* The rows in hand stay ahead of the rows to come.
LEMMA PoolFirstStep ==
    TypeOK /\ WhereRowsAre /\ HeldRowsRunning /\ SelectedWaiting /\ PoolFirst /\ [Next]_vars =>
    PoolFirst'
<1> SUFFICES ASSUME TypeOK, WhereRowsAre, HeldRowsRunning, SelectedWaiting, PoolFirst,
      [Next]_vars PROVE PoolFirst'
  OBVIOUS
<1> USE DEF TypeOK, WhereRowsAre, PoolFirst, Before
<1>1. ASSUME NEW r \in Requests, EnqueueOnceDone(r) PROVE PoolFirst'
  BY <1>1 DEF EnqueueOnceDone, Supersede, Matching, Rows
<1>2. ASSUME NEW r \in Requests, EnqueueNew(r) PROVE PoolFirst'
  <2>1. PICK j \in JobIds : NewRowAt(r, j)
    BY <1>2, EnqueueNewEffect
  <2>2. SUFFICES ASSUME NEW d \in Drains, pc[d] \in Holding, NEW i \in pool[d], NEW k \in sel[d]
                 PROVE  Before(i, k)'
    BY <2>1 DEF PoolFirst, NewRowAt
  <2>3. state[i] # "absent" /\ state[k] # "absent" /\ Before(i, k)
    BY <2>2 DEF PoolFirst, HeldRowsRunning, SelectedWaiting
  <2>4. req'[i] = req[i] /\ req'[k] = req[k]
    BY <2>1, <2>3 DEF NewRowAt
  <2>5. QED
    BY <2>3, <2>4 DEF Before
<1>3. ASSUME NEW r \in Requests, EnqueueDies(r) PROVE PoolFirst'
  BY <1>3 DEF EnqueueDies, Supersede, Stale, Rows
<1>4. ASSUME SupersedeStalePending PROVE PoolFirst'
  BY <1>4 DEF SupersedeStalePending, Supersede, Rows
<1>5. ASSUME OtherOpens \/ OtherCloses \/ BackfillDies PROVE PoolFirst'
  BY <1>5 DEF OtherOpens, OtherCloses, BackfillDies
<1>6. ASSUME BackfillStart PROVE PoolFirst'
  <2>1. PICK j \in JobIds : BackfillAt(j)
    BY <1>6, BackfillStartEffect
  <2>2. SUFFICES ASSUME NEW d \in Drains, pc[d] \in Holding, NEW i \in pool[d], NEW k \in sel[d]
                 PROVE  Before(i, k)'
    BY <2>1 DEF PoolFirst, BackfillAt
  <2>3. state[i] # "absent" /\ state[k] # "absent" /\ Before(i, k)
    BY <2>2 DEF PoolFirst, HeldRowsRunning, SelectedWaiting
  <2>4. req'[i] = req[i] /\ req'[k] = req[k]
    BY <2>1, <2>3 DEF BackfillAt
  <2>5. QED
    BY <2>3, <2>4 DEF Before
<1>7. ASSUME NEW s \in {"running", "done"}, BackfillBatch(s) PROVE PoolFirst'
  BY <1>7 DEF BackfillBatch
<1>8. ASSUME NEW d \in Drains, AcquireDrainLock(d) PROVE PoolFirst'
  BY <1>8 DEF AcquireDrainLock, LockFree
<1>9. ASSUME NEW d \in Drains, DeclineDrain(d) PROVE PoolFirst'
  BY <1>9 DEF DeclineDrain
<1>10. ASSUME NEW d \in Drains, Connect(d) PROVE PoolFirst'
  BY <1>10 DEF Connect
<1>11. ASSUME NEW d \in Drains, ConnectFails(d) PROVE PoolFirst'
  BY <1>11 DEF ConnectFails, Lose, End
<1>12. ASSUME NEW d \in Drains, ReclaimAndSelect(d) PROVE PoolFirst'
  <2>1. PICK S \in SUBSET JobIds : SelectTo(d, S)
    BY <1>12, SelectEffect
  <2>2. CASE End(d, "exited")
    BY <2>1, <2>2 DEF SelectTo, Reclaimed, End
  <2>3. CASE ~End(d, "exited")
    BY <2>1, <2>3 DEF SelectTo, Reclaimed
  <2>4. QED
    BY <2>2, <2>3
<1>13. ASSUME NEW d \in Drains, BudgetExpires(d) \/ PoolBudgetStop(d) \/ PoolGuardStop(d) PROVE
      PoolFirst'
  BY <1>13 DEF BudgetExpires, PoolBudgetStop, PoolGuardStop
<1>14. ASSUME NEW d \in Drains, ScanDone(d) PROVE PoolFirst'
  BY <1>14 DEF ScanDone, End
<1>15. ASSUME NEW d \in Drains, ScanGuardTrips(d) PROVE PoolFirst'
  BY <1>15 DEF ScanGuardTrips, End
<1>16. ASSUME NEW d \in Drains, NEW j \in JobIds, RefuseJob(d, j) PROVE PoolFirst'
  BY <1>16 DEF RefuseJob, Next1, IsFirst
<1>17. ASSUME NEW d \in Drains, NEW j \in JobIds, SkipArchiveJob(d, j) PROVE PoolFirst'
  BY <1>17 DEF SkipArchiveJob, Next1, IsFirst
<1>18. ASSUME NEW d \in Drains, NEW j \in JobIds, StartReleasing(d, j) PROVE PoolFirst'
  BY <1>18 DEF StartReleasing, Next1, IsFirst, Dispatchable
<1>19. ASSUME NEW d \in Drains, NEW j \in JobIds, StartInProcess(d, j) PROVE PoolFirst'
  <2>1. /\ pool' = [pool EXCEPT ![d] = {j}] /\ sel' = [sel EXCEPT ![d] = @ \ {j}] /\ req' = req
        /\ pc' = [pc EXCEPT ![d] = "inproc"] /\ IsFirst(j, sel[d])
    BY <1>19 DEF StartInProcess, Next1
  <2>2. QED
    BY <2>1 DEF IsFirst
<1>20. ASSUME NEW d \in Drains, NEW r \in {"ok", "bad"}, FinishInProcess(d, r) PROVE PoolFirst'
  <2>1. PICK j \in pool[d] : FinishTo(d, j, r)
    BY <1>20, FinishEffect
  <2>2. QED
    BY <2>1 DEF FinishTo
<1>21. ASSUME NEW d \in Drains, StartPool(d) PROVE PoolFirst'
  <2>1. PICK run, started \in SUBSET JobIds : PoolTo(d, run, started)
    BY <1>21, PoolEffect
  <2>2. \A i \in run, j \in sel[d] \ run : Before(i, j)
    BY <2>1, LeadingRunFirst DEF PoolTo
  <2>3. QED
    BY <2>1, <2>2 DEF PoolTo
<1>22. ASSUME NEW d \in Drains, NEW j \in JobIds, PoolLaunch(d, j) PROVE PoolFirst'
  BY <1>22 DEF PoolLaunch, MayLaunch, IsFirst, Unlaunched
<1>23. ASSUME NEW d \in Drains, NEW j \in JobIds, NEW r \in {"ok", "bad"}, ChildExits(d, j, r)
      PROVE PoolFirst'
  BY <1>23 DEF ChildExits
<1>24. ASSUME NEW d \in Drains, NEW j \in JobIds, Reap(d, j) PROVE PoolFirst'
  BY <1>24 DEF Reap, Settle, Active, Started
<1>25. ASSUME NEW d \in Drains, NEW j \in JobIds, Timeout(d, j) PROVE PoolFirst'
  BY <1>25 DEF Timeout, Settle, Active, Started
<1>26. ASSUME NEW d \in Drains, Reacquire(d) PROVE PoolFirst'
  BY <1>26 DEF Reacquire, Quiet, Active, Started
<1>27. ASSUME NEW d \in Drains, ReacquireFails(d) PROVE PoolFirst'
  BY <1>27 DEF ReacquireFails, Quiet, Lose, End
<1>28. ASSUME NEW d \in Drains, NEW j \in JobIds, Record(d, j) PROVE PoolFirst'
  <2>1. PICK s \in {"pending", "done", "failed"} : RecordTo(d, j, s)
    BY <1>28, RecordEffect
  <2>2. CASE End(d, "exited")
    BY <2>1, <2>2 DEF RecordTo, End
  <2>3. CASE ~End(d, "exited")
    BY <2>1, <2>3 DEF RecordTo
  <2>4. QED
    BY <2>2, <2>3
<1>29. ASSUME NEW d \in Drains, PoolAborts(d) PROVE PoolFirst'
  BY <1>29 DEF PoolAborts, Lose, End
<1>30. ASSUME NEW d \in Drains, DrainDies(d) PROVE PoolFirst'
  BY <1>30 DEF DrainDies, Lose, End
<1>31. CASE UNCHANGED vars
  BY <1>31 DEF vars
<1>32. QED
  BY <1>1, <1>2, <1>3, <1>4, <1>5, <1>6, <1>7, <1>8, <1>9, <1>10, <1>11, <1>12, <1>13, <1>14,
     <1>15, <1>16, <1>17, <1>18, <1>19, <1>20, <1>21, <1>22, <1>23, <1>24, <1>25, <1>26, <1>27,
     <1>28, <1>29, <1>30, <1>31 DEF Next, EnqueueStep, StoreStep, DrainStep, GuardStep,
     ClockStep, FailureStep, ChildStep

\* Nothing is started ahead of a waiting row.
LEMMA LaunchStep ==
    TypeOK /\ WhereRowsAre /\ HeldRowsRunning /\ SelectedWaiting /\ WorkOnce /\ PoolFirst /\
    LaunchOrder /\ [Next]_vars => LaunchOrder'
<1> SUFFICES ASSUME TypeOK, WhereRowsAre, HeldRowsRunning, SelectedWaiting, WorkOnce,
      PoolFirst, LaunchOrder, [Next]_vars PROVE LaunchOrder'
  OBVIOUS
<1> USE DEF TypeOK, WhereRowsAre, LaunchOrder, Before, Unlaunched
<1>1. ASSUME NEW r \in Requests, EnqueueOnceDone(r) PROVE LaunchOrder'
  BY <1>1 DEF EnqueueOnceDone, Supersede, Matching, Rows
<1>2. ASSUME NEW r \in Requests, EnqueueNew(r) PROVE LaunchOrder'
  <2>1. PICK j \in JobIds : NewRowAt(r, j)
    BY <1>2, EnqueueNewEffect
  <2>2. SUFFICES ASSUME NEW d \in Drains, pc[d] \in Alive, NEW i \in sel[d] \cup Unlaunched(d),
                        NEW k \in JobIds, work[d][k] # "none"
                 PROVE  Before(k, i)'
    BY <2>1 DEF LaunchOrder, Unlaunched, NewRowAt
  <2>3. state[i] # "absent" /\ state[k] # "absent" /\ Before(k, i)
    <3>1. Before(k, i)
      BY <2>2 DEF LaunchOrder
    <3>2. state[k] # "absent"
      BY <2>2 DEF WorkOnce
    <3>3. CASE i \in sel[d]
      BY <3>3, <3>1, <3>2 DEF SelectedWaiting
    <3>4. CASE i \in pool[d]
      <4>1. pc[d] \in Holding
        BY <2>2, <3>4 DEF WhereRowsAre
      <4>2. QED
        BY <4>1, <3>4, <3>1, <3>2 DEF HeldRowsRunning
    <3>5. QED
      BY <2>2, <3>3, <3>4 DEF Unlaunched
  <2>4. req'[i] = req[i] /\ req'[k] = req[k]
    BY <2>1, <2>3 DEF NewRowAt
  <2>5. QED
    BY <2>3, <2>4 DEF Before
<1>3. ASSUME NEW r \in Requests, EnqueueDies(r) PROVE LaunchOrder'
  BY <1>3 DEF EnqueueDies, Supersede, Stale, Rows
<1>4. ASSUME SupersedeStalePending PROVE LaunchOrder'
  BY <1>4 DEF SupersedeStalePending, Supersede, Rows
<1>5. ASSUME OtherOpens \/ OtherCloses \/ BackfillDies PROVE LaunchOrder'
  BY <1>5 DEF OtherOpens, OtherCloses, BackfillDies
<1>6. ASSUME BackfillStart PROVE LaunchOrder'
  <2>1. PICK j \in JobIds : BackfillAt(j)
    BY <1>6, BackfillStartEffect
  <2>2. SUFFICES ASSUME NEW d \in Drains, pc[d] \in Alive, NEW i \in sel[d] \cup Unlaunched(d),
                        NEW k \in JobIds, work[d][k] # "none"
                 PROVE  Before(k, i)'
    BY <2>1 DEF LaunchOrder, Unlaunched, BackfillAt
  <2>3. state[i] # "absent" /\ state[k] # "absent" /\ Before(k, i)
    <3>1. Before(k, i)
      BY <2>2 DEF LaunchOrder
    <3>2. state[k] # "absent"
      BY <2>2 DEF WorkOnce
    <3>3. CASE i \in sel[d]
      BY <3>3, <3>1, <3>2 DEF SelectedWaiting
    <3>4. CASE i \in pool[d]
      <4>1. pc[d] \in Holding
        BY <2>2, <3>4 DEF WhereRowsAre
      <4>2. QED
        BY <4>1, <3>4, <3>1, <3>2 DEF HeldRowsRunning
    <3>5. QED
      BY <2>2, <3>3, <3>4 DEF Unlaunched
  <2>4. req'[i] = req[i] /\ req'[k] = req[k]
    BY <2>1, <2>3 DEF BackfillAt
  <2>5. QED
    BY <2>3, <2>4 DEF Before
<1>7. ASSUME NEW s \in {"running", "done"}, BackfillBatch(s) PROVE LaunchOrder'
  BY <1>7 DEF BackfillBatch
<1>8. ASSUME NEW d \in Drains, AcquireDrainLock(d) PROVE LaunchOrder'
  BY <1>8 DEF AcquireDrainLock, LockFree, WorkOnce
<1>9. ASSUME NEW d \in Drains, DeclineDrain(d) PROVE LaunchOrder'
  BY <1>9 DEF DeclineDrain
<1>10. ASSUME NEW d \in Drains, Connect(d) PROVE LaunchOrder'
  BY <1>10 DEF Connect
<1>11. ASSUME NEW d \in Drains, ConnectFails(d) PROVE LaunchOrder'
  BY <1>11 DEF ConnectFails, Lose, End
<1>12. ASSUME NEW d \in Drains, ReclaimAndSelect(d) PROVE LaunchOrder'
  <2>1. PICK S \in SUBSET JobIds : SelectTo(d, S)
    BY <1>12, SelectEffect
  <2>2. /\ \A k \in JobIds : work'[d][k] = "none"
        /\ work' = work /\ req' = req /\ pool' = pool
    BY <2>1 DEF SelectTo, WorkOnce
  <2>3. \A e \in Drains : e # d => pc'[e] = pc[e] /\ sel'[e] = sel[e]
    BY <2>1 DEF SelectTo, End
  <2>4. SUFFICES ASSUME NEW e \in Drains, pc'[e] \in Alive, NEW i \in sel'[e] \cup Unlaunched(e)',
                        NEW k \in JobIds, work'[e][k] # "none"
                 PROVE  Before(k, i)'
    BY DEF LaunchOrder
  <2>5. e # d
    BY <2>2, <2>4
  <2>6. i \in sel[e] \cup Unlaunched(e) /\ pc[e] \in Alive
    BY <2>2, <2>3, <2>4, <2>5
  <2>7. Before(k, i)
    BY <2>2, <2>4, <2>6 DEF LaunchOrder
  <2>8. QED
    BY <2>2, <2>7
<1>13. ASSUME NEW d \in Drains, BudgetExpires(d) \/ PoolBudgetStop(d) \/ PoolGuardStop(d) PROVE
      LaunchOrder'
  BY <1>13 DEF BudgetExpires, PoolBudgetStop, PoolGuardStop
<1>14. ASSUME NEW d \in Drains, ScanDone(d) PROVE LaunchOrder'
  BY <1>14 DEF ScanDone, End
<1>15. ASSUME NEW d \in Drains, ScanGuardTrips(d) PROVE LaunchOrder'
  BY <1>15 DEF ScanGuardTrips, End
<1>16. ASSUME NEW d \in Drains, NEW j \in JobIds, RefuseJob(d, j) PROVE LaunchOrder'
  BY <1>16 DEF RefuseJob, Next1, IsFirst
<1>17. ASSUME NEW d \in Drains, NEW j \in JobIds, SkipArchiveJob(d, j) PROVE LaunchOrder'
  BY <1>17 DEF SkipArchiveJob, Next1, IsFirst
<1>18. ASSUME NEW d \in Drains, NEW j \in JobIds, StartReleasing(d, j) PROVE LaunchOrder'
  BY <1>18 DEF StartReleasing, Next1, IsFirst, Dispatchable
<1>19. ASSUME NEW d \in Drains, NEW j \in JobIds, StartInProcess(d, j) PROVE LaunchOrder'
  BY <1>19 DEF StartInProcess, Next1, IsFirst, Dispatchable
<1>20. ASSUME NEW d \in Drains, NEW r \in {"ok", "bad"}, FinishInProcess(d, r) PROVE
      LaunchOrder'
  <2>1. PICK j \in pool[d] : FinishTo(d, j, r)
    BY <1>20, FinishEffect
  <2>2. QED
    BY <2>1 DEF FinishTo, PoolFirst
<1>21. ASSUME NEW d \in Drains, StartPool(d) PROVE LaunchOrder'
  <2>1. PICK run, started \in SUBSET JobIds : PoolTo(d, run, started)
    BY <1>21, PoolEffect
  <2>2. QED
    BY <2>1 DEF PoolTo
<1>22. ASSUME NEW d \in Drains, NEW j \in JobIds, PoolLaunch(d, j) PROVE LaunchOrder'
  BY <1>22 DEF PoolLaunch, MayLaunch, IsFirst, PoolFirst
<1>23. ASSUME NEW d \in Drains, NEW j \in JobIds, NEW r \in {"ok", "bad"}, ChildExits(d, j, r)
      PROVE LaunchOrder'
  BY <1>23 DEF ChildExits
<1>24. ASSUME NEW d \in Drains, NEW j \in JobIds, Reap(d, j) PROVE LaunchOrder'
  BY <1>24 DEF Reap, Settle, Active, Started
<1>25. ASSUME NEW d \in Drains, NEW j \in JobIds, Timeout(d, j) PROVE LaunchOrder'
  BY <1>25 DEF Timeout, Settle, Active, Started
<1>26. ASSUME NEW d \in Drains, Reacquire(d) PROVE LaunchOrder'
  BY <1>26 DEF Reacquire, Quiet, Active, Started
<1>27. ASSUME NEW d \in Drains, ReacquireFails(d) PROVE LaunchOrder'
  BY <1>27 DEF ReacquireFails, Quiet, Lose, End
<1>28. ASSUME NEW d \in Drains, NEW j \in JobIds, Record(d, j) PROVE LaunchOrder'
  <2>1. PICK s \in {"pending", "done", "failed"} : RecordTo(d, j, s)
    BY <1>28, RecordEffect
  <2>2. CASE End(d, "exited")
    BY <2>1, <2>2 DEF RecordTo, End
  <2>3. CASE ~End(d, "exited")
    BY <2>1, <2>3 DEF RecordTo
  <2>4. QED
    BY <2>2, <2>3
<1>29. ASSUME NEW d \in Drains, PoolAborts(d) PROVE LaunchOrder'
  BY <1>29 DEF PoolAborts, Lose, End
<1>30. ASSUME NEW d \in Drains, DrainDies(d) PROVE LaunchOrder'
  BY <1>30 DEF DrainDies, Lose, End
<1>31. CASE UNCHANGED vars
  BY <1>31 DEF vars
<1>32. QED
  BY <1>1, <1>2, <1>3, <1>4, <1>5, <1>6, <1>7, <1>8, <1>9, <1>10, <1>11, <1>12, <1>13, <1>14,
     <1>15, <1>16, <1>17, <1>18, <1>19, <1>20, <1>21, <1>22, <1>23, <1>24, <1>25, <1>26, <1>27,
     <1>28, <1>29, <1>30, <1>31 DEF Next, EnqueueStep, StoreStep, DrainStep, GuardStep,
     ClockStep, FailureStep, ChildStep

\* No row is left running by a drain that ends cleanly.
LEMMA OwnedStep ==
    TypeOK /\ LocksHeld /\ WhereRowsAre /\ HeldRowsRunning /\ BackfillOwn /\ RunningIsOwned /\
    [Next]_vars => RunningIsOwned'
<1> SUFFICES ASSUME TypeOK, LocksHeld, WhereRowsAre, HeldRowsRunning, BackfillOwn,
      RunningIsOwned, [Next]_vars PROVE RunningIsOwned'
  OBVIOUS
<1> USE DEF TypeOK, LocksHeld, WhereRowsAre, BackfillOwn, RunningIsOwned, Kind, Owned
<1>1. ASSUME NEW r \in Requests, EnqueueOnceDone(r) PROVE RunningIsOwned'
  <2>2. SUFFICES ASSUME NEW i \in JobIds, state'[i] = "running", (Kind(i) # Backfill)'
                 PROVE  Owned(i)'
    BY DEF RunningIsOwned
  <2>3. state[i] = "running" /\ Kind(i) # Backfill
    BY <1>1, <2>2 DEF TypeOK, Kind, EnqueueOnceDone, Supersede, Matching, Rows
  <2>4. Owned(i)
    BY <2>3 DEF RunningIsOwned
  <2>5. CASE \E e \in Drains : pc[e] \in Holding /\ i \in pool[e]
    <3>1. PICK e \in Drains : pc[e] \in Holding /\ i \in pool[e]
      BY <2>5
    <3>2. QED
      BY <1>1, <3>1, <2>2 DEF TypeOK, LocksHeld, Owned, EnqueueOnceDone, Supersede, Matching, Rows
  <2>6. CASE ~\E e \in Drains : pc[e] \in Holding /\ i \in pool[e]
    <3>1. PICK e \in Drains : pc[e] = "dead" /\ i \in pool[e]
      BY <2>4, <2>6 DEF Owned
    <3>2. \A f \in Drains : pc[f] \notin Holding \cup {"scan"}
      BY <2>4, <2>6 DEF Owned
    <3>3. QED
      BY <1>1, <3>1, <3>2 DEF TypeOK, Owned, EnqueueOnceDone, Supersede, Matching, Rows
  <2>7. QED
    BY <2>5, <2>6
<1>2. ASSUME NEW r \in Requests, EnqueueNew(r) PROVE RunningIsOwned'
  <2>1. PICK j \in JobIds : NewRowAt(r, j)
    BY <1>2, EnqueueNewEffect
  <2>2. SUFFICES ASSUME NEW i \in JobIds, state'[i] = "running", (Kind(i) # Backfill)'
                 PROVE  Owned(i)'
    BY DEF RunningIsOwned
  <2>3. state[i] = "running" /\ Kind(i) # Backfill
    BY <2>1, <2>2 DEF TypeOK, Kind, NewRowAt
  <2>4. Owned(i)
    BY <2>3 DEF RunningIsOwned
  <2>5. CASE \E e \in Drains : pc[e] \in Holding /\ i \in pool[e]
    <3>1. PICK e \in Drains : pc[e] \in Holding /\ i \in pool[e]
      BY <2>5
    <3>2. QED
      BY <2>1, <3>1, <2>2 DEF TypeOK, LocksHeld, Owned, NewRowAt
  <2>6. CASE ~\E e \in Drains : pc[e] \in Holding /\ i \in pool[e]
    <3>1. PICK e \in Drains : pc[e] = "dead" /\ i \in pool[e]
      BY <2>4, <2>6 DEF Owned
    <3>2. \A f \in Drains : pc[f] \notin Holding \cup {"scan"}
      BY <2>4, <2>6 DEF Owned
    <3>3. QED
      BY <2>1, <3>1, <3>2 DEF TypeOK, Owned, NewRowAt
  <2>7. QED
    BY <2>5, <2>6
<1>3. ASSUME NEW r \in Requests, EnqueueDies(r) PROVE RunningIsOwned'
  <2>2. SUFFICES ASSUME NEW i \in JobIds, state'[i] = "running", (Kind(i) # Backfill)'
                 PROVE  Owned(i)'
    BY DEF RunningIsOwned
  <2>3. state[i] = "running" /\ Kind(i) # Backfill
    BY <1>3, <2>2 DEF TypeOK, Kind, EnqueueDies, Supersede, Stale, Rows
  <2>4. Owned(i)
    BY <2>3 DEF RunningIsOwned
  <2>5. CASE \E e \in Drains : pc[e] \in Holding /\ i \in pool[e]
    <3>1. PICK e \in Drains : pc[e] \in Holding /\ i \in pool[e]
      BY <2>5
    <3>2. QED
      BY <1>3, <3>1, <2>2 DEF TypeOK, LocksHeld, Owned, EnqueueDies, Supersede, Stale, Rows
  <2>6. CASE ~\E e \in Drains : pc[e] \in Holding /\ i \in pool[e]
    <3>1. PICK e \in Drains : pc[e] = "dead" /\ i \in pool[e]
      BY <2>4, <2>6 DEF Owned
    <3>2. \A f \in Drains : pc[f] \notin Holding \cup {"scan"}
      BY <2>4, <2>6 DEF Owned
    <3>3. QED
      BY <1>3, <3>1, <3>2 DEF TypeOK, Owned, EnqueueDies, Supersede, Stale, Rows
  <2>7. QED
    BY <2>5, <2>6
<1>4. ASSUME SupersedeStalePending PROVE RunningIsOwned'
  <2>2. SUFFICES ASSUME NEW i \in JobIds, state'[i] = "running", (Kind(i) # Backfill)'
                 PROVE  Owned(i)'
    BY DEF RunningIsOwned
  <2>3. state[i] = "running" /\ Kind(i) # Backfill
    BY <1>4, <2>2 DEF TypeOK, Kind, SupersedeStalePending, Supersede, Rows
  <2>4. Owned(i)
    BY <2>3 DEF RunningIsOwned
  <2>5. CASE \E e \in Drains : pc[e] \in Holding /\ i \in pool[e]
    <3>1. PICK e \in Drains : pc[e] \in Holding /\ i \in pool[e]
      BY <2>5
    <3>2. QED
      BY <1>4, <3>1, <2>2 DEF TypeOK, LocksHeld, Owned, SupersedeStalePending, Supersede, Rows
  <2>6. CASE ~\E e \in Drains : pc[e] \in Holding /\ i \in pool[e]
    <3>1. PICK e \in Drains : pc[e] = "dead" /\ i \in pool[e]
      BY <2>4, <2>6 DEF Owned
    <3>2. \A f \in Drains : pc[f] \notin Holding \cup {"scan"}
      BY <2>4, <2>6 DEF Owned
    <3>3. QED
      BY <1>4, <3>1, <3>2 DEF TypeOK, Owned, SupersedeStalePending, Supersede, Rows
  <2>7. QED
    BY <2>5, <2>6
<1>5. ASSUME OtherOpens \/ OtherCloses \/ BackfillDies PROVE RunningIsOwned'
  <2>2. SUFFICES ASSUME NEW i \in JobIds, state'[i] = "running", (Kind(i) # Backfill)'
                 PROVE  Owned(i)'
    BY DEF RunningIsOwned
  <2>3. state[i] = "running" /\ Kind(i) # Backfill
    BY <1>5, <2>2 DEF TypeOK, Kind, OtherOpens, OtherCloses, BackfillDies
  <2>4. Owned(i)
    BY <2>3 DEF RunningIsOwned
  <2>5. CASE \E e \in Drains : pc[e] \in Holding /\ i \in pool[e]
    <3>1. PICK e \in Drains : pc[e] \in Holding /\ i \in pool[e]
      BY <2>5
    <3>2. QED
      BY <1>5, <3>1, <2>2 DEF TypeOK, LocksHeld, Owned, OtherOpens, OtherCloses, BackfillDies
  <2>6. CASE ~\E e \in Drains : pc[e] \in Holding /\ i \in pool[e]
    <3>1. PICK e \in Drains : pc[e] = "dead" /\ i \in pool[e]
      BY <2>4, <2>6 DEF Owned
    <3>2. \A f \in Drains : pc[f] \notin Holding \cup {"scan"}
      BY <2>4, <2>6 DEF Owned
    <3>3. QED
      BY <1>5, <3>1, <3>2 DEF TypeOK, Owned, OtherOpens, OtherCloses, BackfillDies
  <2>7. QED
    BY <2>5, <2>6
<1>6. ASSUME BackfillStart PROVE RunningIsOwned'
  <2>1. PICK j \in JobIds : BackfillAt(j)
    BY <1>6, BackfillStartEffect
  <2>2. QED
    BY <2>1 DEF BackfillAt, BackfillRequest
<1>7. ASSUME NEW s \in {"running", "done"}, BackfillBatch(s) PROVE RunningIsOwned'
  BY <1>7 DEF BackfillBatch
<1>8. ASSUME NEW d \in Drains, AcquireDrainLock(d) PROVE RunningIsOwned'
  <2>2. SUFFICES ASSUME NEW i \in JobIds, state'[i] = "running", (Kind(i) # Backfill)'
                 PROVE  Owned(i)'
    BY DEF RunningIsOwned
  <2>3. state[i] = "running" /\ Kind(i) # Backfill
    BY <1>8, <2>2 DEF TypeOK, Kind, AcquireDrainLock, LockFree
  <2>4. Owned(i)
    BY <2>3 DEF RunningIsOwned
  <2>5. CASE \E e \in Drains : pc[e] \in Holding /\ i \in pool[e]
    <3>1. PICK e \in Drains : pc[e] \in Holding /\ i \in pool[e]
      BY <2>5
    <3>2. QED
      BY <1>8, <3>1, <2>2 DEF TypeOK, LocksHeld, Owned, AcquireDrainLock, LockFree
  <2>6. CASE ~\E e \in Drains : pc[e] \in Holding /\ i \in pool[e]
    <3>1. PICK e \in Drains : pc[e] = "dead" /\ i \in pool[e]
      BY <2>4, <2>6 DEF Owned
    <3>2. \A f \in Drains : pc[f] \notin Holding \cup {"scan"}
      BY <2>4, <2>6 DEF Owned
    <3>3. QED
      BY <1>8, <3>1, <3>2 DEF TypeOK, Owned, AcquireDrainLock, LockFree
  <2>7. QED
    BY <2>5, <2>6
<1>9. ASSUME NEW d \in Drains, DeclineDrain(d) PROVE RunningIsOwned'
  <2>2. SUFFICES ASSUME NEW i \in JobIds, state'[i] = "running", (Kind(i) # Backfill)'
                 PROVE  Owned(i)'
    BY DEF RunningIsOwned
  <2>3. state[i] = "running" /\ Kind(i) # Backfill
    BY <1>9, <2>2 DEF TypeOK, Kind, DeclineDrain
  <2>4. Owned(i)
    BY <2>3 DEF RunningIsOwned
  <2>5. CASE \E e \in Drains : pc[e] \in Holding /\ i \in pool[e]
    <3>1. PICK e \in Drains : pc[e] \in Holding /\ i \in pool[e]
      BY <2>5
    <3>2. QED
      BY <1>9, <3>1, <2>2 DEF TypeOK, LocksHeld, Owned, DeclineDrain
  <2>6. CASE ~\E e \in Drains : pc[e] \in Holding /\ i \in pool[e]
    <3>1. PICK e \in Drains : pc[e] = "dead" /\ i \in pool[e]
      BY <2>4, <2>6 DEF Owned
    <3>2. \A f \in Drains : pc[f] \notin Holding \cup {"scan"}
      BY <2>4, <2>6 DEF Owned
    <3>3. QED
      BY <1>9, <3>1, <3>2 DEF TypeOK, Owned, DeclineDrain
  <2>7. QED
    BY <2>5, <2>6
<1>10. ASSUME NEW d \in Drains, Connect(d) PROVE RunningIsOwned'
  <2>2. SUFFICES ASSUME NEW i \in JobIds, state'[i] = "running", (Kind(i) # Backfill)'
                 PROVE  Owned(i)'
    BY DEF RunningIsOwned
  <2>3. state[i] = "running" /\ Kind(i) # Backfill
    BY <1>10, <2>2 DEF TypeOK, Kind, Connect
  <2>4. Owned(i)
    BY <2>3 DEF RunningIsOwned
  <2>5. CASE \E e \in Drains : pc[e] \in Holding /\ i \in pool[e]
    <3>1. PICK e \in Drains : pc[e] \in Holding /\ i \in pool[e]
      BY <2>5
    <3>2. QED
      BY <1>10, <3>1, <2>2 DEF TypeOK, LocksHeld, Owned, Connect
  <2>6. CASE ~\E e \in Drains : pc[e] \in Holding /\ i \in pool[e]
    <3>1. PICK e \in Drains : pc[e] = "dead" /\ i \in pool[e]
      BY <2>4, <2>6 DEF Owned
    <3>2. \A f \in Drains : pc[f] \notin Holding \cup {"scan"}
      BY <2>4, <2>6 DEF Owned
    <3>3. QED
      BY <1>10, <3>1, <3>2 DEF TypeOK, Owned, Connect
  <2>7. QED
    BY <2>5, <2>6
<1>11. ASSUME NEW d \in Drains, ConnectFails(d) PROVE RunningIsOwned'
  <2>2. SUFFICES ASSUME NEW i \in JobIds, state'[i] = "running", (Kind(i) # Backfill)'
                 PROVE  Owned(i)'
    BY DEF RunningIsOwned
  <2>3. state[i] = "running" /\ Kind(i) # Backfill
    BY <1>11, <2>2 DEF TypeOK, Kind, ConnectFails, Lose, End
  <2>4. Owned(i)
    BY <2>3 DEF RunningIsOwned
  <2>5. CASE \E e \in Drains : pc[e] \in Holding /\ i \in pool[e]
    <3>1. PICK e \in Drains : pc[e] \in Holding /\ i \in pool[e]
      BY <2>5
    <3>2. QED
      BY <1>11, <3>1, <2>2 DEF TypeOK, LocksHeld, Owned, ConnectFails, Lose, End
  <2>6. CASE ~\E e \in Drains : pc[e] \in Holding /\ i \in pool[e]
    <3>1. PICK e \in Drains : pc[e] = "dead" /\ i \in pool[e]
      BY <2>4, <2>6 DEF Owned
    <3>2. \A f \in Drains : pc[f] \notin Holding \cup {"scan"}
      BY <2>4, <2>6 DEF Owned
    <3>3. QED
      BY <1>11, <3>1, <3>2 DEF TypeOK, Owned, ConnectFails, Lose, End
  <2>7. QED
    BY <2>5, <2>6
<1>12. ASSUME NEW d \in Drains, ReclaimAndSelect(d) PROVE RunningIsOwned'
  <2>1. PICK S \in SUBSET JobIds : SelectTo(d, S)
    BY <1>12, SelectEffect
  <2>2. CASE End(d, "exited")
    BY <2>1, <2>2 DEF SelectTo, Reclaimed, End
  <2>3. CASE ~End(d, "exited")
    BY <2>1, <2>3 DEF SelectTo, Reclaimed
  <2>4. QED
    BY <2>2, <2>3
<1>13. ASSUME NEW d \in Drains, BudgetExpires(d) \/ PoolBudgetStop(d) \/ PoolGuardStop(d) PROVE
      RunningIsOwned'
  <2>2. SUFFICES ASSUME NEW i \in JobIds, state'[i] = "running", (Kind(i) # Backfill)'
                 PROVE  Owned(i)'
    BY DEF RunningIsOwned
  <2>3. state[i] = "running" /\ Kind(i) # Backfill
    BY <1>13, <2>2 DEF TypeOK, Kind, BudgetExpires, PoolBudgetStop, PoolGuardStop
  <2>4. Owned(i)
    BY <2>3 DEF RunningIsOwned
  <2>5. CASE \E e \in Drains : pc[e] \in Holding /\ i \in pool[e]
    <3>1. PICK e \in Drains : pc[e] \in Holding /\ i \in pool[e]
      BY <2>5
    <3>2. QED
      BY <1>13, <3>1, <2>2 DEF TypeOK, LocksHeld, Owned, BudgetExpires, PoolBudgetStop, PoolGuardStop
  <2>6. CASE ~\E e \in Drains : pc[e] \in Holding /\ i \in pool[e]
    <3>1. PICK e \in Drains : pc[e] = "dead" /\ i \in pool[e]
      BY <2>4, <2>6 DEF Owned
    <3>2. \A f \in Drains : pc[f] \notin Holding \cup {"scan"}
      BY <2>4, <2>6 DEF Owned
    <3>3. QED
      BY <1>13, <3>1, <3>2 DEF TypeOK, Owned, BudgetExpires, PoolBudgetStop, PoolGuardStop
  <2>7. QED
    BY <2>5, <2>6
<1>14. ASSUME NEW d \in Drains, ScanDone(d) PROVE RunningIsOwned'
  <2>2. SUFFICES ASSUME NEW i \in JobIds, state'[i] = "running", (Kind(i) # Backfill)'
                 PROVE  Owned(i)'
    BY DEF RunningIsOwned
  <2>3. state[i] = "running" /\ Kind(i) # Backfill
    BY <1>14, <2>2 DEF TypeOK, Kind, ScanDone, End
  <2>4. Owned(i)
    BY <2>3 DEF RunningIsOwned
  <2>5. CASE \E e \in Drains : pc[e] \in Holding /\ i \in pool[e]
    <3>1. PICK e \in Drains : pc[e] \in Holding /\ i \in pool[e]
      BY <2>5
    <3>2. QED
      BY <1>14, <3>1, <2>2 DEF TypeOK, LocksHeld, Owned, ScanDone, End
  <2>6. CASE ~\E e \in Drains : pc[e] \in Holding /\ i \in pool[e]
    <3>1. PICK e \in Drains : pc[e] = "dead" /\ i \in pool[e]
      BY <2>4, <2>6 DEF Owned
    <3>2. \A f \in Drains : pc[f] \notin Holding \cup {"scan"}
      BY <2>4, <2>6 DEF Owned
    <3>3. QED
      BY <1>14, <3>1, <3>2 DEF TypeOK, Owned, ScanDone, End
  <2>7. QED
    BY <2>5, <2>6
<1>15. ASSUME NEW d \in Drains, ScanGuardTrips(d) PROVE RunningIsOwned'
  <2>2. SUFFICES ASSUME NEW i \in JobIds, state'[i] = "running", (Kind(i) # Backfill)'
                 PROVE  Owned(i)'
    BY DEF RunningIsOwned
  <2>3. state[i] = "running" /\ Kind(i) # Backfill
    BY <1>15, <2>2 DEF TypeOK, Kind, ScanGuardTrips, End
  <2>4. Owned(i)
    BY <2>3 DEF RunningIsOwned
  <2>5. CASE \E e \in Drains : pc[e] \in Holding /\ i \in pool[e]
    <3>1. PICK e \in Drains : pc[e] \in Holding /\ i \in pool[e]
      BY <2>5
    <3>2. QED
      BY <1>15, <3>1, <2>2 DEF TypeOK, LocksHeld, Owned, ScanGuardTrips, End
  <2>6. CASE ~\E e \in Drains : pc[e] \in Holding /\ i \in pool[e]
    <3>1. PICK e \in Drains : pc[e] = "dead" /\ i \in pool[e]
      BY <2>4, <2>6 DEF Owned
    <3>2. \A f \in Drains : pc[f] \notin Holding \cup {"scan"}
      BY <2>4, <2>6 DEF Owned
    <3>3. QED
      BY <1>15, <3>1, <3>2 DEF TypeOK, Owned, ScanGuardTrips, End
  <2>7. QED
    BY <2>5, <2>6
<1>16. ASSUME NEW d \in Drains, NEW j \in JobIds, RefuseJob(d, j) PROVE RunningIsOwned'
  BY <1>16 DEF RefuseJob, Next1, IsFirst
<1>17. ASSUME NEW d \in Drains, NEW j \in JobIds, SkipArchiveJob(d, j) PROVE RunningIsOwned'
  BY <1>17 DEF SkipArchiveJob, Next1, IsFirst
<1>18. ASSUME NEW d \in Drains, NEW j \in JobIds, StartReleasing(d, j) PROVE RunningIsOwned'
  <2>1. /\ pc[d] = "scan" /\ pc' = [pc EXCEPT ![d] = "single"] /\ pool' = [pool EXCEPT ![d] = {j}]
        /\ state' = [state EXCEPT ![j] = "running"] /\ req' = req
    BY <1>18 DEF StartReleasing, Next1
  <2>2. SUFFICES ASSUME NEW i \in JobIds, state'[i] = "running", (Kind(i) # Backfill)'
                 PROVE  Owned(i)'
    BY DEF RunningIsOwned
  <2>3. CASE i = j
    BY <2>1, <2>3 DEF TypeOK, Owned
  <2>4. CASE i # j
    <3>1. state[i] = "running" /\ Kind(i) # Backfill
      BY <2>1, <2>2, <2>4 DEF TypeOK, Kind
    <3>2. Owned(i)
      BY <3>1 DEF RunningIsOwned
    <3>3. QED
      BY <2>1, <3>2 DEF Owned, LocksHeld
  <2>5. QED
    BY <2>3, <2>4
<1>19. ASSUME NEW d \in Drains, NEW j \in JobIds, StartInProcess(d, j) PROVE RunningIsOwned'
  <2>1. /\ pc[d] = "scan" /\ pc' = [pc EXCEPT ![d] = "inproc"] /\ pool' = [pool EXCEPT ![d] = {j}]
        /\ state' = [state EXCEPT ![j] = "running"] /\ req' = req
    BY <1>19 DEF StartInProcess, Next1
  <2>2. SUFFICES ASSUME NEW i \in JobIds, state'[i] = "running", (Kind(i) # Backfill)'
                 PROVE  Owned(i)'
    BY DEF RunningIsOwned
  <2>3. CASE i = j
    BY <2>1, <2>3 DEF TypeOK, Owned
  <2>4. CASE i # j
    <3>1. state[i] = "running" /\ Kind(i) # Backfill
      BY <2>1, <2>2, <2>4 DEF TypeOK, Kind
    <3>2. Owned(i)
      BY <3>1 DEF RunningIsOwned
    <3>3. QED
      BY <2>1, <3>2 DEF Owned, LocksHeld
  <2>5. QED
    BY <2>3, <2>4
<1>20. ASSUME NEW d \in Drains, NEW r \in {"ok", "bad"}, FinishInProcess(d, r) PROVE
      RunningIsOwned'
  <2>1. PICK j \in pool[d] : FinishTo(d, j, r)
    BY <1>20, FinishEffect
  <2>2. SUFFICES ASSUME NEW i \in JobIds, state'[i] = "running", (Kind(i) # Backfill)'
                 PROVE  Owned(i)'
    BY DEF RunningIsOwned
  <2>3. i # j /\ state[i] = "running" /\ Kind(i) # Backfill
    BY <2>1, <2>2 DEF TypeOK, Kind, FinishTo
  <2>4. Owned(i) /\ pc[d] = "inproc"
    BY <2>1, <2>3 DEF RunningIsOwned, FinishTo
  <2>5. i \in pool[d]
    BY <2>4 DEF Owned, LocksHeld
  <2>6. QED
    BY <2>3, <2>4, <2>5 DEF WhereRowsAre
<1>21. ASSUME NEW d \in Drains, StartPool(d) PROVE RunningIsOwned'
  <2>1. PICK run, started \in SUBSET JobIds : PoolTo(d, run, started)
    BY <1>21, PoolEffect
  <2>2. QED
    BY <2>1 DEF PoolTo
<1>22. ASSUME NEW d \in Drains, NEW j \in JobIds, PoolLaunch(d, j) PROVE RunningIsOwned'
  BY <1>22 DEF PoolLaunch, MayLaunch, IsFirst, Unlaunched
<1>23. ASSUME NEW d \in Drains, NEW j \in JobIds, NEW r \in {"ok", "bad"}, ChildExits(d, j, r)
      PROVE RunningIsOwned'
  BY <1>23 DEF ChildExits
<1>24. ASSUME NEW d \in Drains, NEW j \in JobIds, Reap(d, j) PROVE RunningIsOwned'
  BY <1>24 DEF Reap, Settle, Active, Started
<1>25. ASSUME NEW d \in Drains, NEW j \in JobIds, Timeout(d, j) PROVE RunningIsOwned'
  BY <1>25 DEF Timeout, Settle, Active, Started
<1>26. ASSUME NEW d \in Drains, Reacquire(d) PROVE RunningIsOwned'
  BY <1>26 DEF Reacquire, Quiet, Active, Started
<1>27. ASSUME NEW d \in Drains, ReacquireFails(d) PROVE RunningIsOwned'
  <2>2. SUFFICES ASSUME NEW i \in JobIds, state'[i] = "running", (Kind(i) # Backfill)'
                 PROVE  Owned(i)'
    BY DEF RunningIsOwned
  <2>3. state[i] = "running" /\ Kind(i) # Backfill
    BY <1>27, <2>2 DEF TypeOK, Kind, ReacquireFails, Quiet, Lose, End
  <2>4. Owned(i)
    BY <2>3 DEF RunningIsOwned
  <2>5. CASE \E e \in Drains : pc[e] \in Holding /\ i \in pool[e]
    <3>1. PICK e \in Drains : pc[e] \in Holding /\ i \in pool[e]
      BY <2>5
    <3>2. QED
      BY <1>27, <3>1, <2>2 DEF TypeOK, LocksHeld, Owned, ReacquireFails, Quiet, Lose, End
  <2>6. CASE ~\E e \in Drains : pc[e] \in Holding /\ i \in pool[e]
    <3>1. PICK e \in Drains : pc[e] = "dead" /\ i \in pool[e]
      BY <2>4, <2>6 DEF Owned
    <3>2. \A f \in Drains : pc[f] \notin Holding \cup {"scan"}
      BY <2>4, <2>6 DEF Owned
    <3>3. QED
      BY <1>27, <3>1, <3>2 DEF TypeOK, Owned, ReacquireFails, Quiet, Lose, End
  <2>7. QED
    BY <2>5, <2>6
<1>28. ASSUME NEW d \in Drains, NEW j \in JobIds, Record(d, j) PROVE RunningIsOwned'
  <2>1. PICK s \in {"pending", "done", "failed"} : RecordTo(d, j, s)
    BY <1>28, RecordEffect
  <2>2. SUFFICES ASSUME NEW i \in JobIds, state'[i] = "running", (Kind(i) # Backfill)'
                 PROVE  Owned(i)'
    BY DEF RunningIsOwned
  <2>3. i # j /\ state[i] = "running" /\ Kind(i) # Backfill
    BY <2>1, <2>2 DEF TypeOK, Kind, RecordTo
  <2>4. Owned(i) /\ pc[d] = "record"
    BY <2>1, <2>3 DEF RunningIsOwned, RecordTo
  <2>5. i \in pool[d]
    BY <2>4 DEF Owned, LocksHeld
  <2>6. pc'[d] = "record" /\ i \in pool'[d]
    BY <2>1, <2>3, <2>4, <2>5 DEF TypeOK, RecordTo
  <2>7. QED
    BY <2>6 DEF Owned
<1>29. ASSUME NEW d \in Drains, PoolAborts(d) PROVE RunningIsOwned'
  <2>2. SUFFICES ASSUME NEW i \in JobIds, state'[i] = "running", (Kind(i) # Backfill)'
                 PROVE  Owned(i)'
    BY DEF RunningIsOwned
  <2>3. state[i] = "running" /\ Kind(i) # Backfill
    BY <1>29, <2>2 DEF TypeOK, Kind, PoolAborts, Lose, End
  <2>4. Owned(i)
    BY <2>3 DEF RunningIsOwned
  <2>5. CASE \E e \in Drains : pc[e] \in Holding /\ i \in pool[e]
    <3>1. PICK e \in Drains : pc[e] \in Holding /\ i \in pool[e]
      BY <2>5
    <3>2. QED
      BY <1>29, <3>1, <2>2 DEF TypeOK, LocksHeld, Owned, PoolAborts, Lose, End
  <2>6. CASE ~\E e \in Drains : pc[e] \in Holding /\ i \in pool[e]
    <3>1. PICK e \in Drains : pc[e] = "dead" /\ i \in pool[e]
      BY <2>4, <2>6 DEF Owned
    <3>2. \A f \in Drains : pc[f] \notin Holding \cup {"scan"}
      BY <2>4, <2>6 DEF Owned
    <3>3. QED
      BY <1>29, <3>1, <3>2 DEF TypeOK, Owned, PoolAborts, Lose, End
  <2>7. QED
    BY <2>5, <2>6
<1>30. ASSUME NEW d \in Drains, DrainDies(d) PROVE RunningIsOwned'
  <2>2. SUFFICES ASSUME NEW i \in JobIds, state'[i] = "running", (Kind(i) # Backfill)'
                 PROVE  Owned(i)'
    BY DEF RunningIsOwned
  <2>3. state[i] = "running" /\ Kind(i) # Backfill
    BY <1>30, <2>2 DEF TypeOK, Kind, DrainDies, Lose, End
  <2>4. Owned(i)
    BY <2>3 DEF RunningIsOwned
  <2>5. CASE \E e \in Drains : pc[e] \in Holding /\ i \in pool[e]
    <3>1. PICK e \in Drains : pc[e] \in Holding /\ i \in pool[e]
      BY <2>5
    <3>2. QED
      BY <1>30, <3>1, <2>2 DEF TypeOK, LocksHeld, Owned, DrainDies, Lose, End
  <2>6. CASE ~\E e \in Drains : pc[e] \in Holding /\ i \in pool[e]
    <3>1. PICK e \in Drains : pc[e] = "dead" /\ i \in pool[e]
      BY <2>4, <2>6 DEF Owned
    <3>2. \A f \in Drains : pc[f] \notin Holding \cup {"scan"}
      BY <2>4, <2>6 DEF Owned
    <3>3. QED
      BY <1>30, <3>1, <3>2 DEF TypeOK, Owned, DrainDies, Lose, End
  <2>7. QED
    BY <2>5, <2>6
<1>31. CASE UNCHANGED vars
  BY <1>31 DEF vars
<1> HIDE DEF TypeOK, LocksHeld, WhereRowsAre, BackfillOwn, RunningIsOwned, Kind, Owned
<1>32. QED
  BY <1>1, <1>2, <1>3, <1>4, <1>5, <1>6, <1>7, <1>8, <1>9, <1>10, <1>11, <1>12, <1>13, <1>14,
     <1>15, <1>16, <1>17, <1>18, <1>19, <1>20, <1>21, <1>22, <1>23, <1>24, <1>25, <1>26, <1>27,
     <1>28, <1>29, <1>30, <1>31 DEF Next, EnqueueStep, StoreStep, DrainStep, GuardStep,
     ClockStep, FailureStep, ChildStep

-----------------------------------------------------------------------------
(***************************************************************************)
(* Work that is asked for once waits once.                                  *)
(***************************************************************************)
\* A row that was superseded is of a kind whose rows some request can supersede.
SupersededOnly == \A j \in JobIds : state[j] = "superseded" => Kind(j) \in SupersededKinds

\* No row of another kind is changed into one that waits, or superseded.
AllCalm ==
    \A j \in JobIds :
        \/ req'[j].kind \in SupersededKinds
        \/ /\ req'[j] = req[j]
           /\ state'[j] \in {"pending", "running"} => state[j] \in {"pending", "running"}
           /\ state'[j] = "superseded" => state[j] = "superseded"

\* Only an enqueuer makes a row of a kind that is never superseded wait.
LEMMA CalmStep ==
    TypeOK /\ HeldRowsRunning /\ BackfillOwn /\ SelectedWaiting /\ SupersededOnly /\
    [Next]_vars => AllCalm \/ \E r \in Requests : EnqueueNew(r)
<1> SUFFICES ASSUME TypeOK, HeldRowsRunning, BackfillOwn, SelectedWaiting, SupersededOnly,
      [Next]_vars PROVE AllCalm \/ \E r \in Requests : EnqueueNew(r)
  OBVIOUS
<1>0. Backfill \in SupersededKinds /\ "walkforward" \in SupersededKinds
  BY DEF SupersededKinds
<1> USE <1>0 DEF TypeOK, HeldRowsRunning, BackfillOwn, SelectedWaiting, SupersededOnly, AllCalm, Kind
<1>1. ASSUME NEW r \in Requests, EnqueueOnceDone(r) PROVE AllCalm
  <2>1. r.once /\ r.kind \in SupersededKinds
    BY <1>1 DEF EnqueueOnceDone, OnceDone, SupersededKinds
  <2>2. QED
    BY <1>1, <2>1 DEF EnqueueOnceDone, Supersede, Matching, Rows
<1>3. ASSUME NEW r \in Requests, EnqueueDies(r) PROVE AllCalm
  <2>1. r.kind \in Supersedes => r.kind \in SupersededKinds
    BY DEF SupersededKinds
  <2>2. QED
    BY <1>3, <2>1 DEF EnqueueDies, Supersede, Stale, Rows
<1>4. ASSUME SupersedeStalePending PROVE AllCalm
  BY <1>4 DEF SupersedeStalePending, Supersede, Rows
<1>5. ASSUME OtherOpens \/ OtherCloses \/ BackfillDies PROVE AllCalm
  BY <1>5 DEF OtherOpens, OtherCloses, BackfillDies
<1>6. ASSUME BackfillStart PROVE AllCalm
  <2>1. PICK j \in JobIds : BackfillAt(j)
    BY <1>6, BackfillStartEffect
  <2>2. QED
    BY <2>1 DEF BackfillAt, BackfillRequest
<1>7. ASSUME NEW s \in {"running", "done"}, BackfillBatch(s) PROVE AllCalm
  BY <1>7 DEF BackfillBatch
<1>8. ASSUME NEW d \in Drains, AcquireDrainLock(d) PROVE AllCalm
  BY <1>8 DEF AcquireDrainLock, LockFree
<1>9. ASSUME NEW d \in Drains, DeclineDrain(d) PROVE AllCalm
  BY <1>9 DEF DeclineDrain
<1>10. ASSUME NEW d \in Drains, Connect(d) PROVE AllCalm
  BY <1>10 DEF Connect
<1>11. ASSUME NEW d \in Drains, ConnectFails(d) PROVE AllCalm
  BY <1>11 DEF ConnectFails, Lose, End
<1>12. ASSUME NEW d \in Drains, ReclaimAndSelect(d) PROVE AllCalm
  <2>1. PICK S \in SUBSET JobIds : SelectTo(d, S)
    BY <1>12, SelectEffect
  <2>2. CASE End(d, "exited")
    BY <2>1, <2>2 DEF SelectTo, Reclaimed, End
  <2>3. CASE ~End(d, "exited")
    BY <2>1, <2>3 DEF SelectTo, Reclaimed
  <2>4. QED
    BY <2>2, <2>3
<1>13. ASSUME NEW d \in Drains, BudgetExpires(d) \/ PoolBudgetStop(d) \/ PoolGuardStop(d) PROVE
      AllCalm
  BY <1>13 DEF BudgetExpires, PoolBudgetStop, PoolGuardStop
<1>14. ASSUME NEW d \in Drains, ScanDone(d) PROVE AllCalm
  BY <1>14 DEF ScanDone, End
<1>15. ASSUME NEW d \in Drains, ScanGuardTrips(d) PROVE AllCalm
  BY <1>15 DEF ScanGuardTrips, End
<1>16. ASSUME NEW d \in Drains, NEW j \in JobIds, RefuseJob(d, j) PROVE AllCalm
  BY <1>16 DEF RefuseJob, Next1, IsFirst
<1>17. ASSUME NEW d \in Drains, NEW j \in JobIds, SkipArchiveJob(d, j) PROVE AllCalm
  BY <1>17 DEF SkipArchiveJob, Next1, IsFirst
<1>18. ASSUME NEW d \in Drains, NEW j \in JobIds, StartReleasing(d, j) PROVE AllCalm
  BY <1>18 DEF StartReleasing, Next1, IsFirst, Dispatchable
<1>19. ASSUME NEW d \in Drains, NEW j \in JobIds, StartInProcess(d, j) PROVE AllCalm
  BY <1>19 DEF StartInProcess, Next1, IsFirst, Dispatchable
<1>20. ASSUME NEW d \in Drains, NEW r \in {"ok", "bad"}, FinishInProcess(d, r) PROVE
      AllCalm
  <2>1. PICK j \in pool[d] : FinishTo(d, j, r)
    BY <1>20, FinishEffect
  <2>2. QED
    BY <2>1 DEF FinishTo
<1>21. ASSUME NEW d \in Drains, StartPool(d) PROVE AllCalm
  <2>1. PICK run, started \in SUBSET JobIds : PoolTo(d, run, started)
    BY <1>21, PoolEffect
  <2>2. QED
    BY <2>1 DEF PoolTo, JOB_TYPES, ParallelSafe, Backfill
<1>22. ASSUME NEW d \in Drains, NEW j \in JobIds, PoolLaunch(d, j) PROVE AllCalm
  BY <1>22 DEF PoolLaunch, MayLaunch, IsFirst, Unlaunched
<1>23. ASSUME NEW d \in Drains, NEW j \in JobIds, NEW r \in {"ok", "bad"}, ChildExits(d, j, r)
      PROVE AllCalm
  BY <1>23 DEF ChildExits
<1>24. ASSUME NEW d \in Drains, NEW j \in JobIds, Reap(d, j) PROVE AllCalm
  BY <1>24 DEF Reap, Settle, Active, Started
<1>25. ASSUME NEW d \in Drains, NEW j \in JobIds, Timeout(d, j) PROVE AllCalm
  BY <1>25 DEF Timeout, Settle, Active, Started
<1>26. ASSUME NEW d \in Drains, Reacquire(d) PROVE AllCalm
  BY <1>26 DEF Reacquire, Quiet, Active, Started
<1>27. ASSUME NEW d \in Drains, ReacquireFails(d) PROVE AllCalm
  BY <1>27 DEF ReacquireFails, Quiet, Lose, End
<1>28. ASSUME NEW d \in Drains, NEW j \in JobIds, Record(d, j) PROVE AllCalm
  <2>1. PICK s \in {"pending", "done", "failed"} : RecordTo(d, j, s)
    BY <1>28, RecordEffect
  <2>2. CASE End(d, "exited")
    BY <2>1, <2>2 DEF RecordTo, End
  <2>3. CASE ~End(d, "exited")
    BY <2>1, <2>3 DEF RecordTo
  <2>4. QED
    BY <2>2, <2>3
<1>29. ASSUME NEW d \in Drains, PoolAborts(d) PROVE AllCalm
  BY <1>29 DEF PoolAborts, Lose, End
<1>30. ASSUME NEW d \in Drains, DrainDies(d) PROVE AllCalm
  BY <1>30 DEF DrainDies, Lose, End
<1>31. CASE UNCHANGED vars
  BY <1>31 DEF vars
<1>32. QED
  BY <1>1, <1>3, <1>4, <1>5, <1>6, <1>7, <1>8, <1>9, <1>10, <1>11, <1>12, <1>13, <1>14,
     <1>15, <1>16, <1>17, <1>18, <1>19, <1>20, <1>21, <1>22, <1>23, <1>24, <1>25, <1>26, <1>27,
     <1>28, <1>29, <1>30, <1>31 DEF Next, EnqueueStep, StoreStep, DrainStep, GuardStep,
     ClockStep, FailureStep, ChildStep

\* The dedup guard of cmd_enqueue keeps the rows that wait apart.
LEMMA WantedStep ==
    TypeOK /\ HeldRowsRunning /\ BackfillOwn /\ SelectedWaiting /\ SupersededOnly /\
    NoDuplicateWork /\ [Next]_vars => (SupersededOnly /\ NoDuplicateWork)'
<1> SUFFICES ASSUME TypeOK, HeldRowsRunning, BackfillOwn, SelectedWaiting, SupersededOnly,
      NoDuplicateWork, [Next]_vars PROVE (SupersededOnly /\ NoDuplicateWork)'
  OBVIOUS
<1>1. CASE AllCalm
  <2>1. SupersededOnly'
    BY <1>1 DEF AllCalm, SupersededOnly, Kind
  <2>2. NoDuplicateWork'
    BY <1>1 DEF AllCalm, NoDuplicateWork, Kind
  <2>3. QED
    BY <2>1, <2>2
<1>2. ASSUME NEW r \in Requests, EnqueueNew(r) PROVE (SupersededOnly /\ NoDuplicateWork)'
  <2>1. PICK j \in JobIds : /\ NextId(j)
                            /\ state' = [Supersede(Stale(r)) EXCEPT ![j] = "pending"]
                            /\ req' = [req EXCEPT ![j] = r]
    BY <1>2 DEF EnqueueNew
  <2>2. /\ req'[j] = r /\ state'[j] = "pending"
        /\ \A i \in JobIds : i # j => req'[i] = req[i]
    BY <2>1 DEF TypeOK, Supersede
  <2>3. \A i \in JobIds : i # j =>
          \/ state'[i] = state[i]
          \/ state'[i] = "superseded" /\ req[i].kind \in SupersededKinds
    <3>1. r.kind \in Supersedes => r.kind \in SupersededKinds
      BY DEF SupersededKinds
    <3>2. QED
      BY <2>1, <3>1 DEF TypeOK, Supersede, Stale, Kind
  <2>4. \A i \in JobIds : state[i] \in {"pending", "running"} =>
          ~ (req[i].kind = r.kind /\ req[i].params = r.params)
    BY <1>2 DEF EnqueueNew, Duplicate, Matching, Rows, Kind
  <2>5. SupersededOnly'
    BY <2>2, <2>3 DEF SupersededOnly, Kind
  <2>6. ASSUME NEW i \in JobIds, NEW k \in JobIds,
               state'[i] \in {"pending", "running"}, state'[k] \in {"pending", "running"},
               req'[i].kind = req'[k].kind, req'[i].params = req'[k].params,
               req'[i].kind \notin SupersededKinds
        PROVE  i = k
    <3>1. CASE i # j /\ k # j
      <4>1. req'[i] = req[i] /\ req'[k] = req[k] /\ state'[i] = state[i] /\ state'[k] = state[k]
        BY <2>2, <2>3, <2>6, <3>1
      <4>2. QED
        BY <2>6, <4>1 DEF NoDuplicateWork, Kind
    <3>2. CASE i = j /\ k # j
      BY <2>2, <2>3, <2>4, <2>6, <3>2
    <3>3. CASE i # j /\ k = j
      BY <2>2, <2>3, <2>4, <2>6, <3>3
    <3>4. QED
      BY <3>1, <3>2, <3>3
  <2>7. NoDuplicateWork'
    BY <2>6 DEF NoDuplicateWork, Kind
  <2>8. QED
    BY <2>5, <2>7
<1>3. QED
  BY <1>1, <1>2, CalmStep

-----------------------------------------------------------------------------
(***************************************************************************)
(* The memory a pool has in use.                                            *)
(***************************************************************************)
\* A step that leaves the account of drain c's pool alone, or takes c out of its pool.
SameBooks(c) ==
    pc'[c] = "pool" =>
        /\ pc[c] = "pool" /\ activeMem'[c] = activeMem[c] /\ pool'[c] = pool[c]
        /\ \A i \in pool[c] :
              /\ work'[c][i] = "none" <=> work[c][i] = "none"
              /\ result'[c][i] = "none" <=> result[c][i] = "none"
              /\ work[c][i] # "none" => req'[i] = req[i]

\* Only the drain itself touches its account: it opens a pool, launches, reaps or kills.
LEMMA BooksStep ==
    ASSUME TypeOK, WhereRowsAre, WorkOnce, NEW c \in Drains, [Next]_vars
    PROVE  \/ SameBooks(c) \/ StartPool(c)
           \/ \E j \in JobIds : PoolLaunch(c, j) \/ Reap(c, j) \/ Timeout(c, j)
<1>0. \A i \in pool[c] : i \in JobIds /\ (work[c][i] # "none" => state[i] # "absent")
  BY DEF TypeOK, WorkOnce
<1> USE <1>0 DEF TypeOK, SameBooks
<1>1. ASSUME NEW r \in Requests, EnqueueOnceDone(r) PROVE SameBooks(c)
  BY <1>1 DEF EnqueueOnceDone, Supersede, Matching, Rows
<1>2. ASSUME NEW r \in Requests, EnqueueNew(r) PROVE SameBooks(c)
  <2>1. PICK j \in JobIds : NewRowAt(r, j)
    BY <1>2, EnqueueNewEffect
  <2>2. QED
    BY <2>1 DEF NewRowAt
<1>3. ASSUME NEW r \in Requests, EnqueueDies(r) PROVE SameBooks(c)
  BY <1>3 DEF EnqueueDies, Supersede, Stale, Rows
<1>4. ASSUME SupersedeStalePending PROVE SameBooks(c)
  BY <1>4 DEF SupersedeStalePending, Supersede, Rows
<1>5. ASSUME OtherOpens \/ OtherCloses \/ BackfillDies PROVE SameBooks(c)
  BY <1>5 DEF OtherOpens, OtherCloses, BackfillDies
<1>6. ASSUME BackfillStart PROVE SameBooks(c)
  <2>1. PICK j \in JobIds : BackfillAt(j)
    BY <1>6, BackfillStartEffect
  <2>2. QED
    BY <2>1 DEF BackfillAt
<1>7. ASSUME NEW s \in {"running", "done"}, BackfillBatch(s) PROVE SameBooks(c)
  BY <1>7 DEF BackfillBatch
<1>8. ASSUME NEW d \in Drains, AcquireDrainLock(d) PROVE SameBooks(c)
  BY <1>8 DEF AcquireDrainLock, LockFree
<1>9. ASSUME NEW d \in Drains, DeclineDrain(d) PROVE SameBooks(c)
  BY <1>9 DEF DeclineDrain
<1>10. ASSUME NEW d \in Drains, Connect(d) PROVE SameBooks(c)
  BY <1>10 DEF Connect
<1>11. ASSUME NEW d \in Drains, ConnectFails(d) PROVE SameBooks(c)
  BY <1>11 DEF ConnectFails, Lose, End
<1>12. ASSUME NEW d \in Drains, ReclaimAndSelect(d) PROVE SameBooks(c)
  <2>1. PICK S \in SUBSET JobIds : SelectTo(d, S)
    BY <1>12, SelectEffect
  <2>2. CASE End(d, "exited")
    BY <2>1, <2>2 DEF SelectTo, Reclaimed, End
  <2>3. CASE ~End(d, "exited")
    BY <2>1, <2>3 DEF SelectTo, Reclaimed
  <2>4. QED
    BY <2>2, <2>3
<1>13. ASSUME NEW d \in Drains, BudgetExpires(d) \/ PoolBudgetStop(d) \/ PoolGuardStop(d) PROVE
      SameBooks(c)
  BY <1>13 DEF BudgetExpires, PoolBudgetStop, PoolGuardStop
<1>14. ASSUME NEW d \in Drains, ScanDone(d) PROVE SameBooks(c)
  BY <1>14 DEF ScanDone, End
<1>15. ASSUME NEW d \in Drains, ScanGuardTrips(d) PROVE SameBooks(c)
  BY <1>15 DEF ScanGuardTrips, End
<1>16. ASSUME NEW d \in Drains, NEW j \in JobIds, RefuseJob(d, j) PROVE SameBooks(c)
  BY <1>16 DEF RefuseJob, Next1, IsFirst
<1>17. ASSUME NEW d \in Drains, NEW j \in JobIds, SkipArchiveJob(d, j) PROVE SameBooks(c)
  BY <1>17 DEF SkipArchiveJob, Next1, IsFirst
<1>18. ASSUME NEW d \in Drains, NEW j \in JobIds, StartReleasing(d, j) PROVE SameBooks(c)
  BY <1>18 DEF StartReleasing, Next1, IsFirst, Dispatchable
<1>19. ASSUME NEW d \in Drains, NEW j \in JobIds, StartInProcess(d, j) PROVE SameBooks(c)
  BY <1>19 DEF StartInProcess, Next1, IsFirst, Dispatchable
<1>20. ASSUME NEW d \in Drains, NEW r \in {"ok", "bad"}, FinishInProcess(d, r) PROVE
      SameBooks(c)
  <2>1. PICK j \in pool[d] : FinishTo(d, j, r)
    BY <1>20, FinishEffect
  <2>2. QED
    BY <2>1 DEF FinishTo
<1>21. ASSUME NEW d \in Drains, c # d, StartPool(d) PROVE SameBooks(c)
  <2>1. PICK run, started \in SUBSET JobIds : PoolTo(d, run, started)
    BY <1>21, PoolEffect
  <2>2. QED
    BY <1>21, <2>1 DEF PoolTo
<1>22. ASSUME NEW d \in Drains, NEW j \in JobIds, c # d, PoolLaunch(d, j) PROVE SameBooks(c)
  BY <1>22 DEF PoolLaunch
<1>23. ASSUME NEW d \in Drains, NEW j \in JobIds, NEW r \in {"ok", "bad"}, ChildExits(d, j, r)
      PROVE SameBooks(c)
  BY <1>23 DEF ChildExits
<1>24. ASSUME NEW d \in Drains, NEW j \in JobIds, c # d, Reap(d, j) PROVE SameBooks(c)
  BY <1>24 DEF Reap, Settle
<1>25. ASSUME NEW d \in Drains, NEW j \in JobIds, c # d, Timeout(d, j) PROVE SameBooks(c)
  BY <1>25 DEF Timeout, Settle
<1>26. ASSUME NEW d \in Drains, Reacquire(d) PROVE SameBooks(c)
  BY <1>26 DEF Reacquire, Quiet, Active, Started
<1>27. ASSUME NEW d \in Drains, ReacquireFails(d) PROVE SameBooks(c)
  BY <1>27 DEF ReacquireFails, Quiet, Lose, End
<1>28. ASSUME NEW d \in Drains, NEW j \in JobIds, Record(d, j) PROVE SameBooks(c)
  <2>1. PICK s \in {"pending", "done", "failed"} : RecordTo(d, j, s)
    BY <1>28, RecordEffect
  <2>2. CASE End(d, "exited")
    BY <2>1, <2>2 DEF RecordTo, End
  <2>3. CASE ~End(d, "exited")
    BY <2>1, <2>3 DEF RecordTo
  <2>4. QED
    BY <2>2, <2>3
<1>29. ASSUME NEW d \in Drains, PoolAborts(d) PROVE SameBooks(c)
  BY <1>29 DEF PoolAborts, Lose, End
<1>30. ASSUME NEW d \in Drains, DrainDies(d) PROVE SameBooks(c)
  BY <1>30 DEF DrainDies, Lose, End
<1>31. CASE UNCHANGED vars
  BY <1>31 DEF vars
<1>32. QED
  BY <1>1, <1>2, <1>3, <1>4, <1>5, <1>6, <1>7, <1>8, <1>9, <1>10, <1>11, <1>12, <1>13, <1>14,
     <1>15, <1>16, <1>17, <1>18, <1>19, <1>20, <1>21, <1>22, <1>23, <1>24, <1>25, <1>26, <1>27,
     <1>28, <1>29, <1>30, <1>31 DEF Next, EnqueueStep, StoreStep, DrainStep, GuardStep,
     ClockStep, FailureStep, ChildStep

\* The account of drain d's pool is right.
Balanced(d) == /\ activeMem[d] = Total(DeclaredMem(d))
               /\ activeMem[d] <= ENGINE_RAM_BUDGET_MB

\* The declared memory of the rows of A in the table rq.
MemOf(rq, A) == [j \in JobIds |-> IF j \in A THEN rq[j].mem_mb ELSE 0]

LEMMA MemOfType ==
    ASSUME NEW rq \in [JobIds -> Requests \cup {BackfillRequest}], NEW A
    PROVE  /\ MemOf(rq, A) \in Seq(Nat) /\ Len(MemOf(rq, A)) = MaxJobs
           /\ \A j \in 1 .. MaxJobs : MemOf(rq, A)[j] = IF j \in A THEN rq[j].mem_mb ELSE 0
<1> DEFINE v == MemOf(rq, A)
<1>1. \A j \in JobIds : (IF j \in A THEN rq[j].mem_mb ELSE 0) \in Nat
  BY RequestsAssumption DEF Request, BackfillRequest
<1>2. v = [j \in 1 .. MaxJobs |-> IF j \in A THEN rq[j].mem_mb ELSE 0]
  BY DEF MemOf, JobIds
<1>3. MaxJobs \in Nat
  BY BoundsAssumption
<1>4. v \in [1 .. MaxJobs -> Nat]
  BY <1>1, <1>2 DEF JobIds
<1>5. v \in Seq(Nat) /\ Len(v) = MaxJobs
  BY <1>3, <1>4
<1>6. QED
  BY <1>2, <1>5

LEMMA DeclaredIs ==
    ASSUME NEW d
    PROVE  DeclaredMem(d) = MemOf(req, Active(d)) /\ DeclaredMem(d)' = MemOf(req', Active(d)')
BY DEF DeclaredMem, MemOf, Mem

\* Row j alone joins or leaves the children in use.
LEMMA Moves ==
    ASSUME TypeOK, NEW d, NEW j \in JobIds, req' = req,
           \A i \in JobIds : i # j => (i \in Active(d)' <=> i \in Active(d))
    PROVE  /\ Total(DeclaredMem(d)) \in Nat /\ Total(DeclaredMem(d)') \in Nat
           /\ Total(DeclaredMem(d)') + (IF j \in Active(d) THEN Mem(j) ELSE 0)
              = Total(DeclaredMem(d)) + (IF j \in Active(d)' THEN Mem(j) ELSE 0)
<1> DEFINE v == DeclaredMem(d)
           u == DeclaredMem(d)'
<1>0. req \in [JobIds -> Requests \cup {BackfillRequest}] /\ \A i : Mem(i) = req[i].mem_mb
  BY DEF TypeOK, Mem
<1>1. v = MemOf(req, Active(d)) /\ u = MemOf(req, Active(d)')
  BY DeclaredIs
<1> HIDE DEF u, v
<1>2. /\ v \in Seq(Nat) /\ Len(v) = MaxJobs
      /\ \A i \in 1 .. MaxJobs : v[i] = IF i \in Active(d) THEN Mem(i) ELSE 0
  BY <1>0, <1>1, MemOfType
<1>4. /\ u \in Seq(Nat) /\ Len(u) = MaxJobs
      /\ \A i \in 1 .. MaxJobs : u[i] = IF i \in Active(d)' THEN Mem(i) ELSE 0
  BY <1>0, <1>1, MemOfType
<1>5. j \in 1 .. Len(v) /\ Len(u) = Len(v) /\ \A i \in 1 .. Len(v) : i # j => u[i] = v[i]
  BY <1>2, <1>4 DEF JobIds
<1>6. Total(u) + v[j] = Total(v) + u[j] /\ Total(u) \in Nat /\ Total(v) \in Nat
  BY <1>2, <1>4, <1>5, TotalMoves, PartialSums
<1>7. /\ v[j] = IF j \in Active(d) THEN Mem(j) ELSE 0
      /\ u[j] = IF j \in Active(d)' THEN Mem(j) ELSE 0
  BY <1>2, <1>4 DEF JobIds
<1>8. QED
  BY <1>6, <1>7 DEF u, v

LEMMA BalancedStep ==
    ASSUME TypeOK, WhereRowsAre, WorkOnce, PoolWithinBudget, NEW c \in Drains,
           pc'[c] = "pool", [Next]_vars
    PROVE  Balanced(c)'
<1>0. /\ activeMem[c] \in Int /\ pool[c] \subseteq JobIds
      /\ \A j \in JobIds : Mem(j) \in Nat
      /\ activeMem \in [Drains -> Int]
  BY MemType DEF TypeOK
<1>1. CASE SameBooks(c)
  <2>1. pc[c] = "pool" /\ activeMem'[c] = activeMem[c]
    BY <1>1 DEF SameBooks
  <2>2. /\ Active(c)' = Active(c) /\ \A j \in Active(c) : Mem(j)' = Mem(j)
    BY <1>1 DEF SameBooks, Active, Started, Mem
  <2>3. DeclaredMem(c)' = DeclaredMem(c)
    BY <2>2 DEF DeclaredMem
  <2>4. QED
    BY <2>1, <2>3 DEF PoolWithinBudget, Balanced
<1>2. CASE StartPool(c)
  <2>1. PICK run, started \in SUBSET JobIds : PoolTo(c, run, started)
    BY <1>2, PoolEffect
  <2>2. pool'[c] = started /\ started \subseteq sel[c] /\ work' = work /\ activeMem'[c] = 0
    BY <2>1 DEF PoolTo, TypeOK
  <2>3. \A j \in started : work[c][j] = "none"
    BY <2>2 DEF WorkOnce
  <2>4. Active(c)' = {}
    BY <2>2, <2>3 DEF Active, Started
  <2> DEFINE u == DeclaredMem(c)'
  <2>5. u = MemOf(req, {}) /\ req \in [JobIds -> Requests \cup {BackfillRequest}]
    BY <2>1, <2>4, DeclaredIs DEF TypeOK, PoolTo
  <2> HIDE DEF u
  <2>6. u \in Seq(Nat) /\ \A i \in 1 .. Len(u) : u[i] = 0
    BY <2>5, MemOfType
  <2>7. Total(u) = 0
    BY <2>6, TotalZero
  <2>8. QED
    BY <2>2, <2>7 DEF Balanced, ENGINE_RAM_BUDGET_MB, u
<1>3. ASSUME NEW j \in JobIds, PoolLaunch(c, j) PROVE Balanced(c)'
  <2>1. /\ pc[c] = "pool" /\ j \in pool[c] /\ work[c][j] = "none" /\ result[c][j] = "none"
        /\ req' = req /\ pool' = pool /\ result' = result
        /\ work' = [work EXCEPT ![c][j] = "live"]
        /\ activeMem'[c] = activeMem[c] + Mem(j) /\ activeMem[c] + Mem(j) <= ENGINE_RAM_BUDGET_MB
    BY <1>0, <1>3 DEF PoolLaunch, MayLaunch, IsFirst, Unlaunched, Fits, WorkOnce
  <2>2. /\ j \notin Active(c) /\ j \in Active(c)'
        /\ \A i \in JobIds : i # j => (i \in Active(c)' <=> i \in Active(c))
    BY <1>0, <2>1 DEF Active, Started, TypeOK
  <2>3. /\ Total(DeclaredMem(c)) \in Nat /\ Total(DeclaredMem(c)') \in Nat
        /\ Total(DeclaredMem(c)') + 0 = Total(DeclaredMem(c)) + Mem(j)
    BY <2>1, <2>2, Moves
  <2>4. activeMem[c] = Total(DeclaredMem(c))
    BY <2>1 DEF PoolWithinBudget
  <2>5. QED
    BY <1>0, <2>1, <2>3, <2>4 DEF Balanced
<1>4. ASSUME NEW j \in JobIds, Reap(c, j) \/ Timeout(c, j) PROVE Balanced(c)'
  <2>1. /\ j \in Active(c) /\ req' = req /\ pool' = pool /\ pc' = pc
        /\ activeMem'[c] = activeMem[c] - FreedMem(c, j)
        /\ \E r \in {"ok", "bad", "timeout"} : result' = [result EXCEPT ![c][j] = r]
        /\ \/ work' = work
           \/ /\ work[c][j] = "live"
              /\ \E w \in {"killed", "ok", "bad"} : work' = [work EXCEPT ![c][j] = w]
    BY <1>0, <1>4 DEF Reap, Timeout, Settle
  <2>2. pc[c] = "pool" /\ FreedMem(c, j) = Mem(j)
    BY <2>1 DEF FreedMem
  <2>3. /\ j \notin Active(c)'
        /\ \A i \in JobIds : i # j => (i \in Active(c)' <=> i \in Active(c))
    BY <1>0, <2>1 DEF Active, Started, TypeOK
  <2>4. /\ Total(DeclaredMem(c)) \in Nat /\ Total(DeclaredMem(c)') \in Nat
        /\ Total(DeclaredMem(c)') + Mem(j) = Total(DeclaredMem(c)) + 0
    BY <2>1, <2>3, Moves
  <2>5. activeMem[c] = Total(DeclaredMem(c)) /\ activeMem[c] <= ENGINE_RAM_BUDGET_MB
    BY <2>2 DEF PoolWithinBudget
  <2>6. QED
    BY <1>0, <2>1, <2>2, <2>4, <2>5 DEF Balanced, ENGINE_RAM_BUDGET_MB
<1>5. QED
  BY <1>1, <1>2, <1>3, <1>4, BooksStep

-----------------------------------------------------------------------------
(***************************************************************************)
(* The inductive invariant and the theorems.                                *)
(***************************************************************************)
Inductive == TypeOK /\ QueueInv /\ HeldRowsRunning

\* The queue starts empty.
LEMMA InductiveInit ==
    Init => Inductive /\ DoneIsTrue /\ OutcomesRecorded /\ LaunchOrder
<1> SUFFICES ASSUME Init PROVE Inductive /\ DoneIsTrue /\ OutcomesRecorded /\ LaunchOrder
  OBVIOUS
<1> USE DEF Init
<1>1. TypeOK
  BY DEF TypeOK, PARALLEL_JOBS_MAX
<1>2. LocksHeld /\ BackfillOwn /\ WhereRowsAre /\ PoolKinds /\ SelectedWaiting
  BY DEF LocksHeld, BackfillOwn, WhereRowsAre, PoolKinds, SelectedWaiting
<1>3. WorkOnce /\ PoolFirst /\ HeldRowsRunning
  BY DEF WorkOnce, PoolFirst, HeldRowsRunning
<1>4. DoneIsTrue /\ OutcomesRecorded /\ LaunchOrder
  BY DEF DoneIsTrue, OutcomesRecorded, LaunchOrder, Unlaunched
<1>5. QED
  BY <1>1, <1>2, <1>3, <1>4 DEF Inductive, QueueInv

\* Every step keeps the inductive invariant.
LEMMA InductiveStep == Inductive /\ [Next]_vars => Inductive'
  BY TypeStep, LocksStep, RowsStep, BackfillStep, PoolKindsStep, HeldStep, SelectedStep,
     WorkStep, PoolFirstStep
     DEF Inductive, QueueInv

\* The inductive invariant holds in every reachable state of the queue.
THEOREM QueueInvariant == Spec => []Inductive
<1>1. Init => Inductive
  BY InductiveInit
<1>2. QED
  BY <1>1, InductiveStep, PTL DEF Spec

\* Every variable of the queue keeps its type, and --jobs stays within its clamp.
THEOREM TypeCorrect == Spec => []TypeOK
  BY QueueInvariant, PTL DEF Inductive

\* The lock and writer discipline, the kinds in hand, the snapshot's staleness and the
\* single launch of a row: the facts the drain relies on at every line.
THEOREM QueueSound == Spec => []QueueInv
  BY QueueInvariant, PTL DEF Inductive

\* No other process takes a row away from the drain that runs it.
THEOREM HeldRowsStayRunning == Spec => []HeldRowsRunning
  BY QueueInvariant, PTL DEF Inductive

\* Two live drains never supervise the same job.
THEOREM SupervisionExclusive == Spec => []OneSupervisedWorker
<1>1. Inductive => OneSupervisedWorker
  BY DEF Inductive, QueueInv, LocksHeld, OneSupervisedWorker
<1>2. QED
  BY <1>1, QueueInvariant, PTL

\* A job that writes the store runs alone under the live drains.
THEOREM StoreWritersAlone == Spec => []StoreWriterAlone
<1>1. Inductive => StoreWriterAlone
  <2> SUFFICES ASSUME Inductive, NEW d \in Drains, NEW e \in Drains, NEW i \in JobIds, NEW j \in JobIds,
                      pc[d] \in Alive, pc[e] \in Alive, work[d][j] = "live",
                      Kind(j) \notin ParallelSafe, work[e][i] = "live"
               PROVE  d = e /\ i = j
    BY DEF StoreWriterAlone
  <2>1. d = e
    BY DEF Inductive, QueueInv, LocksHeld
  <2>2. i \in pool[d] /\ j \in pool[d] /\ pc[d] \in {"inproc", "single", "pool"}
    BY <2>1 DEF Inductive, QueueInv, WorkOnce
  <2>3. pc[d] # "pool"
    BY <2>2 DEF Inductive, QueueInv, PoolKinds
  <2>4. QED
    BY <2>1, <2>2, <2>3 DEF Inductive, QueueInv, WhereRowsAre
<1>2. QED
  BY <1>1, QueueInvariant, PTL

\* A row says 'done' only if an execution of its job succeeded.
THEOREM DoneSound == Spec => []DoneIsTrue
<1>1. Init => DoneIsTrue
  BY InductiveInit
<1>2. Inductive /\ DoneIsTrue /\ [Next]_vars => DoneIsTrue'
  BY DoneStep DEF Inductive, QueueInv
<1>3. QED
  BY <1>1, <1>2, QueueInvariant, PTL DEF Spec

\* What a drain noticed of a job it finished is what the row says from then on.
THEOREM OutcomesSound == Spec => []OutcomesRecorded
<1>1. Init => OutcomesRecorded
  BY InductiveInit
<1>2. Inductive /\ OutcomesRecorded /\ [Next]_vars => OutcomesRecorded'
  BY RecordedStep DEF Inductive, QueueInv
<1>3. QED
  BY <1>1, <1>2, QueueInvariant, PTL DEF Spec

\* Nothing is started while a row ahead of it in the snapshot is waiting.
THEOREM LaunchesOrdered == Spec => []LaunchOrder
<1>1. Init => LaunchOrder
  BY InductiveInit
<1>2. Inductive /\ LaunchOrder /\ [Next]_vars => LaunchOrder'
  BY LaunchStep DEF Inductive, QueueInv
<1>3. QED
  BY <1>1, <1>2, QueueInvariant, PTL DEF Spec

\* No row is stranded in 'running': a live drain holds it, or the next sweep will reclaim it.
THEOREM NothingStranded == Spec => []RunningIsOwned
<1>1. Init => RunningIsOwned
  BY DEF Init, RunningIsOwned
<1>2. Inductive /\ RunningIsOwned /\ [Next]_vars => RunningIsOwned'
  BY OwnedStep DEF Inductive, QueueInv
<1>3. QED
  BY <1>1, <1>2, QueueInvariant, PTL DEF Spec

\* A recorded outcome is never rewritten.
THEOREM OutcomesNeverRewritten == Spec => OutcomesFinal
<1>1. Inductive /\ [Next]_vars => OutcomesKept
  BY FinalStep DEF Inductive, QueueInv
<1>2. Inductive /\ [Next]_vars => [OutcomesKept]_vars
  BY <1>1
<1>3. QED
  BY <1>2, QueueInvariant, PTL DEF Spec, OutcomesFinal

\* At most one pending or running row asks for the same work, of a kind whose rows are never
\* superseded, whatever drains sweep, record or lose meanwhile.
THEOREM WorkAskedOnce == Spec => []NoDuplicateWork
<1>1. Init => SupersededOnly /\ NoDuplicateWork
  BY DEF Init, SupersededOnly, NoDuplicateWork
<1>2. Inductive /\ SupersededOnly /\ NoDuplicateWork /\ [Next]_vars =>
        (SupersededOnly /\ NoDuplicateWork)'
  BY WantedStep DEF Inductive, QueueInv
<1>3. QED
  BY <1>1, <1>2, QueueInvariant, PTL DEF Spec
\* active_mem_mb is the declared memory of the children a pool has not settled, and stays
\* within the engine budget, for every number of rows, widths and memory declarations.
THEOREM PoolsBalanced == Spec => []PoolWithinBudget
<1>1. Init => PoolWithinBudget
  BY DEF Init, PoolWithinBudget
<1>2. Inductive /\ PoolWithinBudget /\ [Next]_vars => PoolWithinBudget'
  <2> SUFFICES ASSUME Inductive, PoolWithinBudget, [Next]_vars, NEW c \in Drains,
                      pc'[c] = "pool"
               PROVE  Balanced(c)'
    BY DEF PoolWithinBudget, Balanced
  <2>1. TypeOK /\ WhereRowsAre /\ WorkOnce
    BY DEF Inductive, QueueInv
  <2>2. QED
    BY <2>1, BalancedStep
<1>3. QED
  BY <1>1, <1>2, QueueInvariant, PTL DEF Spec
=============================================================================

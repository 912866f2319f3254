------------------------------ MODULE JobQueue ------------------------------
(***************************************************************************)
(* The job queue of the trading engine (engine/queue_runner.py): one        *)
(* DuckDB table "jobs", drained by processes that may start at any time     *)
(* (the nightly, the weekend drivers, an operator), die at any time, and    *)
(* share the store with every other writer of the repository.               *)
(*                                                                          *)
(* A drain is one invocation of "queue_runner --run".  It takes the drain   *)
(* lock, opens the single DuckDB writer, reclaims the rows a dead drain     *)
(* left running, takes ONE ordered snapshot of the pending rows and works   *)
(* through it.  The writer is given up while supervised children run and is *)
(* taken again to record what they did, so other processes change the table *)
(* between the snapshot and its use.                                        *)
(*                                                                          *)
(* Params stand for canonical JSON (_same_params), job ids for the order of *)
(* created_at, and wall-clock limits for the moment they expire.            *)
(***************************************************************************)
EXTENDS Integers, FiniteSets, Sums

CONSTANTS
    MaxJobs,     \* bound: rows ever inserted into the table
    MaxBackfills, \* bound: backfills of collect.py
    Drains,      \* drain processes, each started at most once
    Requests,    \* the enqueue requests other processes may make
    Widths,      \* values of --jobs the drivers pass
    Nobody,      \* no holder of a lock
    Other        \* any other process that opens the store (collect, API, miner)

(***************************************************************************)
(* The dispatch table JOB_TYPES.                                            *)
(***************************************************************************)
ParallelSafe  == {"backtest", "walkforward", "capital_sensitivity", "sweep"}
ReleasesWriter ==
    {"intraday", "fundamentals", "earnings", "actions", "signals", "tradingview_history"}
Archive       == ReleasesWriter \ {"signals"}
Supersedes    == {"intraday"}
JOB_TYPES     == ParallelSafe \cup ReleasesWriter \cup {"experiment", "experiment_forward"}
Backfill      == "backfill"     \* rows of engine/collect.py; not a JOB_TYPES key

ENGINE_RAM_BUDGET_MB == 48000
PARALLEL_JOBS_MAX    == 8

JobIds == 1 .. MaxJobs

\* One accepted call of cmd_enqueue; mem_mb is --mem-mb or the default of the kind.
Request == [kind : JOB_TYPES, params : STRING, priority : Int, mem_mb : Nat, once : BOOLEAN]

\* What _start_job leaves to the column defaults: priority 100, mem_mb 0.
BackfillRequest ==
    [kind |-> Backfill, params |-> "limit", priority |-> 100, mem_mb |-> 0, once |-> FALSE]

ASSUME BoundsAssumption == MaxJobs \in Nat /\ MaxBackfills \in Nat
ASSUME RequestsAssumption == Requests \subseteq Request
ASSUME WidthsAssumption == Widths \subseteq Int
ASSUME HoldersAssumption == Nobody \notin Drains /\ Other \notin Drains /\ Nobody # Other

VARIABLES
    state,      \* jobs.state of each row ("absent": no such row yet)
    req,        \* the other columns of each row
    drainLock,  \* holder of .queue-drain.lock
    writer,     \* holder of a DuckDB handle that excludes every other writer
    backfill,   \* row of the live collect.py backfill process, 0 if there is none
    pc,         \* where each drain is
    width,      \* its --jobs, clamped
    sel,        \* rows of its snapshot it has not come to yet
    pool,       \* rows it has marked running and not recorded yet
    late,       \* its wall-clock budget has expired
    stop,       \* why its pool stopped launching
    activeMem,  \* active_mem_mb of its pool
    work,       \* what really became of the job each drain started
    result      \* what the drain noticed of it

drainVars == <<pc, width, sel, pool, late, stop, activeMem, work, result>>
vars == <<state, req, drainLock, writer, backfill, drainVars>>

States  == {"absent", "pending", "running", "done", "failed", "superseded"}
Alive   == {"locked", "open", "scan", "inproc", "single", "pool", "record"}
Works   == {"none", "live", "ok", "bad", "killed"}
Results == {"none", "ok", "bad", "timeout"}

Rows == {j \in JobIds : state[j] # "absent"}
Kind(j) == req[j].kind
Mem(j) == req[j].mem_mb

\* ORDER BY priority ASC, created_at ASC
Before(i, j) == \/ req[i].priority < req[j].priority
                \/ req[i].priority = req[j].priority /\ i < j

IsFirst(j, S) == j \in S /\ \A i \in S \ {j} : Before(j, i)

NextId(j) == j \in JobIds \ Rows /\ \A i \in JobIds : i < j => i \in Rows

Init ==
    /\ state = [j \in JobIds |-> "absent"]
    /\ req = [j \in JobIds |-> BackfillRequest]
    /\ drainLock = Nobody
    /\ writer = Nobody
    /\ backfill = 0
    /\ pc = [d \in Drains |-> "idle"]
    /\ width = [d \in Drains |-> 1]
    /\ sel = [d \in Drains |-> {}]
    /\ pool = [d \in Drains |-> {}]
    /\ late = [d \in Drains |-> FALSE]
    /\ stop = [d \in Drains |-> "none"]
    /\ activeMem = [d \in Drains |-> 0]
    /\ work = [d \in Drains |-> [j \in JobIds |-> "none"]]
    /\ result = [d \in Drains |-> [j \in JobIds |-> "none"]]

-----------------------------------------------------------------------------
(***************************************************************************)
(* Enqueueing.  The enqueuer holds the writer from its first read to its    *)
(* last write, so an enqueue is one step; every statement commits by        *)
(* itself, so a killed enqueuer leaves a prefix of its writes.              *)
(***************************************************************************)
\* Mutant: dedup looks at pending rows only.
MatchingPending(r) == {j \in Rows : /\ state[j] \in {"pending", "done"}
                                    /\ Kind(j) = r.kind
                                    /\ req[j].params = r.params}

Matching(r) == {j \in Rows : /\ state[j] \in {"pending", "running", "done"}
                             /\ Kind(j) = r.kind
                             /\ req[j].params = r.params}

OnceDone(r) == r.once /\ \E j \in Matching(r) : state[j] = "done"

Duplicate(r) == OnceDone(r) \/ \E j \in Matching(r) : state[j] \in {"pending", "running"}

\* Older pending rows a new row of a superseding kind makes obsolete.
Stale(r) == {j \in Rows : /\ r.kind \in Supersedes
                          /\ Kind(j) = r.kind
                          /\ req[j].params # r.params
                          /\ state[j] = "pending"}

Supersede(S) == [j \in JobIds |-> IF j \in S THEN "superseded" ELSE state[j]]

\* One-shot work that is already done: pending duplicates are superseded.
EnqueueOnceDone(r) ==
    /\ writer = Nobody
    /\ OnceDone(r)
    /\ state' = Supersede({j \in Matching(r) : state[j] = "pending"})
    /\ UNCHANGED <<req, drainLock, writer, backfill, drainVars>>

EnqueueNew(r) ==
    /\ writer = Nobody
    /\ ~Duplicate(r)
    /\ \E j \in JobIds :
          /\ NextId(j)
          /\ state' = [Supersede(Stale(r)) EXCEPT ![j] = "pending"]
          /\ req' = [req EXCEPT ![j] = r]
    /\ UNCHANGED <<drainLock, writer, backfill, drainVars>>

\* The enqueuer dies after superseding the stale rows up to n, before the INSERT.
EnqueueDies(r) ==
    /\ writer = Nobody
    /\ ~Duplicate(r)
    /\ \E n \in Stale(r) : state' = Supersede({j \in Stale(r) : j <= n})
    /\ UNCHANGED <<req, drainLock, writer, backfill, drainVars>>

\* supersede_stale_pending: the weekly grid drops pending rows older than a cutoff.
SupersedeStalePending ==
    /\ writer = Nobody
    /\ \E cutoff \in JobIds :
          LET leftover == {j \in Rows : /\ Kind(j) = "walkforward"
                                        /\ state[j] = "pending"
                                        /\ j <= cutoff}
          IN  leftover # {} /\ state' = Supersede(leftover)
    /\ UNCHANGED <<req, drainLock, writer, backfill, drainVars>>

-----------------------------------------------------------------------------
(***************************************************************************)
(* Other users of the store: any process may hold the writer for a while,   *)
(* and collect.py's backfill keeps a row of its own in the jobs table,      *)
(* opening the writer only to checkpoint.                                   *)
(***************************************************************************)
OtherOpens ==
    /\ writer = Nobody
    /\ writer' = Other
    /\ UNCHANGED <<state, req, drainLock, backfill, drainVars>>

OtherCloses ==
    /\ writer = Other
    /\ writer' = Nobody
    /\ UNCHANGED <<state, req, drainLock, backfill, drainVars>>

BackfillStart ==
    /\ writer = Nobody
    /\ backfill = 0
    /\ Cardinality({j \in Rows : Kind(j) = Backfill}) < MaxBackfills
    /\ \E j \in JobIds :
          /\ NextId(j)
          /\ state' = [state EXCEPT ![j] = "running"]
          /\ req' = [req EXCEPT ![j] = BackfillRequest]
          /\ backfill' = j
    /\ UNCHANGED <<drainLock, writer, drainVars>>

\* A checkpoint rewrites the row's state, whatever it has become meanwhile.
BackfillBatch(s) ==
    /\ writer = Nobody
    /\ backfill # 0
    /\ state' = [state EXCEPT ![backfill] = s]
    /\ backfill' = IF s = "done" THEN 0 ELSE backfill
    /\ UNCHANGED <<req, drainLock, writer, drainVars>>

BackfillDies ==
    /\ backfill # 0
    /\ backfill' = 0
    /\ UNCHANGED <<state, req, drainLock, writer, drainVars>>

-----------------------------------------------------------------------------
(***************************************************************************)
(* The drain: lock, connection, reclaim and snapshot.                       *)
(***************************************************************************)
Started(d)    == {j \in pool[d] : work[d][j] # "none"}
Unlaunched(d) == {j \in pool[d] : work[d][j] = "none"}
Active(d)     == {j \in Started(d) : result[d][j] = "none"}

\* The process ends: the kernel frees its flock and its DuckDB file lock, and what it
\* kept in memory is gone.
End(d, how) ==
    /\ pc' = [pc EXCEPT ![d] = how]
    /\ drainLock' = IF drainLock = d THEN Nobody ELSE drainLock
    /\ writer' = IF writer = d THEN Nobody ELSE writer
    /\ width' = [width EXCEPT ![d] = 1]
    /\ sel' = [sel EXCEPT ![d] = {}]
    /\ late' = [late EXCEPT ![d] = FALSE]
    /\ stop' = [stop EXCEPT ![d] = "none"]
    /\ activeMem' = [activeMem EXCEPT ![d] = 0]

\* It ends without having recorded its results.
Lose(d) ==
    /\ End(d, "dead")
    /\ result' = [result EXCEPT ![d] = [j \in JobIds |-> "none"]]

\* Mutant: only the upper end of --jobs is clamped.
ClampedAbove(jobs) == IF jobs > PARALLEL_JOBS_MAX THEN PARALLEL_JOBS_MAX ELSE jobs

\* max(1, min(jobs, PARALLEL_JOBS_MAX))
Clamped(jobs) == IF jobs < 1 THEN 1
                 ELSE IF jobs > PARALLEL_JOBS_MAX THEN PARALLEL_JOBS_MAX ELSE jobs

\* Mutant: the drain relies on the DuckDB writer alone, as it did before pools existed.
LockUnchecked == TRUE

\* flock(LOCK_EX | LOCK_NB) succeeds
LockFree == drainLock = Nobody

AcquireDrainLock(d) ==
    /\ pc[d] = "idle"
    /\ LockFree
    /\ drainLock' = d
    /\ pc' = [pc EXCEPT ![d] = "locked"]
    /\ \E jobs \in Widths : width' = [width EXCEPT ![d] = Clamped(jobs)]
    /\ UNCHANGED <<state, req, writer, backfill, sel, pool, late, stop, activeMem, work, result>>

\* Another drain holds the lock: exit 0 and leave everything pending.
DeclineDrain(d) ==
    /\ pc[d] = "idle"
    /\ ~LockFree
    /\ pc' = [pc EXCEPT ![d] = "exited"]
    /\ UNCHANGED <<state, req, drainLock, writer, backfill, width, sel, pool, late, stop,
                   activeMem, work, result>>

Connect(d) ==
    /\ pc[d] = "locked"
    /\ writer = Nobody
    /\ writer' = d
    /\ pc' = [pc EXCEPT ![d] = "open"]
    /\ UNCHANGED <<state, req, drainLock, backfill, width, sel, pool, late, stop, activeMem,
                   work, result>>

\* db.connect gives up after its retry window; the drain dies with the exception.
ConnectFails(d) ==
    /\ pc[d] = "locked"
    /\ writer # Nobody
    /\ Lose(d)
    /\ UNCHANGED <<state, req, backfill, pool, work>>

\* Mutant: the sweep also retries failed rows.
ReclaimedFailed ==
    [j \in JobIds |-> IF state[j] \in {"running", "failed"} THEN "pending" ELSE state[j]]

Reclaimed == [j \in JobIds |-> IF state[j] = "running" THEN "pending" ELSE state[j]]

\* What --run-kind/--run-params, --kinds and --skip-parallel-safe leave of the pending rows.
Selections(P) ==
    LET kinds  == {Kind(i) : i \in P} \cap JOB_TYPES
        params == {req[i].params : i \in P}
    IN  {P, {j \in P : Kind(j) \notin ParallelSafe}}
        \cup {{j \in P : Kind(j) \in K} : K \in SUBSET kinds}
        \cup {{j \in P : Kind(j) = k /\ req[j].params \in A} : k \in kinds, A \in SUBSET params}

ReclaimAndSelect(d) ==
    /\ pc[d] = "open"
    /\ state' = Reclaimed
    /\ \E S \in Selections({j \in Rows : Reclaimed[j] = "pending"}) :
          \/ S = {} /\ End(d, "exited")
          \/ /\ S # {}
             /\ sel' = [sel EXCEPT ![d] = S]
             /\ pc' = [pc EXCEPT ![d] = "scan"]
             /\ UNCHANGED <<drainLock, writer, width, late, stop, activeMem>>
    /\ UNCHANGED <<req, backfill, pool, work, result>>

-----------------------------------------------------------------------------
(***************************************************************************)
(* _drain_rows: the loop over the snapshot.  The drain holds the writer at  *)
(* the top of the loop.                                                     *)
(***************************************************************************)
\* The wall-clock budget runs out.
BudgetExpires(d) ==
    /\ pc[d] \in {"scan", "inproc", "single", "pool", "record"}
    /\ ~late[d]
    /\ late' = [late EXCEPT ![d] = TRUE]
    /\ UNCHANGED <<state, req, drainLock, writer, backfill, pc, width, sel, pool, stop,
                   activeMem, work, result>>

ScanDone(d) ==
    /\ pc[d] = "scan"
    /\ sel[d] = {} \/ late[d]
    /\ End(d, "exited")
    /\ UNCHANGED <<state, req, backfill, pool, work, result>>

\* The load / free-RAM guard trips before a job is started: exit 0, rows left pending.
ScanGuardTrips(d) ==
    /\ pc[d] = "scan"
    /\ sel[d] # {}
    /\ ~late[d]
    /\ End(d, "exited")
    /\ UNCHANGED <<state, req, backfill, pool, work, result>>

\* Row j is next and takes the sequential path.
Next1(d, j) ==
    /\ pc[d] = "scan"
    /\ ~late[d]
    /\ IsFirst(j, sel[d])
    /\ ~(width[d] > 1 /\ Kind(j) \in ParallelSafe)
    /\ sel' = [sel EXCEPT ![d] = @ \ {j}]

\* Refused without running: declared memory over the budget, or no dispatch entry.
RefuseJob(d, j) ==
    /\ Next1(d, j)
    /\ Mem(j) > ENGINE_RAM_BUDGET_MB \/ Kind(j) \notin JOB_TYPES
    /\ state' = [state EXCEPT ![j] = "failed"]
    /\ UNCHANGED <<req, drainLock, writer, backfill, pc, width, pool, late, stop, activeMem,
                   work, result>>

\* The disk watchdog leaves an archive job pending.
SkipArchiveJob(d, j) ==
    /\ Next1(d, j)
    /\ Mem(j) <= ENGINE_RAM_BUDGET_MB
    /\ Kind(j) \in Archive
    /\ UNCHANGED <<state, req, drainLock, writer, backfill, pc, width, pool, late, stop,
                   activeMem, work, result>>

Dispatchable(j) == Mem(j) <= ENGINE_RAM_BUDGET_MB /\ Kind(j) \in JOB_TYPES

\* _run_releasing_job: mark running, close the writer, start the child.
StartReleasing(d, j) ==
    /\ Next1(d, j)
    /\ Dispatchable(j)
    /\ Kind(j) \in ReleasesWriter
    /\ state' = [state EXCEPT ![j] = "running"]
    /\ writer' = Nobody
    /\ pc' = [pc EXCEPT ![d] = "single"]
    /\ pool' = [pool EXCEPT ![d] = {j}]
    /\ work' = [work EXCEPT ![d][j] = "live"]
    /\ stop' = [stop EXCEPT ![d] = "none"]
    /\ UNCHANGED <<req, drainLock, backfill, width, late, activeMem, result>>

\* Every other kind runs inside the drain, on its write connection.
StartInProcess(d, j) ==
    /\ Next1(d, j)
    /\ Dispatchable(j)
    /\ Kind(j) \notin ReleasesWriter
    /\ state' = [state EXCEPT ![j] = "running"]
    /\ pc' = [pc EXCEPT ![d] = "inproc"]
    /\ pool' = [pool EXCEPT ![d] = {j}]
    /\ work' = [work EXCEPT ![d][j] = "live"]
    /\ UNCHANGED <<req, drainLock, writer, backfill, width, late, stop, activeMem, result>>

FinishInProcess(d, r) ==
    /\ pc[d] = "inproc"
    /\ \E j \in pool[d] :
          /\ state' = [state EXCEPT ![j] = IF r = "ok" THEN "done" ELSE "failed"]
          /\ work' = [work EXCEPT ![d][j] = r]
          /\ result' = [result EXCEPT ![d][j] = r]
    /\ pool' = [pool EXCEPT ![d] = {}]
    /\ pc' = [pc EXCEPT ![d] = "scan"]
    /\ UNCHANGED <<req, drainLock, writer, backfill, width, sel, late, stop, activeMem>>

-----------------------------------------------------------------------------
(***************************************************************************)
(* _run_parallel_pool: a rolling pool over the leading run of parallel-safe *)
(* rows.                                                                    *)
(***************************************************************************)
\* Mutant: the old parallel pre-pass, which took every parallel-safe row.
AllParallelSafe(S) == {j \in S : Kind(j) \in ParallelSafe}

\* The rows of S ahead of its first row that is not parallel-safe.
LeadingRun(S) ==
    {j \in S : \A i \in S : (i = j \/ Before(i, j)) => Kind(i) \in ParallelSafe}

\* next((r for r in run if mem > budget), None): the FIRST oversized row only.
FirstOversized(S) ==
    {j \in S : IsFirst(j, {i \in S : Mem(i) > ENGINE_RAM_BUDGET_MB})}

StartPool(d) ==
    /\ pc[d] = "scan"
    /\ ~late[d]
    /\ width[d] > 1
    /\ LET run     == LeadingRun(sel[d])
           refused == FirstOversized(run)
           started == run \ refused
       IN  /\ run # {}
           /\ sel' = [sel EXCEPT ![d] = @ \ run]
           /\ state' = [j \in JobIds |-> IF j \in refused THEN "failed"
                                         ELSE IF j \in started THEN "running" ELSE state[j]]
           /\ pool' = [pool EXCEPT ![d] = started]
           /\ IF started = {}
              THEN UNCHANGED <<writer, pc>>
              ELSE writer' = Nobody /\ pc' = [pc EXCEPT ![d] = "pool"]
    /\ stop' = [stop EXCEPT ![d] = "none"]
    /\ activeMem' = [activeMem EXCEPT ![d] = 0]
    /\ UNCHANGED <<req, drainLock, backfill, width, late, work, result>>

\* There is a row left to launch, a free slot, and no reason to stop yet.
MayLaunch(d) ==
    /\ pc[d] = "pool"
    /\ stop[d] = "none"
    /\ Unlaunched(d) # {}
    /\ Cardinality(Active(d)) < width[d]

\* Mutant: only the row's own need is compared with the budget.
FitsAlone(d, j) == Mem(j) <= ENGINE_RAM_BUDGET_MB

Fits(d, j) == activeMem[d] + Mem(j) <= ENGINE_RAM_BUDGET_MB

PoolLaunch(d, j) ==
    /\ MayLaunch(d)
    /\ ~late[d]
    /\ IsFirst(j, Unlaunched(d))
    /\ Fits(d, j)
    /\ work' = [work EXCEPT ![d][j] = "live"]
    /\ activeMem' = [activeMem EXCEPT ![d] = @ + Mem(j)]
    /\ UNCHANGED <<state, req, drainLock, writer, backfill, pc, width, sel, pool, late, stop,
                   result>>

\* Mutant: the memory check comes before the budget check and breaks out first.
PoolBudgetStopIfFits(d) ==
    /\ MayLaunch(d)
    /\ late[d]
    /\ \E j \in Unlaunched(d) : IsFirst(j, Unlaunched(d)) /\ Fits(d, j)
    /\ stop' = [stop EXCEPT ![d] = "budget"]
    /\ UNCHANGED <<state, req, drainLock, writer, backfill, pc, width, sel, pool, late,
                   activeMem, work, result>>

PoolBudgetStop(d) ==
    /\ MayLaunch(d)
    /\ late[d]
    /\ stop' = [stop EXCEPT ![d] = "budget"]
    /\ UNCHANGED <<state, req, drainLock, writer, backfill, pc, width, sel, pool, late,
                   activeMem, work, result>>

\* The resource guard stays tripped for RESOURCE_SETTLE_S with nothing running.
PoolGuardStop(d) ==
    /\ MayLaunch(d)
    /\ ~late[d]
    /\ Active(d) = {}
    /\ stop' = [stop EXCEPT ![d] = "resources"]
    /\ UNCHANGED <<state, req, drainLock, writer, backfill, pc, width, sel, pool, late,
                   activeMem, work, result>>

\* A child process ends by itself, whether or not its drain still lives.
ChildExits(d, j, r) ==
    /\ pc[d] # "inproc"
    /\ work[d][j] = "live"
    /\ work' = [work EXCEPT ![d][j] = r]
    /\ UNCHANGED <<state, req, drainLock, writer, backfill, pc, width, sel, pool, late, stop,
                   activeMem, result>>

\* active_mem_mb is the pool's; a single releasing child is not counted in it.
FreedMem(d, j) == IF pc[d] = "pool" THEN Mem(j) ELSE 0

Settle(d, j, r) ==
    /\ result' = [result EXCEPT ![d][j] = r]
    /\ activeMem' = [activeMem EXCEPT ![d] = @ - FreedMem(d, j)]
    /\ UNCHANGED <<state, req, drainLock, writer, backfill, pc, width, sel, pool, late, stop>>

\* poll() sees the exit code.
Reap(d, j) ==
    /\ pc[d] \in {"single", "pool"}
    /\ j \in Active(d)
    /\ work[d][j] \in {"ok", "bad"}
    /\ Settle(d, j, work[d][j])
    /\ UNCHANGED work

\* The child is past its deadline and is killed; it may still finish before the signal lands.
Timeout(d, j) ==
    /\ pc[d] \in {"single", "pool"}
    /\ j \in Active(d)
    /\ work[d][j] = "live"
    /\ \E w \in {"killed", "ok", "bad"} : work' = [work EXCEPT ![d][j] = w]
    /\ Settle(d, j, "timeout")

\* Mutant: the pool returns as soon as there is nothing left to launch.
QuietEarly(d) ==
    /\ pc[d] \in {"single", "pool"}
    /\ Unlaunched(d) = {} \/ stop[d] # "none"

\* Every child that was launched has ended and none is to be launched.
Quiet(d) ==
    /\ pc[d] \in {"single", "pool"}
    /\ Active(d) = {}
    /\ Unlaunched(d) = {} \/ stop[d] # "none"

Reacquire(d) ==
    /\ Quiet(d)
    /\ writer = Nobody
    /\ writer' = d
    /\ pc' = [pc EXCEPT ![d] = "record"]
    /\ UNCHANGED <<state, req, drainLock, backfill, width, sel, pool, late, stop, activeMem,
                   work, result>>

\* The writer is still taken after BATCH_REACQUIRE_WAIT_S: the results are lost.
ReacquireFails(d) ==
    /\ Quiet(d)
    /\ writer # Nobody
    /\ Lose(d)
    /\ UNCHANGED <<state, req, backfill, pool, work>>

\* Mutant: whatever is not a timeout or a failure counts as done.
RecordedNotFailed(r) == IF r \in {"bad", "timeout"} THEN "failed" ELSE "done"

\* Mutant: a failed worker is put back for a retry.
RecordedRetry(r) == CASE r \in {"none", "bad"} -> "pending" [] r = "ok" -> "done"
                      [] OTHER -> "failed"

\* Mutant: unlaunched rows are not restored to pending.
RecordedUnrestored(r) == CASE r = "none" -> "running" [] r = "ok" -> "done"
                           [] OTHER -> "failed"

Recorded(r) == IF r = "none" THEN "pending" ELSE IF r = "ok" THEN "done" ELSE "failed"

\* One UPDATE per row, in queue order, each committed by itself.
Record(d, j) ==
    /\ pc[d] = "record"
    /\ IsFirst(j, pool[d])
    /\ state' = [state EXCEPT ![j] = Recorded(result[d][j])]
    /\ pool' = [pool EXCEPT ![d] = @ \ {j}]
    /\ IF pool[d] = {j} /\ stop[d] # "none"
       THEN End(d, "exited")
       ELSE /\ pc' = [pc EXCEPT ![d] = IF pool[d] = {j} THEN "scan" ELSE "record"]
            /\ UNCHANGED <<drainLock, writer, width, sel, late, stop, activeMem>>
    /\ UNCHANGED <<req, backfill, work, result>>

\* An exception inside the pool (an interrupt, a failed Popen) kills its children.
PoolAborts(d) ==
    /\ pc[d] = "pool"
    /\ ~Quiet(d)
    /\ Lose(d)
    /\ work' = [work EXCEPT ![d] =
                  [j \in JobIds |-> IF work[d][j] = "live" THEN "killed" ELSE work[d][j]]]
    /\ UNCHANGED <<state, req, backfill, pool>>

\* The drain is killed: an in-process job dies with it, child processes do not.
DrainDies(d) ==
    /\ pc[d] \in Alive
    /\ Lose(d)
    /\ work' = [work EXCEPT ![d] =
                  [j \in JobIds |-> IF pc[d] = "inproc" /\ work[d][j] = "live"
                                    THEN "killed" ELSE work[d][j]]]
    /\ UNCHANGED <<state, req, backfill, pool>>

-----------------------------------------------------------------------------
EnqueueStep == \/ \E r \in Requests : EnqueueOnceDone(r) \/ EnqueueNew(r) \/ EnqueueDies(r)
               \/ SupersedeStalePending

StoreStep == \/ OtherOpens \/ OtherCloses
             \/ BackfillStart \/ BackfillDies
             \/ \E s \in {"running", "done"} : BackfillBatch(s)

\* The steps a live drain takes of its own accord.
DrainStep(d) ==
    \/ AcquireDrainLock(d) \/ DeclineDrain(d) \/ Connect(d) \/ ConnectFails(d)
    \/ ReclaimAndSelect(d) \/ ScanDone(d) \/ StartPool(d) \/ PoolBudgetStop(d)
    \/ Reacquire(d) \/ ReacquireFails(d)
    \/ \E r \in {"ok", "bad"} : FinishInProcess(d, r)
    \/ \E j \in JobIds : \/ RefuseJob(d, j) \/ StartReleasing(d, j) \/ StartInProcess(d, j)
                         \/ PoolLaunch(d, j) \/ Reap(d, j) \/ Record(d, j)

\* Readings of the clock, the load average and the disk that a drain acts on.
GuardStep(d) == \/ ScanGuardTrips(d) \/ PoolGuardStop(d)
                \/ \E j \in JobIds : SkipArchiveJob(d, j)

ClockStep(d) == BudgetExpires(d) \/ \E j \in JobIds : Timeout(d, j)

FailureStep(d) == PoolAborts(d) \/ DrainDies(d)

ChildStep(d) == \E j \in JobIds, r \in {"ok", "bad"} : ChildExits(d, j, r)

Next == \/ EnqueueStep
        \/ StoreStep
        \/ \E d \in Drains : \/ DrainStep(d) \/ GuardStep(d) \/ ClockStep(d)
                             \/ FailureStep(d) \/ ChildStep(d)

Spec == Init /\ [][Next]_vars

(***************************************************************************)
(* A started drain keeps running, its clock keeps ticking, and an in-process *)
(* job returns (nothing can kill it).  Nothing is assumed of children, of   *)
(* other processes or of the resource guards.                               *)
(***************************************************************************)
Fairness == \A d \in Drains :
               /\ WF_vars(pc[d] # "idle" /\ DrainStep(d))
               /\ WF_vars(BudgetExpires(d))
               /\ WF_vars(\E j \in JobIds : Timeout(d, j))

FairSpec == Spec /\ Fairness

-----------------------------------------------------------------------------
(***************************************************************************)
(* Correctness.                                                             *)
(***************************************************************************)
\* Every variable keeps its type; in particular a pool's width stays within its clamp.
TypeOK ==
    /\ state \in [JobIds -> States]
    /\ req \in [JobIds -> Requests \cup {BackfillRequest}]
    /\ drainLock \in Drains \cup {Nobody}
    /\ writer \in Drains \cup {Nobody, Other}
    /\ backfill \in JobIds \cup {0}
    /\ pc \in [Drains -> Alive \cup {"idle", "exited", "dead"}]
    /\ width \in [Drains -> 1 .. PARALLEL_JOBS_MAX]
    /\ sel \in [Drains -> SUBSET JobIds]
    /\ pool \in [Drains -> SUBSET JobIds]
    /\ late \in [Drains -> BOOLEAN]
    /\ stop \in [Drains -> {"none", "budget", "resources"}]
    /\ activeMem \in [Drains -> Int]
    /\ work \in [Drains -> [JobIds -> Works]]
    /\ result \in [Drains -> [JobIds -> Results]]

Holding == {"inproc", "single", "pool", "record"}

\* No other process takes a row away from the drain that runs it: while a drain holds a
\* row (its child may be running, the writer is free), the row stays 'running'.  This is
\* what the drain lock restores for the orphan sweep in _drain.
HeldRowsRunning ==
    \A d \in Drains : pc[d] \in Holding => \A j \in pool[d] : state[j] = "running"

\* Two live drains never run the same job at the same time (cmd_run: "two processes
\* writing the same data/reports").
OneSupervisedWorker ==
    \A d, e \in Drains : \A j \in JobIds :
        /\ pc[d] \in Alive /\ pc[e] \in Alive
        /\ work[d][j] = "live" /\ work[e][j] = "live"
        => d = e

\* A store-writing job under supervision runs alone: no other job of any live drain runs
\* beside it (JOB_TYPES without parallel_safe are sequential).
StoreWriterAlone ==
    \A d, e \in Drains : \A i, j \in JobIds :
        /\ pc[d] \in Alive /\ pc[e] \in Alive
        /\ work[d][j] = "live" /\ Kind(j) \notin ParallelSafe
        /\ work[e][i] = "live"
        => d = e /\ i = j

\* Row j is held by a live drain, or was left by a dead one and no drain has swept since.
Owned(j) == \/ \E d \in Drains : pc[d] \in Holding /\ j \in pool[d]
            \/ /\ \E d \in Drains : pc[d] = "dead" /\ j \in pool[d]
               /\ \A e \in Drains : pc[e] \notin Holding \cup {"scan"}

\* Every row in 'running' is held by a live drain, or was left by a dead one and the next
\* drain has not swept yet; none is stranded by a drain that exited cleanly.
RunningIsOwned ==
    \A j \in JobIds : (state[j] = "running" /\ Kind(j) # Backfill) => Owned(j)

\* A row says 'done' only if some execution of the job really succeeded, across crashes,
\* time-outs, reclaims and re-runs.
DoneIsTrue ==
    \A j \in JobIds : (state[j] = "done" /\ Kind(j) # Backfill) =>
        \E d \in Drains : work[d][j] = "ok"

\* What a drain noticed of a job it finished is what the row says from then on, unless the
\* drain died before recording it.
OutcomesRecorded ==
    \A d \in Drains : \A j \in JobIds :
        /\ pc[d] \in Alive \cup {"exited"}
        /\ j \notin pool[d]
        /\ result[d][j] # "none"
        => state[j] = IF result[d][j] = "ok" THEN "done" ELSE "failed"

\* The declared memory of the children a pool has not settled, by row.
DeclaredMem(d) == [j \in JobIds |-> IF j \in Active(d) THEN Mem(j) ELSE 0]

\* active_mem_mb of a pool is exactly the declared memory of the children it has not
\* settled, over launches, exits and time-outs, and never exceeds the engine budget.
PoolWithinBudget ==
    \A d \in Drains : pc[d] = "pool" =>
        /\ activeMem[d] = Total(DeclaredMem(d))
        /\ activeMem[d] <= ENGINE_RAM_BUDGET_MB

\* Priority order: nothing is started while a row ahead of it in the snapshot is still
\* waiting, so a pool never overtakes a store-writing row (_drain_rows).
LaunchOrder ==
    \A d \in Drains : pc[d] \in Alive =>
        \A i \in sel[d] \cup Unlaunched(d) : \A j \in JobIds :
            work[d][j] # "none" => Before(j, i)

-----------------------------------------------------------------------------
(***************************************************************************)
(* What the safety properties rest on.  QueueInv is inductive (see          *)
(* JobQueueProofs).                                                         *)
(***************************************************************************)
\* The lock and the writer are where the program counter says they are.
LocksHeld ==
    \A d \in Drains : /\ pc[d] \in Alive => drainLock = d
                      /\ pc[d] \in {"open", "scan", "inproc", "record"} => writer = d

\* The backfill's row exists and is a backfill row.
BackfillOwn == backfill # 0 => state[backfill] # "absent" /\ Kind(backfill) = Backfill

\* Which drains have rows to come to and rows in hand.
WhereRowsAre ==
    \A d \in Drains :
        /\ sel[d] # {} => pc[d] \in Holding \cup {"scan"}
        /\ pool[d] # {} => pc[d] \in Holding \cup {"dead"}
        /\ sel[d] \cap pool[d] = {}
        /\ pc[d] \in {"inproc", "single"} => \A i, j \in pool[d] : i = j

\* The kinds of the rows in hand.
PoolKinds ==
    \A d \in Drains : \A j \in pool[d] :
        /\ pc[d] \in Holding => Kind(j) \in JOB_TYPES
        /\ pc[d] = "pool" => Kind(j) \in ParallelSafe

\* A row of the snapshot is still pending, or was superseded under the drain's feet, or
\* belongs to a backfill.
SelectedWaiting ==
    \A d \in Drains : \A j \in sel[d] :
        \/ state[j] \in {"pending", "superseded"}
        \/ state[j] # "absent" /\ Kind(j) = Backfill

\* A drain starts a row at most once, supervises what it started, and notices only what
\* happened.
WorkOnce ==
    \A d \in Drains : \A j \in JobIds :
        /\ (pc[d] \in {"idle", "locked", "open"} \/ j \in sel[d]) => work[d][j] = "none"
        /\ work[d][j] # "none" => state[j] # "absent"
        /\ work[d][j] = "live" =>
              pc[d] = "dead" \/ (pc[d] \in {"inproc", "single", "pool"} /\ j \in pool[d])
        /\ work[d][j] \in {"none", "live"} => result[d][j] = "none"
        /\ result[d][j] = "ok" => work[d][j] = "ok"
        /\ result[d][j] # "none" => Kind(j) \in JOB_TYPES

\* The rows in hand come before the rows still to come.
PoolFirst ==
    \A d \in Drains : pc[d] \in Holding =>
        \A i \in pool[d], j \in sel[d] : Before(i, j)

\* The facts above together: the locks and handles of _drain, its one snapshot and the
\* rows it has in hand agree with each other and with the table.
QueueInv ==
    /\ LocksHeld /\ BackfillOwn /\ WhereRowsAre /\ PoolKinds /\ SelectedWaiting
    /\ WorkOnce /\ PoolFirst

-----------------------------------------------------------------------------
\* Kinds whose rows some request can supersede.
SupersededKinds ==
    {r.kind : r \in {q \in Requests : q.once \/ q.kind \in Supersedes}}
        \cup {"walkforward", Backfill}

\* Dedup: at most one pending or running row asks for the same work.
NoDuplicateWork ==
    \A i, j \in JobIds :
        /\ state[i] \in {"pending", "running"} /\ state[j] \in {"pending", "running"}
        /\ Kind(i) = Kind(j) /\ req[i].params = req[j].params
        /\ Kind(i) \notin SupersededKinds
        => i = j

\* No step rewrites an outcome.
OutcomesKept ==
    \A j \in JobIds :
        (state[j] \in {"done", "failed"} /\ Kind(j) # Backfill) => state'[j] = state[j]

\* A recorded outcome is never rewritten: 'done' and 'failed' are final, whatever a stale
\* snapshot, a reclaim or a late child still does.
OutcomesFinal == [][OutcomesKept]_vars

\* Claim: "a kind flagged `supersedes` marks older pending rows [...] 'superseded' [...] so a
\* guard-tripped night cannot leave a stack of stale variants to drain later": a superseded
\* row is never run.
SupersededStays ==
    [][\A j \in JobIds : state[j] = "superseded" => state'[j] = "superseded"]_vars

\* Claim: the drain lock restores "the invariant the orphan sweep depends on", that no child
\* of a row it reclaims is alive: a job never has two live workers.
OneWorker ==
    \A d, e \in Drains : \A j \in JobIds :
        work[d][j] = "live" /\ work[e][j] = "live" => d = e

\* A drain that has taken the lock always ends, whatever its children, the load guard and
\* the other users of the store do.
DrainTerminates ==
    \A d \in Drains : pc[d] \in Alive ~> pc[d] \in {"exited", "dead"}
=============================================================================

# Trading engine: TLA+ verification project

This directory holds TLA+ specifications of the parts of the trading engine where
several processes, crashes, retries or late data meet persistent state, the TLC
configurations that check them on small instances, and machine-checked proofs
(TLAPS) of the properties that matter most.

Paths below are relative to the repository's root, `src/` in `PROJECT.json`.

## 1. Inventory

The repository is a single-machine trading research system: a nightly pipeline
collects prices, screens, steps a *paper league* of simulated books, and drains a
queue of research jobs; a server exposes the state, takes discretionary tickets and
holds the (paper-only) broker authority. Everything shares one DuckDB file, which
admits one writer process at a time.

| Component | State | Operations | Interacts with | Hard behaviour | Correct when |
|---|---|---|---|---|---|
| Job queue, `engine/queue_runner.py` | `jobs` table, drain lock, children | enqueue, drain, supersede | every other writer; child processes | drains start and die at any time; writer released while children run; one snapshot used for hours | a row has one worker, an outcome is true and final, nothing is stranded, every drain ends |
| Store, `engine/lib/db.py` | the writer handle, transactions | connect with retry, transaction | all | handle lost between two uses | writers exclude each other; a transaction is all or nothing |
| Collector, `engine/collect.py` | `prices`, a `jobs` row | backfill, incremental | queue's sweep, league | shares the jobs table without the drain lock; bars arrive late | its row is not taken by the sweep |
| League day step, `sim/league.py` | orders, fills, dividends, equity, cash, positions | step, rerun | fills, ledger, portfolio, settle | crash in the step, reruns, pending orders over several sessions | the book equals the replay of its events |
| Fill model, `sim/fills.py` | none | `attempt_fill` | league | age limit, liquidity, look-ahead | fills only on a later trusted bar |
| Ledger, `sim/ledger.py` | derived cash, positions, lots | `events`, `apply_event`, `rebuild_state`, projection | league, settle, accounts | replay order of retroactive events | replay is exact and accepts every stored fill |
| Accounting, `sim/portfolio.py` | cash, equity, credits | `credit_dividends`, `mark_to_market` | ledger | rows that land after the ex-date | one credit per ex-date, for the position before it |
| Settlements, `sim/settle.py` | `sim_settlements` | settle, close out delisted | ledger, orders | booked for past or coming dates | replay is exact; no name is closed twice |
| Session gate, `engine/market_date.py` | none | continuity check | league | skipped sessions | the nightly never skips one |
| Tickets, `server/tickets.py`, `ticket_store.py` | `disc_tickets`, orders | create, cancel | league | submitted while the nightly runs | never sells short, never fills at a known open |
| Corporate actions, `engine/actions.py` | `corporate_actions`, split marks | collect, adjudicate, restate | ledger | a restatement of stored prices and orders | replay in one unit of shares |
| Account engine, `engine/accounts/`, `engine/paper_accounts.py`, `engine/money/halts.py` | orders, fills, positions, account status | submit, cancel, settle, halt, resume, retire | ledger, fills, margin, shorts | every settlement replays the whole history and executes late orders in the past; accounts share liquidity and fail one by one | the cache is the fold of the fills; a halted account only loses exposure; a retirement ends flat |
| Broker ledger, `server/broker_ledger.py`, `broker_submission*.py`, `broker_reconciliation.py`, `broker_emergency_stop.py`, `broker_startup_readiness.py` | decisions, intents, submission, cancellation, resolution, halt and stop events | submit once, resolve, cancel all and halt, assess | the venue | crash between recording and calling, lost replies, reads of a moving venue | an order is sent at most once, an adjudication is true, a completed stop left nothing open |
| Paper authority, `server/broker_paper_*.py` | leases, activations, consumptions | activate, plan, record pre-call, scan at startup | broker ledger, halts | plans used after a halt, a restart or another thread's commit | a lease is never overspent or spent under another anchor |
| Release deployment, `tools/release_deploy.py` | state file, receipts, checkout, runtimes, database, units | prepare, apply, verify, abort, rollback, resume | producers, operator | interrupted commands followed by any other | producers run over one release; no write is lost; a rollback ends |
| Lane and backup tools, `tools/lane.py`, `backup_database.py` | locks, bundles | lane, backup | drivers | concurrent operators | one lane holder |
| Drivers, `engine/run_*.sh` | lock files, logs | nightly, weekend | queue, league | overlapping drivers | order of stages |
| Shadow agents, `server/agent_*` | recorded proposals | run, evaluate | model clients | lost answers | record only |
| P15/P16 books, research farm, screens, read models, dashboard | reports | numeric, read-only | – | – | – |

`PROJECT.json` lists every component with its status and, under `hazards`, the places
where each of these behaviours bites, with the properties that cover them.

## 2. Modules

| Module | Models | Used by |
|---|---|---|
| `JobQueue` | `engine/queue_runner.py`; the `jobs` protocol of `engine/collect.py`; the writer of `engine/lib/db.py` | `MCJobQueue`, `JobQueueProofs` |
| `JobQueueProofs` | theorems about `JobQueue` | – |
| `MCJobQueue` | request sets, symmetry | 3 configurations |
| `PaperLeague` | one book: `sim/league.py`, `fills.py`, `ledger.py`, `portfolio.py`, `settle.py`, `server/tickets.py`, `engine/market_date.py` | `MCPaperLeague`, `PaperLeagueProofs`, `LeagueLedgerProofs` |
| `PaperLeagueProofs` | theorems about the orders and fills of `PaperLeague` | `LeagueLedgerProofs` |
| `LeagueLedgerProofs` | theorems about its cash, positions, dividends and prices | – |
| `MCPaperLeague` | bars, signals, tickets, terms | 3 configurations |
| `AccountEngine` | `engine/accounts/settle.py`, `service.py`, `engine/paper_accounts.py`, `engine/money/halts.py`; the receipt windows of `sim/order_types.py`, the orders that `sim/margin.py` and `sim/shorts.py` queue | `MCAccountEngine`, `AccountEngineProofs` |
| `AccountEngineProofs` | theorems about `AccountEngine` | – |
| `MCAccountEngine` | the orders clients ask for | 2 configurations |
| `OneShot` | abstract: what `submit_once` promises | `BrokerLedger` |
| `BrokerLedger` | `server/broker_ledger.py`, `broker_submission.py`, `broker_submission_resolution.py`, `broker_reconciliation.py`, `broker_emergency_stop.py`, `broker_risk_control.py`, `broker_startup_readiness.py`, and the venue | `MCBroker`, `BrokerLedgerProofs` |
| `BrokerLedgerProofs` | theorems about `BrokerLedger` | – |
| `MCBroker` | scenes: which keys and processes take part in a behaviour | 1 configuration |
| `PaperAuthority` | `server/broker_paper_*.py` and its meeting point with `submit_once` | `MCPaperAuthority`, `PaperAuthorityProofs` |
| `PaperAuthorityProofs` | theorems about `PaperAuthority` | – |
| `MCPaperAuthority` | threads of one process, symmetry | 2 configurations |
| `ReleaseDeploy` | `tools/release_deploy.py`, with the producers and the operator | `MCReleaseDeploy`, `ReleaseDeployProofs` |
| `ReleaseDeployProofs` | theorems about `ReleaseDeploy` | – |
| `MCReleaseDeploy` | links, migrations and unit files | 1 configuration |
| `Sums` | the sum of a sequence of naturals, the sum of a function over a finite set | `JobQueue`, `PaperAuthority`, `PaperLeague`, `AccountEngine` |
| `SumTheorems` | lemmas about `Sums` | `JobQueueProofs`, `PaperAuthorityProofs`, `PaperLeagueProofs`, `ReleaseDeployProofs`, `AccountEngineProofs` |

Each component has a type invariant, `TypeOK`. That of the queue is checked by a run and
proved, those of the broker ledger, the accounts and the release transaction are proved; the others
document the state.

### JobQueue

A *drain* is one invocation of `queue_runner --run`. `pc` follows it:

```
idle -> locked -> open -> scan -> inproc | single | pool -> record -> scan ... -> exited
   (AcquireDrainLock, Connect, ReclaimAndSelect, Start..., Reap/Timeout, Reacquire, Record)
```

and `DrainDies` takes it from any live state to `dead`. `state` and `req` are the
table, `drainLock` the `flock` file, `writer` the DuckDB handle. `sel` is what is left
of the snapshot `_drain` took, `pool` the rows it has marked running. `work` is what
really became of a job a drain started, `result` what the drain noticed; the two
differ when a child outlives a killed drain or ends between the poll and the kill.

Steps that the code performs under the writer without a point where another process
can act (the sweep with the snapshot; marking a run of rows and closing the writer) are
one action. `params` stand for the canonical JSON that `_same_params` compares.
Time limits are the moment they expire (`BudgetExpires`, `Timeout`), the load and memory
guards are free choices (`ScanGuardTrips`, `PoolGuardStop`). `SkipArchiveJob` is the
archive window. The legacy state `queued` is produced by no code and is left out, as are
partial-run reports, scratch sweeping and `--dry-run`, none of which changes a row.

### PaperLeague

One book; books share no state but the market data, so one is enough. A session is a
number. A day step is one transaction: `BeginNightly`, `BeginManual` (`--date`) or
`BeginRerun` open it and the phases of `step()` follow as small steps —
`CreditDividends`, `CloseOut`…`CloseOutDone`, `FillSell`/`AttemptBuy`, `SizeBuys`,
`FillBuy`, `MarkToMarket`, `GenerateOrder`, `Commit` — with `Rollback` possible after
each of them. Because the process holds the only writer, everything else (`Collect`,
`LateBar`, `Publish`, `Drop`, `Quarantine`, `SubmitTicket`, `CancelTicket`, `Settle`)
waits for phase `idle`. `Replay` is `rebuild_state`: a fold of `ReplayDay` over the days,
which reproduces the event order of `ledger.events`; its `rows` component is the set of
names that have a position row by then, because a settlement changes no other.

What is abstracted in the data:

* shares, prices and money are small integers. The pro-rata scale of a session's buys
  rounds down, so an order scaled to no share plays the part of one under
  `MIN_FILL_USD`; costs are a fixed `Slip` per share and the liquidity ceiling is a
  `cap` on the notional of a bar; a dividend pays 1 a share.
* a bar's open and close are the same price; the *value* of an equity row is not kept,
  only that the session has one. Average cost, lots and fees are derived columns that
  no property here is about.
* a strategy is any subset of `Signals`, whatever the cadence.
* `PENDING_MAX_DAYS`, `DIVIDEND_LOOKBACK_DAYS` and `DELISTED_AFTER_SESSIONS` are
  constants, 2 in the instances instead of 3, 10 and 5, so that each limit is reached.
  The look-back is counted in sessions, the code's in calendar days.
* a settlement with `ratio` 0 pays cash (or nothing); with `ratio` > 0 it converts.
  With one book, terms "sourced for another book of the name" do not arise: the book
  that has sourced terms has also booked them, so its close-out is skipped.
* a stored bar is not restated and a name is not relisted after its omission; splits,
  cash adjustments and the P15 books are left out.

`changed` is a history variable: whether stored data changed since the last committed
step, for the properties that speak of "the same data". `Backdated` and `SettleAhead`
say whether the owner uses two freedoms the code gives and that break the replay (section
5); the runs leave them unused.

### AccountEngine

The simulated accounts that clients trade through `paper_accounts.submit_intent`. The
clock `now` has three spans a session (before the open, open, after the close), which is
what the receipt windows and cutoffs of `order_types` tell apart. An order carries its
fill, so `orders` stands for `sim_orders`, `sim_order_details` and `sim_fills`; an order
id is its index, which is also the order of receipt. `timely` is the answer of
`received_at_allowed` for the moment the order was made.

`Settle(a)` is one `fold_account` of one account: a recursive function over the account's
stored fills and due orders (`Folds`: the result for a set of events is that for the set
without its latest one, then that event), in effective-time order (`Before`), each stored
fill replayed, each queued order put through `Outcome`, which keeps the order of the tests in `_settle_order`;
then `halts.check`, the margin calls, the buy-ins and `finalize_retirement`, all in one
transaction. Every settlement in the code starts from the account's inception, and so
does `Fold`. A fold whose stored fill no longer applies raises: `Settle` is then not
enabled and only `SettleFails` remains, the rollback followed by `persist_mismatch`.
`settle_session` calls the accounts one after the other, each in its own transaction; the
model lets them be settled in any order and any number of times, which includes the
nightly, the late settlement and a night in which one account failed.

Prices and cash are left out, so what depends on them is a free choice: the orders that
the locate, the day-trade rule, Reg T or the gross cap refuse (`refused`), a breach of the
drawdown or daily-loss limit or a fresh reconciliation mismatch (`breach`), a maintenance
breach and its ratio (one share or the whole position), the threshold list. The volume
limit of a name is `Cap` shares a session and direction, the code's is 1 % of the median
dollar volume at the reference price of each fill. Splits, dividends, financing,
delistings and intraday orders are left out, as are schema-1 accounts. `Supervised` are
the accounts whose owner halts, resumes and retires them.

### BrokerLedger and OneShot

A key is an order. `caller` are processes in `submit_once`, with one step per
transaction and one for the call, the answer and its acknowledgement; `resolver` is
`resolve_uncertain`, which reads open orders and fills twice; `stopper[p]` is
a run of `cancel_all_and_halt`, with every transaction and venue call a step of its own: `p`
is a halt key and one of the `Runs` for it, since nothing keeps the stop from being run again
while an earlier run is at work; `assessor` is `startup_readiness.assess`. Each may vanish between two steps and a
later process starts from the tables alone. The venue receives a call at any time after
it was made (`wire`) and fills and ends orders as it likes. DuckDB admits one writer, so a
transaction is one action. Timestamps are left out: two runs that record the same event agree
only if they did so in the same instant, so agreement and conflict are both possible.

`calls`, `cancelCalls` and `unsettled` are history. `unsettled` holds the keys
that were adjudicated by a resolver which began to read while the call could still land:
no read of the venue can tell such a key's fate, and the operator is told to wait.

`OneShot` is the abstract specification: a key is started, called and acknowledged at
most once each, in this order. `Shot` maps the ledger's tables and the call history to it.

### PaperAuthority

The retention table is append-only and hash-chained, so `rows` is a sequence and a
"trusted head" is its length. A worker thread holds a plan (`PlanActivation`,
`PlanConsumption`) and commits it later (`RecordActivation`, `RecordPreCall`), with the
checks the commit repeats (`MayActivate`, `MayConsume`, `ResultVerifies`) and without the
ones it does not. Between the two the process may restart, a halt be recorded, the lease
or the evidence expire, another thread commit and `submit_once` take the key. The
hashes that bind records to each other are the identity of what they bind. What a lease
has spent is recomputed from its rows, as `_transcript_usage` does: the rows of a lease are
positions in the table (`RowsOf`, `Later`) and the notional is their `Total`. Lease ids are
numbers, for the order of their strings: `build_plan` refuses a scan whose ids do not ascend
(`AscendingLeases`).

### ReleaseDeploy

A command is a list of steps (`Program`); each step is skipped, adopted, refused or begun
according to its receipt, acts, and is completed, and the state file is saved where the
code saves it. `Crash` ends the process anywhere, `Fails` is a handled exception with the
compensation the code runs, `Torn` is the half-done effect each action can leave.
The operator runs any command the saved phase admits (`OperatorStep`). Producers write
whenever they are started and the tool does not hold their locks. Builds, preflight checks
and what a migration does are left out.

`host.units` are the unit files that differ from the original ones, `saved.recorded` those
the state file lists for the rollback. The installer may be cut off after any of them. Its
changes are recorded in a `finally`, but the recording itself raises on a unit that is not as
the release has it (l. 1658–1673), so `Fails` may leave them unrecorded; a second attempt
records what the first one left before it acts (`reconcile_automation`, part of `Begin`).
That attempt to adopt never succeeds: the quiesce of the same command has removed the
crontab, which the audit misses.

One thing is assumed of the operator and not enforced: between rollback and resume they put
the branch on the original commit or on a later, reconciled one (`OperatorReconciles`).
`validate_reconciled_source` (l. 925–933) accepts any commit that is named and checked out on
the branch, and right after a rollback the branch still points at the approved commit; a
resume there would start producers of the approved checkout over the original database.
`ProducersOnOneRelease` and its theorem depend on the assumption.

## 3. Runs

Twelve runs, ten passing. Every property of a passing run has a mutant in `PROJECT.json`:
a plausible bug of the code under which TLC finds it violated.

| Run | Checks | Shows |
|---|---|---|
| `queue_mixed` | `StoreWriterAlone`, `RunningIsOwned`, `OutcomesRecorded`, `LaunchOrder`, `PoolWithinBudget`, `NoDuplicateWork`, `DoneIsTrue` | two drains that may die anywhere, two research rows that fit the memory budget only one at a time, a store-writing miner between them |
| `queue_shared` | `HeldRowsRunning`, `OutcomesFinal`, `OneSupervisedWorker` | superseding and one-shot enqueues, enqueuers that die half-way and a backfill beside the stale snapshots of two drains |
| `queue_ends` | `TypeOK`, `DrainTerminates` | every drain that takes the lock ends, with rows over the memory budget, a row run in the drain itself, the weekly grid and its clean-up; `--jobs 0` included |
| `league_nightly` | `NeverOverdrawn`, `ReplayExact`, `BooksClosed`, `NothingStale`, `OneOrderPerLeg`, `RerunReproduces` | a two-name book that cannot afford all its orders; skipped sessions, reruns, a late bar, quarantine, crashes |
| `league_actions` | `ReplayExact`, `EntitlementExact` | late dividends, a silent and dropped name closed out, reruns around both |
| `league_tickets` | `ReplayExact`, `FillsHonest` | tickets before and after the open, cancellation, thin bars, retroactive conversions and write-offs between reruns |
| `broker_ledger` | `SubmitsOnce`, `SentUnderItsDecision`, `ResolutionTrue`, `StopComplete`, `RepeatOnlyAcknowledged`, `StopEvidenceKept`, `SafeAssessment` | callers that race, die and retry, a resolver over a moving venue, stops that die, are rerun and overlap, with one halt key and with two, an assessment beside them; `SubmitsOnce` is the refinement of `OneShot` |
| `paper_authority` | `WithinLease`, `SpentUnderItsAnchor`, `SpentKeysApart`, `OneOpenEpoch` | two threads with two leases and plans made earlier, a halt, a restart, expiry, a `submit_once` of the same key |
| `paper_authority_last` (violation) | `PlannedOrdersCommit` | the order that uses a lease up can never be recorded |
| `release_deploy` | `ProducersOnOneRelease`, `NoWriteLost`, `OutcomeTrue`, `RollbackCompletes` | every command cut off up to twice, inside an action included, and followed by any command its phase admits |
| `account_engine` | `LedgerReplays`, `AggregateLiquidity`, `OnlyShrinks` | two accounts, late bars, contingent orders, margin calls, buy-ins, failed settlements, halts and retirement in any order |
| `account_retirement` (violation) | `RetirementExecutes` | an account retired before the close keeps its positions |

What the violations say of the code is under `findings` in `PROJECT.json`, with the
sentences they contradict.

**Bounds.** *Queue*: three rows are the fewest with a pool of two and a store-writing row
to overtake; two drains the fewest with one that inherits what the other left. `MaxJobs`,
`MaxBackfills` and "each drain starts once" are named in the module; the drains are
interchangeable (`SYMMETRY`), except in the liveness run. *League*: three sessions are a
signal, a fill and a session after it; the run about dividends and close-outs has
four. Two or three orders are enough for a buy with a competing buy or an offsetting sell.
Each run leaves the operations it is not about without inputs, and between them the
passing runs take every action. *Broker*: all processes at once are out of reach, so
`MCBroker` has five scenes, one for each group of processes that share a hazard, two runs of
one halt key among them; an order of two units can be partly filled; one of two decisions
passes. 1.7 million states. *Authority*: two leases of three units of capital, one restart
and one halt. With two keys of one or two units the capital is the limit that is reached and
the count of three orders is not: a third key is out of reach beside the rest. The count is
covered by `paper_authority_last`, whose leases are of one order, and for all values by the
theorem `LeasesWithin`. Keys and threads are interchangeable. 920,000 states. *Release*: two
runtime links, one new with the release, two migrations, one of which waits for approval, two
unit files, so that an installation can be partial, two writes, two faults: a fault in a
command and one in the command that repairs it. 580,000 states. *Accounts*: two accounts compete for a volume
of two shares; three sessions are an opening fill, a close, and a bar that arrives after a
later fill; three orders are an open, a close and a close the engine queues itself.
610,000 states.

**Deadlock** is checked for the league and the broker. A queue whose drains
have all exited rests; a release transaction that is finished stops; behaviours of the
authority and of the accounts end with the bounds on restarts, sessions and orders.

**Fairness.** `FairSpec` of the queue (used by `queue_ends`): weak fairness of the steps
of a drain that has started, since a live process is scheduled and each of its waits
polls with a time-out; of `BudgetExpires`, since the wall clock advances; and of
`Timeout`, since `_wait_batch` kills a child at its limit. Nothing is assumed of children
(they may never end), of the load guard or of other writers: `ConnectFails` and
`ReacquireFails` are the drain's own way out when the handle never becomes free.
`ReleaseDeploy`: weak fairness of `ToolStep`, since a running command takes its next step,
and of `RetryRollback`: the operator reruns a rollback that was cut off, as the tool's
messages and the runbook ask. Faults are bounded by `MaxFaults`, so they end.

## 4. Proofs

### JobQueueProofs

For every number of rows, set of drains, request set and list of `--jobs` values that
satisfy the named assumptions of `JobQueue` (bounds are naturals, requests are
well-formed, widths are integers, the lock's "nobody" and "other" are not drains):

| Theorem | States |
|---|---|
| `TypeCorrect` | `TypeOK` |
| `QueueSound` | `QueueInv` |
| `HeldRowsStayRunning` | `HeldRowsRunning` |
| `SupervisionExclusive` | `OneSupervisedWorker` |
| `StoreWritersAlone` | `StoreWriterAlone` |
| `DoneSound` | `DoneIsTrue` |
| `OutcomesSound` | `OutcomesRecorded` |
| `LaunchesOrdered` | `LaunchOrder` |
| `NothingStranded` | `RunningIsOwned` |
| `OutcomesNeverRewritten` | `OutcomesFinal`, an action property |
| `WorkAskedOnce` | `NoDuplicateWork` |
| `PoolsBalanced` | `PoolWithinBudget` |

All rest on `Inductive == TypeOK /\ QueueInv /\ HeldRowsRunning` (`QueueInvariant`).
`HeldRowsRunning`, the property the sweep depends on, is not inductive alone: that the
sweep cannot take a live drain's row needs the sweeping drain to hold the lock and the
other to hold it too (`LocksHeld`); that superseding cannot take it needs the row to be
running, not pending; that a drain does not mark a row running which somebody else
finished needs the shape of stale snapshots (`SelectedWaiting`); that recording writes
only this drain's rows needs `WhereRowsAre` and `WorkOnce`. `PoolFirst` carries the
launch order and `PoolKinds` the solitude of store writers. The proofs have one step per
action; the actions with the largest case analyses are first reduced to an *effect* lemma
(`SelectEffect`, `PoolEffect`, `RecordEffect`, ...) that says in one formula what they
change. `DoneIsTrue`, `OutcomesRecorded`, `LaunchOrder` and `RunningIsOwned` are each
inductive relative to `Inductive`.

`NoDuplicateWork` is not: the sweep and an enqueue look at pending, running and done rows,
so a superseded row that became pending again would be a duplicate nobody checked. The
strengthening `SupersededOnly` says such a row is of a kind the property exempts.
`CalmStep` shows that every step but an enqueue leaves rows of the other kinds as
waiting as they were (`AllCalm`), which settles all of them at once.

`PoolWithinBudget` equates a counter that is incremented and decremented with a sum over
the rows of the pool. `BooksStep` sorts the steps into three: those that leave the pool's
books alone, a launch, a child that is settled; `Moves` says what the last two do to the
sum. A row's declared memory may not change while its child runs, which is where the
invariant of the queue is needed: an enqueue writes only unused rows.

### BrokerLedgerProofs

For every set of keys, callers, halt keys, runs of each and decisions and every quantity:

| Theorem | States |
|---|---|
| `LedgerSubmitsOnce` | `SubmitsOnce`: the ledger implements `OneShot` |
| `DecisionsStand` | `SentUnderItsDecision` |
| `LedgerSound` | `LedgerInv`, the inductive invariant |
| `LedgerTyped` | `TypeOK` |
| `ResolutionsTrue` | `ResolutionTrue` |
| `StopsComplete` | `StopComplete` |
| `NoBlindRepeat` | `RepeatOnlyAcknowledged` |
| `StopEvidenceStays` | `StopEvidenceKept` |
| `AssessmentsSafe` | `SafeAssessment` |
| `OnlyForward` | `[][LedgerForward /\ VenueForward]_vars`, an action property |

The invariant of submissions is `SubmissionInv == SubmissionType /\ CallersApart /\
CallsCounted`. "At most one call" is not inductive: a step that calls the adapter must
find a count of zero, which needs that the key of a caller past its second transaction is
started and that no other caller is past it with the same key (`CallersApart`), and that
the count is zero until that caller's call (`CallsCounted`). Initial states map to initial
states; the second transaction maps to `ShotStart`, the call to `ShotCall`, the
acknowledgement to `ShotAcknowledge`, and every other step, deaths included, stutters.

The other theorems rest on `LedgerInv == SubmissionInv /\ VenueInv /\ StopInv /\
ResolutionInv /\ AssessmentInv`. What a process read from the venue is stale as soon as it
has read it, so each part says what such a reading is still good for, and `OnlyForward`
why: an order that has ended stays as it is, a fill is not taken back, and a key with no
caller and no request on the wire goes no further. From it:

* *resolver*: `ReadsHold` keeps, for each of its reads, what remains true of the key (an
  absent order whose call was over stays absent; fills seen are a lower bound);
  `AdjudicatedApart` that the adjudicated key has no caller left.
* *stop*: `TablesFit` relates the tables of an operation to each other and to the venue: a
  cancellation is acknowledged only of an order that ended with the planned quantity, and
  uncertain only while the operation is started, of which there is one (`OneStarted`).
  `RunFits` says what a run may rely on although other runs of its key are at work: an order
  it saw open and nobody has begun to cancel was not asked for yet. `RunsApart` puts an
  uncertain cancellation in the hands of one run, and `CallsEnded` says that an order asked
  for twice has its acknowledgement. "At most once" is not among the theorems because it is
  false (section 5).
* *assessment*: `SeenAccounted` says that an order seen open was acknowledged, could land
  late, or has ended since, in which case the closing snapshot differs.

### PaperAuthorityProofs

For every set of leases, keys, processes and worker threads, every limit of a lease and
every number of restarts and halts:

| Theorem | States |
|---|---|
| `AuthoritySound` | `AuthorityInv`, the inductive invariant |
| `LeasesWithin` | `WithinLease` |
| `SpentAnchored` | `SpentUnderItsAnchor` |
| `KeysSpentApart` | `SpentKeysApart` |
| `OneOpenPerProcess` | `OneOpenEpoch` |

`AuthorityInv == Shapes /\ Transcripts /\ PlansHold /\ OneOpen /\ KeysApart /\
UsageWithin`. A held plan may be arbitrarily old; `PlansHold` says how much of it its
thread may still rely on when it commits. `OneOpen` is stated per epoch rather than per
process, because a restart gives a process an epoch whose leases it has to know nothing
about yet. `UsageWithin` needs that an appended row adds its own notional to the total of
its lease and nothing to the others' (`TotalGrows`), and `WithinLease` that the rows with
a key are exactly those after the activation (`Transcripts`).

### PaperLeagueProofs

For every set of names, bars, signals, tickets and terms, and every number of sessions and
orders:

| Theorem | States | Assumes |
|---|---|---|
| `BooksSound` | `BooksInv`, an inductive invariant | – |
| `BooksStayClosed` | `BooksClosed` | – |
| `WaitingSound` | `BooksInv /\ WaitingInv` | `~Backdated` |
| `NoneStale` | `NothingStale` | `~Backdated` |
| `LegsStayApart` | `OneOrderPerLeg` | `~Backdated` |

`~Backdated` is the configuration of the runs: the owner steps no session older than a
stepped one. The code does not enforce it (`league.py` l. 854 looks only at the date itself)
and it is necessary; section 5 says what happens otherwise.

`LeagueSteps` first reduces the actions to what they do to orders, fills and the
transaction (`Outside`, `Opens`, `Prepares`, `LooksUp`, `Handles`, `Marks`, `Generates`,
`Commits`, `RollsBack`); each part of an invariant is then proved once for each of these.
A rollback makes the invariants speak of the saved copy as well as of the book
(`BookMatched`, `WaitingInTx`). `BooksClosed` needs that the orders a step has still to
look at are pending and due (`TodoDue`), or an order could be filled twice. `OneOrderPerLeg`
is far from inductive: a rerun returns the last session's filled orders to pending, so
the legs must be apart among the orders that are pending *or that a rerun would revive*
(`Alive`), except for the orders that session generated itself, which a rerun deletes
(`LegsApart`).

### LeagueLedgerProofs

For every set of names, bars, signals, tickets, dividends and terms, and every number of
sessions and orders, in a book whose owner steps sessions in order (`~Backdated`) and settles
names up to the last step (`~SettleAhead`), which is the configuration of the runs. The code
enforces neither (`league.py` l. 854, `settle.py` l. 324), and every theorem of the table is
a statement about such books only: without the assumptions `ReplayExact` fails (section 5).

| Theorem | States | Assumes |
|---|---|---|
| `LedgerSound` | `BooksInv /\ WaitingInv /\ LedgerInv`, the inductive invariant | `~Backdated`, `~SettleAhead` |
| `NoOverdraft` | `NeverOverdrawn` | `~Backdated`, `~SettleAhead` |
| `ReplayIsExact` | `ReplayExact` | `~Backdated`, `~SettleAhead` |
| `DividendsExact` | `EntitlementExact` | `~Backdated`, `~SettleAhead` |
| `HonestFills` | `FillsHonest` | `~Backdated`, `~SettleAhead` |
| `RerunSound` | `RerunInv /\ HonestInv`, the inductive invariant of the rerun | `~Backdated`, `~SettleAhead` |
| `RerunsReproduce` | `RerunReproduces` | `~Backdated`, `~SettleAhead` |

`Replay` folds `ReplayDay` over the sessions, with an order of events inside each; a book
is changed by events that are inserted at the end (a fill), a few sessions back (a late
dividend) or anywhere (a settlement), and a rerun removes those of one session and takes
the replay for the new book. The proof first shows that the order does not matter to the
result: `ReplayMeans` says that the fold's cash, positions and position rows at the close of
d are sums over *all* the events of what each has contributed by then (`Money`, `Shares`,
`Rows`), and that it accepts every fill, provided the book is `Solvent`: at no close is
`Money` below zero and on no session are the shares before its buys (`OpenShares`) below
zero. It is an induction on the sessions, with the closes as a function whose existence is
proved first (`ClosesExist`).

`LedgerInv` then speaks of sums alone. `Ledger` says that the records have their types, that
none is later than the last session (`Placed`), that the book is `Solvent`, shows what the
records add up to (`Balanced`) and was paid each dividend once, for the shares before the
ex-date (`PaidOnce`). Solvency has to hold at *every* past session, because every event can
be followed by a retroactive one:

* a fill is at the last session (`FillKeeps`). A sell is no more than what is held and comes
  before the buys of its session, a buy is within the cash: scaled to the budget, then cut
  to the cash (`BuyQtyMeans`). That the buys put off to the last phase are still liquid and
  their total positive is `BuysReady`.
* a settlement takes away, from its effective date on, shares that later sessions may
  have sold. It cannot: the name has no bar from that date on, so nothing was traded in it
  since and what is held now was held then (`DeadSince`). A settlement changes only position
  rows that exist, so `Placed` keeps that the settled name has one.
* a dividend only adds cash (`CreditsKeep`); its entitlement is `Shares` at the close before,
  which the replay projects (`EntitledMeans`). A sell in the session of the step moves no
  earlier close, and a name that is sold was received before (`TradeUnpaid`).
* a rerun removes the fills and dividends of the last session; the settlements stay, and what
  was solvent with the removed events is solvent without (`WithoutLast`, `RerunKeeps`).
* a rollback brings back a copy that is a `Ledger` of its own (`LedgerInTx`); bars collected
  since do no harm (`LedgerLater`).

`HonestFills` is inductive relative to this: a collected bar never replaces a printed one,
and the rerun's clean-up keeps the order of every fill it keeps.

`RerunsReproduce` compares two runs of a session of which only the result of the first is
stored. Its invariant therefore describes that result as the only one possible. `Redo` says
that the fills, dividends and close-outs of the last session d are what a step of d makes of
the rest of the book: each sell is its order cut to the shares held after the sells with
smaller ids, each buy is scaled by the total of the bids and the cash before the first buy,
then cut to the cash after the buys before it (`SellsPlanned`, `BuysPlanned`); every order left
pending has no bar (`Barless`); every dividend of the window is paid and no silent name is
still held (`Prepared`). `PlanInv` builds this up phase by phase (`Selling`, `Buying`) and
keeps it while the data stays, whatever is submitted, cancelled, stepped or rolled back.
`FollowInv` is then a simulation: at each phase the book of a rerun is the saved book
without the fills its remaining orders (`tx.todo`, `tx.buys`) still have to make, and the
next order finds exactly the shares and the cash it found the first time, because the orders
are taken in the order of their ids. `ReasonsInv` (an order that is pending or filled has no
reason) carries the premise about refused orders back to the saved book. The two premises of
`RerunReproduces` are the two cases in which the property is false; section 5 lists both,
and the second was found by this proof. TLC checked `RerunInv` on the instances of the three
league runs before it was proved.

### ReleaseDeployProofs

For every set of runtime links and unit files, list of migrations whose receipts are named unlike the
tool's own steps (the code prefixes them with `migration-`), and number of writes and
faults:

| Theorem | States |
|---|---|
| `ReleaseSound` | `ReleaseInv`, the inductive invariant |
| `ReleaseTyped` | `TypeOK` |
| `WritesKept` | `NoWriteLost` |
| `HostSound` | `HostInv`, a second inductive invariant |
| `ProducersSafe` | `ProducersOnOneRelease` |
| `OutcomesTrue` | `OutcomeTrue` |

`ReleaseInv == TypeOK /\ ToolFits /\ Identities /\ RollbackOrder /\ Copies`. A rollback puts
an old backup over the live database, so `NoWriteLost` depends on what the database held
when the incident image was taken and on what ran since. `Copies` says that the backup's
writes and, until the restore is complete, the live database's are in the incident image.
It is kept because the producers are stopped from that image to the restore, which has to be
known in two ways: while a rollback runs, from the step it is at (`ToolFits`), and when it
was cut off, from the receipts and the phase (`RollbackOrder`): no command but rollback is
admitted from "rolling-back", so nothing starts producers until a rollback has passed
restore-database. A completed restore is skipped, which is why its receipt must not be
rewritten (`ToolFits`: it is "running" wherever the step acts) and why writes made after it
are safe.

The actions are reduced to what they do to the writes: `Calm` changes neither the
writes nor the activation, `Switched` starts or stops producers, `Replaced` puts another
database in place; `Torn` and the compensation are covered by `CutShort`. `Places` says
which command each step belongs to, for any list of migrations in the middle of apply.

`HostInv == ForwardTrue /\ BackTrue /\ Ordered /\ PhaseTrue /\ Accounted /\ Stands /\
ProducersOnOneRelease` ties the receipts to the host. A command trusts receipts and never
looks at the whole host again, so "producers run over one release" holds exactly if the
receipts cannot lie:

* `ForwardTrue`: until a rollback is begun, a step of apply without a receipt has left no
  effect and one that has acted has left all of it; a step that was tried and not finished
  is not spoken of, and nothing is started while there is one;
* `BackTrue`: what a rollback's completed steps have undone stays undone;
* `Ordered`: no step is begun before the receipts it rests on, which is what makes
  restore-source safe although it resets the files restore-artifacts lays out;
* `PhaseTrue`: the phases that admit verify, abort and resume have the receipts those
  commands rely on;
* `Accounted`: the backup is of the original schema; a link that is not the prior one is
  in the state file, so a rollback finds it; changed unit files are recorded, or the
  installation was begun and never completed (killed, or its recording raised), which is
  the exception `OutcomeTrue` makes;
* `Stands`: the steps a running command has passed are complete, and the producers are
  stopped while it moves the host (`StepOfApply`, `StepOfRollback` say what each step
  may therefore rely on).

A receipt is adopted when the effect is found on the host; `HostAdopted` shows that what
`Reconciled` looks at is enough. `Damaged` says what a step that is cut off can have
changed, in one formula for all steps, so that `HostCutOff` covers crashes and failures.
TLC checked `HostInv` before it was proved, with up to four faults and with no migration.

### AccountEngineProofs

For every set of accounts, finite set of names, number of sessions and orders, volume
limit and set of client orders with known types and positive whole quantities
(`AccountAssumption`: what `submit_intent` lets in):

| Theorem | States |
|---|---|
| `AccountsSound` | `AccountInv`, the inductive invariant |
| `AccountsTyped` | `TypeOK` |
| `LedgerAlwaysReplays` | `LedgerReplays` |
| `LiquidityShared` | `AggregateLiquidity` |
| `FrozenOnlyShrinks` | `OnlyShrinks` |

`AccountInv` adds to the properties that an order is filled exactly if it has shares and
never beyond its quantity, that forced orders are closes, that only closed sessions have
fills and that retired accounts are flat. Only a settlement changes fills; the other
actions append unfilled orders, change states or the status, and carry a `GoodBook` to a
`GoodBook` (`GrowsGood`, `StepInv`).

A settlement is a fold over a whole history, and late bars make it execute orders between
stored fills, so no property of the last event suffices. `FoldInv(a, S, acc)` says what
holds of the accumulator after the first events S of account a: events not yet reached are
as stored, stored fills have kept their quantity, a new fill is one whose bar is there and
which `_liquidity_refusals` let through, and the position is the sum of the fills of S;
unless a fill did not apply, every fill fits the position before it, and the position of a
frozen account is between zero and what the stored fills of S alone make it. `FoldStep`
proves it for one more event, `FoldHolds` for all of them. The last clause is the argument for `OnlyShrinks`: margin
calls, buy-ins and retirement closes are queued independently and may together exceed the
position, but a new fill of a frozen account is a forced close, the cap of
`_available_close_quantity` and `apply_fill` keep it from passing zero at its place, and a
later stored fill that it leaves too little for makes the whole settlement fail. For
`AggregateLiquidity` the volume `Used` in order of receipt bounds what this account's fills
can add to what is stored (`Existing`), whichever accounts were settled before.

`Used` and `Folds` are recursive functions. That they exist is an induction of its own
(`UsedExists`, `FoldsOnSmall`), on the number of orders and on the size of the set of
events; `Latest` is well defined because `Before` is a strict total order (`BeforeOrder`).
TLC checked `AccountInv` on the bounds of the `account_engine` run before it was proved.

### SumTheorems

`Sums` writes a sum as a recursive function on positions. Its lemmas (`SumsExist`,
`PartialSums`, `TotalGrows`, `SameGain`, `TotalMoves`, `TotalZero`) say that the sum
exists and what one changed or appended element does to it. They are inductions; the
library's induction rule takes an operator and cannot be used, so `Least` derives a least
element of a set of naturals from the well-foundedness of `<`, and each lemma considers the
least position at which it fails. The sum over a finite set picks its elements in a fixed
but unknown order; `SubsetSumsStep` shows that the order does not matter, by induction on the
number of elements, and `SumAdd`, `SumUnion`, `SumSame`, `SumLeq`, `SumZero` and `SumImage`
follow.

### Model-checked only

* `DrainTerminates`, `RollbackCompletes`: liveness under fairness is out of the prover's
  reach.

Every invariant and every action property of the passing runs is stated by a theorem.

## 5. Observations

Made while modelling, and not kept as runs. Those marked † can be reproduced with the
definitions in the modules.

*Queue and league.*

* † A drain marks each row of its snapshot running without reading its state again, so a
  row superseded after the snapshot is run all the same (`queue_runner.py` l. 990, against
  the docstring l. 47–48): `SupersededStays` with `IntradayBehindEarnings`.
* † The child of a killed drain survives it and overlaps the re-run of its reclaimed row
  (l. 1113 against l. 1063–1071): `OneWorker`.
* † `step()` refuses a date that has equity rows, not one older than the last step; a
  skipped session stepped afterwards with `--date` sells shares bought later and every
  later rebuild stops (`league.py` l. 854): `Backdated = TRUE`, `ReplayExact`.
* † A buy rejected as dust still took part in the pro-rata scale, so rerunning its session
  does not reproduce it (`league.py` l. 280, 702): `RerunExact`.
* † A dividend whose ex-date is the session that closes its name out as delisted is credited
  before the close-out, which takes effect some sessions earlier. A rerun of the session
  deletes the dividend (`league.py` l. 750) and keeps the close-out, so the name counts as
  gone before the ex-date and the dividend is not credited again: `RerunExact` with a
  dividend on that session.
* † A settlement booked for a date after the last session, then a rerun of that session
  (`settle.py` l. 324): `SettleAhead = TRUE`, `ReplayExact`.
* The sweep also returns the row of a *live* backfill to pending, and the drain then fails
  it for want of a dispatch entry (l. 1113).
* `_drain_rows` refuses only the first oversized row of a parallel run (l. 1247); a second
  one is marked running and returned to pending when the budget expires.
* `step()` tells an operator to "Re-run from the latest date backwards", but rerunning the
  latest date writes its equity row again, so the older date stays refused.

*Accounts.*

* † An account can be wedged: a margin call for the open of session d waits for d's late
  bar, the position is closed at d+1 by a buy-in or a retirement, and when d's bar arrives
  the margin call executes before the stored fill. Every fold then fails on that fill; a
  halt does not cancel the forced order and its cancellation window is over. (`Settle` is
  never enabled again; `LedgerReplays` holds, because nothing is committed.)
* A "retiring" account that `halts.check` halts stays halted when it becomes flat:
  `finalize_retirement` asks for "retiring".
* `cancel` also cancels a retirement or margin-call order before its cutoff, and a
  retirement close may be refused as illiquid; either leaves the account retiring, and a
  second `retire` only replays the first.
* An auction or next-open order whose bar never arrives stays queued for ever.

*Broker and authority.*

* An order of the plan that fills before it is cancelled leaves the stop "started" for
  ever, which blocks other stops; an uncertain cancellation has no resolution procedure.
* † Two overlapping runs of one halt key may both ask the venue to cancel an order: the second
  read its states before the first one's acknowledgement, `begin_cancellation` then returns
  "acknowledged", which the caller ignores (`broker_emergency_stop.py` l. 354–362), against
  "cancel every stable open order exactly once" (l. 407). The second request follows the
  acknowledgement and finds the order ended (`RepeatOnlyAcknowledged`): `cancelCalls[k] <= 1`
  fails in the scene of two runs.
* A run that resumes a start recorded by a later run of the same key completes it with its own,
  earlier `occurred_at`; `emergency_stop_events` then refuses the two events as invalid
  (`broker_ledger.py` l. 755–812; timestamps are not modelled).
* † `acknowledge_submission` does not look for a resolution: a late answer acknowledges a key
  adjudicated meanwhile, and the retained resolution is refused from then on with "has no
  uncertain attempt" (l. 1587). It concerns only `unsettled` keys.
* `submit_once` does not look at the halts: an order may be sent, or land, after a
  completed stop.
* A key adjudicated as open blocks `assess` for ever; an adjudication made while the call
  could still land may be overtaken by the order (`unsettled`).
* `_verify_inputs` compares three values with a chained `a != b != c`
  (`broker_paper_consumption_store.py` l. 526), which is weaker than it reads.
* Two live processes may each hold an open epoch; `OneOpenEpoch` is per process.
* The startup scan keeps the order in which leases were activated
  (`broker_paper_startup_store.py` l. 476, 490) and `build_plan` demands ascending ids
  (`broker_paper_activation_plan.py` l. 247): once a smaller id was activated after a larger
  one, no lease of the account can be activated any more (`AscendingLeases` stays false).

*Release.* `Recoverable` names the states a begun rollback cannot leave:

* a crash between the receipt of create-backup and the saved state, or before
  capture-artifacts: apply is refused, abort asks for rollback, rollback finds no bundle;
* `restore-runtimes` completes the state file that its own receipt is bound to, so a retry
  after a crash is refused with "receipt inputs changed";
* a link removed and not yet replaced, and a torn rollback snapshot, refuse every retry;
* a rollback begun from "resuming" after the checkout moved on.

Also: an installer killed before its changes are recorded, or whose recording raises in the
`finally` (l. 1724–1727; receipt "failed"), leaves unit files that a rollback does not remove;
a resume on the approved commit is not refused (section 2); an incomplete identity directory blocks apply (not
rollback); "preparing" is a dead end; a crash right after the installer leaves producers
running on the unverified release in phase "applying". `create_backup` compares the
snapshot with the database file's time stamp, not the write-ahead log's (not modelled).

## 6. Plan

Done: all components of section 2 with their runs; the proofs of the queue's, the
authority's and the broker ledger's safety properties, of the league's orders, fills,
cash, positions, dividends and reruns, of the release transaction's safety and of the
accounts' positions and volume. Next, in order:

1. **Abstract ledger.** An event set and a balance, which `PaperLeague` and
   `AccountEngine` both refine.
2. **Splits** (`engine/actions.py`, `engine/accounts/actions.py`), the lane protocol
   (`tools/lane.py`) and `engine/job_resolutions.py`.

Not modelled and not planned: strategies, screens, statistics and the research farm
(numeric), risk gates (thresholds over read-only state), read models and the dashboard
(read-only), collectors beyond their effect on the tables (I/O), the shadow-agent
recorders (no order reaches a book from them), human approvals (evidence an activation is
given), `archive/` (retired) and `data/` (generated). These make up most of the
repository's lines, so the modules map a small share of it; the mapped part is where
persistent state meets concurrency, crashes and late data.

--------------------------- MODULE PaperAuthority ---------------------------
(***************************************************************************)
(* Bounded authority for automatic paper orders (src/server/broker_paper_  *)
(* *.py).  A lease is activated once, under the halt-chain anchor and the  *)
(* runtime epoch of the process that activates it; each order spends part  *)
(* of the lease in the same transaction that marks the broker submission   *)
(* as started.  The retention table is append-only and hash-chained, so it *)
(* is a sequence here, and a trusted head is its length.                   *)
(*                                                                         *)
(* Several threads of several processes work from evidence they read       *)
(* earlier: a startup scan, a loaded usage.  In between the halt chain may *)
(* advance, a lease or a risk evaluation may expire, a process may restart *)
(* with a new epoch, another thread may append, and submit_once may start  *)
(* the same idempotency key.                                               *)
(***************************************************************************)
EXTENDS Naturals, Sequences, FiniteSets, FiniteSetsExt, Sums

CONSTANTS
  Leases,         \* lease identifiers, numbered in their order as strings
  Keys,           \* idempotency keys
  Workers,        \* threads that activate and consume
  Procs,          \* processes
  ProcOf,         \* the process a thread belongs to
  max_orders,     \* orders a lease allows
  capital_ceiling,\* notional a lease allows
  Notionals,      \* notional of an order, at most max_order_notional
  MaxControl,     \* bound: halts recorded
  MaxEpochs       \* bound: process starts

ASSUME AuthorityAssumption ==
  /\ Leases \subseteq Nat
  /\ ProcOf \in [Workers -> Procs]
  /\ max_orders \in Nat \ {0}
  /\ capital_ceiling \in Nat \ {0}
  /\ Notionals \subseteq 1 .. capital_ceiling
  /\ MaxControl \in Nat \ {0} /\ MaxEpochs \in Nat
  /\ "none" \notin Keys

VARIABLES
  rows,        \* the authority retention table
  risk,        \* keys with a retained authority-aware risk evaluation
  intent,      \* keys with a broker_intents row
  started,     \* keys with a submission_started event
  control,     \* events in the operational halt chain
  epoch,       \* the runtime epoch of each process
  epochs,      \* runtime epochs drawn so far
  expired,     \* leases past their expires_at
  worker,      \* what each thread holds
  sender,      \* keys whose submit_once has recorded its decision
  called,      \* history: keys submit_once went on to call the adapter for
  rolledBack   \* history: keys whose complete commit failed its own check

vars == <<rows, risk, intent, started, control, epoch, epochs, expired,
          worker, sender, called, rolledBack>>

-----------------------------------------------------------------------------
(* Transcripts: the rows of one lease, by their positions in the table.    *)

Idle == [pc |-> "idle"]

RowsOf(l, rs) == {i \in DOMAIN rs : rs[i].lease = l}
Retained(l, rs) == RowsOf(l, rs) # {}
Activation(l, rs) == rs[Min(RowsOf(l, rs))]

\* _transcript_usage reads the events after the first.
Later(l, rs) == {i \in RowsOf(l, rs) : i # Min(RowsOf(l, rs))}

\* mutant of ConsumedNotional: the sum is not carried from order to order
NotionalNotCarried(l, rs) == Activation(l, rs).notional

\* _transcript_usage recomputes both counters from the events.
Consumptions(l, rs) == Cardinality(Later(l, rs))
ConsumedNotional(l, rs) ==
  Total([i \in DOMAIN rs |-> IF i \in Later(l, rs) THEN rs[i].notional ELSE 0])

\* verify_transcript, in its order of precedence.  No code writes revocations.
State(l, rs, ep, ctl, past) ==
  LET a == Activation(l, rs) IN
  IF ep # a.epoch THEN "invalidated_by_restart"
  ELSE IF ctl > a.control THEN "invalidated_by_halt"
  ELSE IF l \in past THEN "expired"
  ELSE IF \/ Consumptions(l, rs) >= max_orders
          \/ ConsumedNotional(l, rs) >= capital_ceiling THEN "exhausted"
  ELSE "open"

IsOpen(l, rs, ep, ctl, past) == State(l, rs, ep, ctl, past) = "open"

\* scan_startup: no retained epoch is open to this process now.
SafeClosed(rs, ep, ctl, past) ==
  \A l \in Leases : Retained(l, rs) => ~ IsOpen(l, rs, ep, ctl, past)

Init ==
  /\ rows = <<>>
  /\ risk = {} /\ intent = {} /\ started = {}
  /\ control = 1
  /\ epoch = [p \in Procs |-> 0]
  /\ epochs = 0
  /\ expired = {}
  /\ worker = [w \in Workers |-> Idle]
  /\ sender = {} /\ called = {} /\ rolledBack = {}

ledgerVars == <<intent, started, sender, called>>
clockVars == <<control, epoch, epochs, expired>>

-----------------------------------------------------------------------------
(* What goes on around the threads.                                        *)

\* A process starts: a fresh nonce makes a fresh epoch; its threads are gone.
ProcessStarts(p) ==
  /\ epochs < MaxEpochs
  /\ epochs' = epochs + 1
  /\ epoch' = [epoch EXCEPT ![p] = epochs + 1]
  /\ worker' = [w \in Workers |-> IF ProcOf[w] = p THEN Idle ELSE worker[w]]
  /\ UNCHANGED <<rows, risk, control, expired, ledgerVars, rolledBack>>

HaltRecorded ==
  /\ control < MaxControl
  /\ control' = control + 1
  /\ UNCHANGED <<rows, risk, epoch, epochs, expired, worker, ledgerVars, rolledBack>>

LeaseExpires(l) ==
  /\ l \notin expired
  /\ expired' = expired \union {l}
  /\ UNCHANGED <<rows, risk, control, epoch, epochs, worker, ledgerVars, rolledBack>>

-----------------------------------------------------------------------------
(* Activation.                                                             *)

\* runtime_epoch_sha256: the process has drawn its nonce.
Running(w) == epoch[ProcOf[w]] # 0

\* The scan lists the retained leases as they were activated; build_plan takes
\* the list only in ascending order.
AscendingLeases(rs) == \A l, m \in Leases :
  /\ Retained(l, rs) /\ Retained(m, rs)
  /\ Min(RowsOf(l, rs)) < Min(RowsOf(m, rs))
  => l < m

\* load_runtime_control, load_and_scan_startup and build_plan: a thread scans
\* the whole table and plans to activate a lease that was never retained.
PlanActivation(w, l) ==
  LET ep == epoch[ProcOf[w]] IN
  /\ worker[w].pc = "idle" /\ Running(w)
  /\ SafeClosed(rows, ep, control, expired) /\ AscendingLeases(rows)
  /\ ~ Retained(l, rows) /\ l \notin expired
  /\ worker' = [worker EXCEPT ![w] =
       [pc |-> "activate", lease |-> l, head |-> Len(rows), epoch |-> ep,
        control |-> control, fresh |-> TRUE]]
  /\ UNCHANGED <<rows, risk, clockVars, ledgerVars, rolledBack>>

\* mutant of HeadUnchanged: append to whatever is there
HeadUnchecked(w) == w \in Workers

\* record_activation compares the head with the plan's and appends.  It looks
\* at the age of the plan, not at the current epoch or halt chain.
HeadUnchanged(w) == Len(rows) = worker[w].head

MayActivate(w) ==
  /\ HeadUnchanged(w)
  /\ ~ Retained(worker[w].lease, rows)
  /\ worker[w].lease \notin expired /\ worker[w].fresh

RecordActivation(w) ==
  LET a == worker[w] IN
  /\ a.pc = "activate"
  /\ rows' = IF MayActivate(w)
             THEN Append(rows, [lease |-> a.lease, key |-> "none", notional |-> 0,
                                epoch |-> a.epoch, control |-> a.control])
             ELSE rows
  /\ worker' = [worker EXCEPT ![w] = Idle]
  /\ UNCHANGED <<risk, clockVars, ledgerVars, rolledBack>>

\* A plan grows older than MAX_ACTIVATION_EVIDENCE_AGE_SECONDS, a risk
\* evaluation passes its risk_expires_at.
EvidenceAges(w) ==
  /\ worker[w].pc # "idle" /\ worker[w].fresh
  /\ worker' = [worker EXCEPT ![w].fresh = FALSE]
  /\ UNCHANGED <<rows, risk, clockVars, ledgerVars, rolledBack>>

-----------------------------------------------------------------------------
(* Consumption.                                                            *)

\* The lease_budget gate of the eligibility and of the plan.
BudgetValid(l, n, rs) ==
  /\ Consumptions(l, rs) + 1 <= max_orders
  /\ ConsumedNotional(l, rs) + n <= capital_ceiling

\* load_open_usage, the eligibility, the risk evaluation and build_plan: the
\* lease is open, the key unused in its transcript and the budget sufficient.
PlanConsumption(w, l, k, n) ==
  LET ep == epoch[ProcOf[w]] IN
  /\ worker[w].pc = "idle" /\ Running(w)
  /\ Retained(l, rows) /\ IsOpen(l, rows, ep, control, expired)
  /\ \A i \in DOMAIN rows : rows[i].lease = l => rows[i].key # k
  /\ BudgetValid(l, n, rows)
  /\ worker' = [worker EXCEPT ![w] =
       [pc |-> "consume", lease |-> l, key |-> k, notional |-> n,
        head |-> Len(rows), epoch |-> ep, control |-> control, fresh |-> TRUE]]
  /\ UNCHANGED <<rows, risk, clockVars, ledgerVars, rolledBack>>

\* mutant of NoTrace: only the authority's own tables are searched
NoAuthorityTrace(k) == k \notin risk /\ \A i \in DOMAIN rows : rows[i].key # k

\* _exact_replay: nothing at all is retained for the key.
NoTrace(k) ==
  /\ \A i \in DOMAIN rows : rows[i].key # k
  /\ k \notin risk /\ k \notin started /\ k \notin intent

\* mutant of BindingCurrent: the plan's epoch, whatever the halt chain is now
EpochCurrent(w) == worker[w].epoch = epoch[ProcOf[w]]

\* _commit_new loads the runtime binding again.
BindingCurrent(w) ==
  worker[w].epoch = epoch[ProcOf[w]] /\ worker[w].control = control

MayConsume(w) ==
  /\ HeadUnchanged(w)
  /\ NoTrace(worker[w].key)
  /\ BindingCurrent(w)
  /\ worker[w].lease \notin expired /\ worker[w].fresh

ConsumptionRow(w) ==
  [lease |-> worker[w].lease, key |-> worker[w].key,
   notional |-> worker[w].notional, epoch |-> worker[w].epoch, control |-> control]

\* _verify_resulting_commit loads the usage of the resulting transcript, and
\* load_open_usage accepts an open epoch only.
ResultVerifies(w, rs) ==
  IsOpen(worker[w].lease, rs, worker[w].epoch, worker[w].control, expired)

\* record_pre_call: the authority row, the risk evaluation, the intent and
\* the started marker are retained together, or nothing is.
RecordPreCall(w) ==
  LET k == worker[w].key
      rs == Append(rows, ConsumptionRow(w)) IN
  /\ worker[w].pc = "consume"
  /\ worker' = [worker EXCEPT ![w] = Idle]
  /\ UNCHANGED <<clockVars, sender, called>>
  /\ \/ /\ MayConsume(w) /\ ResultVerifies(w, rs)
        /\ rows' = rs
        /\ risk' = risk \union {k}
        /\ intent' = intent \union {k}
        /\ started' = started \union {k}
        /\ UNCHANGED rolledBack
     \/ /\ MayConsume(w) /\ ~ ResultVerifies(w, rs)
        /\ rolledBack' = rolledBack \union {k}
        /\ UNCHANGED <<rows, risk, intent, started>>
     \/ /\ ~ MayConsume(w)
        /\ UNCHANGED <<rows, risk, intent, started, rolledBack>>

-----------------------------------------------------------------------------
(* submit_once on the same broker ledger (BrokerLedger has all of it).     *)

SubmitOnceRecords(k) ==
  /\ k \notin sender
  /\ sender' = sender \union {k}
  /\ intent' = intent \union {k}
  /\ UNCHANGED <<rows, risk, started, called, clockVars, worker, rolledBack>>

SubmitOnceBegins(k) ==
  /\ k \in sender /\ k \notin started
  /\ started' = started \union {k}
  /\ called' = called \union {k}
  /\ UNCHANGED <<rows, risk, intent, sender, clockVars, worker, rolledBack>>

-----------------------------------------------------------------------------
Next ==
  \/ \E p \in Procs : ProcessStarts(p)
  \/ HaltRecorded
  \/ \E l \in Leases : LeaseExpires(l)
  \/ \E w \in Workers, l \in Leases : PlanActivation(w, l)
  \/ \E w \in Workers, l \in Leases, k \in Keys, n \in Notionals :
       PlanConsumption(w, l, k, n)
  \/ \E w \in Workers : RecordActivation(w) \/ EvidenceAges(w) \/ RecordPreCall(w)
  \/ \E k \in Keys : SubmitOnceRecords(k) \/ SubmitOnceBegins(k)

Spec == Init /\ [][Next]_vars

-----------------------------------------------------------------------------
(* Correctness.                                                            *)

Row == [lease : Leases, key : Keys \union {"none"}, notional : Notionals \union {0},
        epoch : 1 .. MaxEpochs, control : 1 .. MaxControl]

TypeOK ==
  /\ rows \in Seq(Row)
  /\ risk \subseteq Keys /\ intent \subseteq Keys /\ started \subseteq Keys
  /\ control \in 1 .. MaxControl
  /\ epoch \in [Procs -> 0 .. MaxEpochs] /\ epochs \in 0 .. MaxEpochs
  /\ expired \subseteq Leases
  /\ sender \subseteq Keys /\ called \subseteq Keys /\ rolledBack \subseteq Keys

\* However threads interleave, no lease spends more orders or more notional
\* than it grants.
WithinLease == \A l \in Leases :
  LET spent == {i \in DOMAIN rows : rows[i].lease = l /\ rows[i].key # "none"} IN
  /\ Cardinality(spent) <= max_orders
  /\ Total([i \in DOMAIN rows |-> IF i \in spent THEN rows[i].notional ELSE 0])
       <= capital_ceiling

\* A lease is activated once and first; every later order of it was committed
\* by the process start and under the halt anchor it was activated with.
SpentUnderItsAnchor == \A i \in DOMAIN rows :
  LET a == Activation(rows[i].lease, rows) IN
  /\ a.key = "none"
  /\ rows[i].epoch = a.epoch /\ rows[i].control = a.control
  /\ rows[i].key = "none" => rows[i] = a /\
       \A j \in DOMAIN rows : rows[j] = a => j = i

\* A key is spent by at most one lease, once, with its risk evaluation and
\* its started marker, and submit_once never calls the adapter for it.
SpentKeysApart ==
  LET spent == {i \in DOMAIN rows : rows[i].key # "none"}
      keys == {rows[i].key : i \in spent} IN
  /\ Cardinality(keys) = Cardinality(spent)
  /\ keys = risk /\ keys \subseteq started
  /\ keys \intersect called = {}

\* At most one lease is open to a process at a time.
OneOpenEpoch == \A p \in Procs :
  Cardinality({l \in Leases :
    Retained(l, rows) /\ IsOpen(l, rows, epoch[p], control, expired)}) <= 1

\* An order the plan accepts and whose evidence is still current when it is
\* recorded is retained.
PlannedOrdersCommit == rolledBack = {}
=============================================================================

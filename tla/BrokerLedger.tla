---------------------------- MODULE BrokerLedger ----------------------------
(***************************************************************************)
(* The broker ledger of src/server: an order crosses from this program to  *)
(* a venue through submit_once, an order nobody knows the fate of is       *)
(* adjudicated by resolve_uncertain, every open order is withdrawn by      *)
(* cancel_all_and_halt, and startup_readiness.assess says whether ledger   *)
(* and venue agree.  The ledger's tables survive every crash; a process is *)
(* its position in the code and its local variables, and may vanish        *)
(* between any two transactions or venue calls.  Each db.transaction and   *)
(* each venue call is one step.                                            *)
(*                                                                         *)
(* Several processes may run the stop for the same halt key: nothing in    *)
(* the code keeps an operator, or a supervisor, from running it again      *)
(* while an earlier run is still at work.                                  *)
(*                                                                         *)
(* An order's terms never change, so an order is its idempotency key; of   *)
(* its state the venue keeps how far it is filled and whether it is open.  *)
(* A risk decision stands for the request it is bound to.                  *)
(***************************************************************************)
EXTENDS Naturals, FiniteSets

CONSTANTS
  Keys,          \* idempotency keys
  Callers,       \* processes running submit_once
  Halts,         \* halt keys
  Runs,          \* runs of the stop for one halt key that may overlap
  Decisions,     \* risk decisions callers may hold
  Passing,       \* the decisions whose status is pass
  Qty            \* an order's quantity, in units that fill one at a time

ASSUME LedgerAssumption ==
  /\ Passing \subseteq Decisions
  /\ Qty \in Nat \ {0}
  /\ "none" \notin Decisions

VARIABLES
  decision,      \* broker_risk_decisions (and broker_intents): by key
  sub,           \* broker_submission_events: state by key
  resolution,    \* broker_submission_resolutions: outcome by key
  halts,         \* broker_risk_control_events: halt keys recorded
  stop,          \* broker_emergency_stop_events: state by halt key
  planned,       \* its start event's orders: filled quantity by key
  cancel,        \* broker_cancellation_events: state by halt key and key
  wire,          \* submit requests on their way to the venue
  venue,         \* the venue's orders
  expired,       \* decisions whose expires_at has passed
  caller,        \* submit_once
  resolver,      \* resolve_uncertain
  stopper,       \* cancel_all_and_halt
  assessor,      \* startup_readiness.assess
  calls,         \* history: submit_order calls, by key
  cancelCalls,   \* history: cancel_order calls, by key
  unsettled      \* history: keys whose call could still land when the
                 \* resolver that adjudicated them began to read

tables == <<decision, sub, resolution, halts, stop, planned, cancel>>
outside == <<wire, venue, expired>>
procs == <<caller, resolver, stopper, assessor>>
history == <<calls, cancelCalls, unsettled>>
vars == <<tables, outside, procs, history>>

-----------------------------------------------------------------------------
(* Processes and what they read.                                           *)

AbsentOrder == [status |-> "absent", filled |-> 0]

Outcomes == {"observed_open", "observed_filled",
             "observed_terminal_partial_fill", "not_observed_burned"}

\* A process running cancel_all_and_halt, and its halt key
Stoppers == Halts \X Runs
HaltOf(p) == p[1]

IdleCaller == [pc |-> "idle"]
IdleReader == [pc |-> "idle"]

IsOpen(k) == venue[k].status = "open"
OpenKeys == {k \in Keys : IsOpen(k)}

\* adapter.get_open_orders: the open orders with how far each is filled
OpenOrders == [k \in OpenKeys |-> venue[k].filled]

\* adapter.stream_fills: the quantity filled so far, by key
Fills == [k \in Keys |-> venue[k].filled]

\* A call for k is under way: a live caller has committed its start and not
\* yet the outcome, or the request is still travelling.
CallPending(k) ==
  \/ k \in wire
  \/ \E c \in Callers : caller[c].pc \in {"call", "wait", "ack"} /\ caller[c].key = k

AnyUncertainCancel == \E h \in Halts, k \in Keys : cancel[h][k] = "uncertain"

OtherStarted(h) == \E g \in Halts \ {h} : stop[g] = "started"
AnyStarted == \E g \in Halts : stop[g] = "started"

Init ==
  /\ decision = [k \in Keys |-> "none"]
  /\ sub = [k \in Keys |-> "none"]
  /\ resolution = [k \in Keys |-> "none"]
  /\ halts = {}
  /\ stop = [h \in Halts |-> "none"]
  /\ planned = [h \in Halts |-> <<>>]
  /\ cancel = [h \in Halts |-> [k \in Keys |-> "none"]]
  /\ wire = {}
  /\ venue = [k \in Keys |-> AbsentOrder]
  /\ expired = {}
  /\ caller = [c \in Callers |-> IdleCaller]
  /\ resolver = IdleReader
  /\ stopper = [p \in Stoppers |-> IdleReader]
  /\ assessor = IdleReader
  /\ calls = [k \in Keys |-> 0]
  /\ cancelCalls = [k \in Keys |-> 0]
  /\ unsettled = {}

-----------------------------------------------------------------------------
(* submit_once.                                                            *)

\* mutant of DecisionStands: a later decision replaces the first
DecisionReplaced(k, d) == d \in Decisions

\* record_risk_decision keeps the first decision of a key, raises on another.
DecisionStands(k, d) == decision[k] \in {"none", d}

\* The first transaction.  submitted_at was read before it.
SubmitOnce(c, k, d) ==
  /\ caller[c].pc = "idle"
  /\ DecisionStands(k, d)
  /\ decision' = [decision EXCEPT ![k] = d]
  /\ caller' = [caller EXCEPT ![c] =
       [pc |-> "begin", key |-> k, late |-> d \in expired]]
  /\ UNCHANGED <<sub, resolution, halts, stop, planned, cancel>>
  /\ UNCHANGED <<outside, resolver, stopper, assessor, history>>

\* mutant of MayBegin: an uncertain submission is started again
MayBeginAgain(c) ==
  /\ sub[caller[c].key] # "acknowledged"
  /\ decision[caller[c].key] \in Passing
  /\ ~ caller[c].late

\* The second transaction goes on only for a key never started, under a
\* decision that passes and had not expired when the call came in.
MayBegin(c) ==
  /\ sub[caller[c].key] = "none"
  /\ decision[caller[c].key] \in Passing
  /\ ~ caller[c].late

BeginSubmission(c) ==
  /\ caller[c].pc = "begin" /\ MayBegin(c)
  /\ sub' = [sub EXCEPT ![caller[c].key] = "uncertain"]
  /\ caller' = [caller EXCEPT ![c].pc = "call"]
  /\ UNCHANGED <<decision, resolution, halts, stop, planned, cancel>>
  /\ UNCHANGED <<outside, resolver, stopper, assessor, history>>

\* It returns the retained order, or raises, in every other case.
DeclineSubmission(c) ==
  /\ caller[c].pc = "begin" /\ ~ MayBegin(c)
  /\ caller' = [caller EXCEPT ![c] = IdleCaller]
  /\ UNCHANGED <<tables, outside, resolver, stopper, assessor, history>>

CallAdapter(c) ==
  /\ caller[c].pc = "call"
  /\ wire' = wire \union {caller[c].key}
  /\ calls' = [calls EXCEPT ![caller[c].key] = @ + 1]
  /\ caller' = [caller EXCEPT ![c].pc = "wait"]
  /\ UNCHANGED <<tables, venue, expired, resolver, stopper, assessor>>
  /\ UNCHANGED <<cancelCalls, unsettled>>

AdapterReplies(c) ==
  /\ caller[c].pc = "wait"
  /\ caller[c].key \notin wire /\ venue[caller[c].key].status # "absent"
  /\ caller' = [caller EXCEPT ![c].pc = "ack"]
  /\ UNCHANGED <<tables, outside, resolver, stopper, assessor, history>>

\* acknowledge_submission asks for a started submission, not for the absence
\* of a resolution.
AcknowledgeSubmission(c) ==
  /\ caller[c].pc = "ack" /\ sub[caller[c].key] # "none"
  /\ sub' = [sub EXCEPT ![caller[c].key] = "acknowledged"]
  /\ caller' = [caller EXCEPT ![c] = IdleCaller]
  /\ UNCHANGED <<decision, resolution, halts, stop, planned, cancel>>
  /\ UNCHANGED <<outside, resolver, stopper, assessor, history>>

\* The process exits, or the adapter raises, whether or not the venue got it.
CallerDies(c) ==
  /\ caller[c].pc # "idle"
  /\ caller' = [caller EXCEPT ![c] = IdleCaller]
  /\ UNCHANGED <<tables, outside, resolver, stopper, assessor, history>>

-----------------------------------------------------------------------------
(* The venue, modelled from how the adapter contract and the simulator     *)
(* adapter describe it.                                                    *)

\* A key the venue knows returns its order; the venue may also refuse.
VenueReceives(k) ==
  /\ k \in wire
  /\ wire' = wire \ {k}
  /\ venue' \in {venue, [venue EXCEPT ![k] =
       IF venue[k] = AbsentOrder THEN [status |-> "open", filled |-> 0] ELSE @]}
  /\ UNCHANGED <<tables, expired, procs, history>>

VenueFills(k) ==
  /\ IsOpen(k)
  /\ venue' = [venue EXCEPT ![k] =
       [status |-> IF venue[k].filled + 1 = Qty THEN "filled" ELSE "open",
        filled |-> venue[k].filled + 1]]
  /\ UNCHANGED <<tables, wire, expired, procs, history>>

\* The order ends unfilled at the venue, with nothing told to this program.
VenueExpires(k) ==
  /\ IsOpen(k)
  /\ venue' = [venue EXCEPT ![k].status = "cancelled"]
  /\ UNCHANGED <<tables, wire, expired, procs, history>>

DecisionExpires(d) ==
  /\ d \notin expired
  /\ expired' = expired \union {d}
  /\ UNCHANGED <<tables, wire, venue, procs, history>>

-----------------------------------------------------------------------------
(* resolve_uncertain: capture_snapshot reads the open orders, then the     *)
(* fills, and both again.                                                  *)

\* A key already resolved is a replay and changes nothing.
ResolveStart(k) ==
  /\ resolver.pc = "idle"
  /\ sub[k] = "uncertain" /\ resolution[k] = "none"
  /\ resolver' = [pc |-> "fills", key |-> k, orders |-> OpenOrders,
                  settled |-> ~ CallPending(k)]
  /\ UNCHANGED <<tables, outside, caller, stopper, assessor, history>>

ResolveReadFills ==
  /\ resolver.pc = "fills"
  /\ resolver' = [pc |-> "orders again", key |-> resolver.key,
                  orders |-> resolver.orders, fills |-> Fills,
                  settled |-> resolver.settled]
  /\ UNCHANGED <<tables, outside, caller, stopper, assessor, history>>

\* mutant of SameOrdersAgain: one read is enough
OneReadEnough == TRUE

\* The second read of the orders must find what the first one found.
SameOrdersAgain == OpenOrders = resolver.orders

ResolveReadOrdersAgain ==
  /\ resolver.pc = "orders again"
  /\ resolver' = IF SameOrdersAgain THEN [resolver EXCEPT !.pc = "fills again"]
                                    ELSE IdleReader
  /\ UNCHANGED <<tables, outside, caller, stopper, assessor, history>>

ResolveReadFillsAgain ==
  /\ resolver.pc = "fills again"
  /\ resolver' = IF Fills = resolver.fills THEN [resolver EXCEPT !.pc = "record"]
                                           ELSE IdleReader
  /\ UNCHANGED <<tables, outside, caller, stopper, assessor, history>>

Classification(k, orders, fills) ==
  IF k \in DOMAIN orders THEN "observed_open"
  ELSE IF fills[k] = Qty THEN "observed_filled"
  ELSE IF fills[k] > 0 THEN "observed_terminal_partial_fill"
  ELSE "not_observed_burned"

\* An open order whose own count of fills disagrees with them is refused.
EvidenceAgrees(k, orders, fills) ==
  k \in DOMAIN orders => orders[k] = fills[k]

\* record_submission_resolution: only for a key still uncertain and not yet
\* resolved, on an account with a recorded halt.
MayResolve ==
  /\ sub[resolver.key] = "uncertain" /\ resolution[resolver.key] = "none"
  /\ halts # {}
  /\ EvidenceAgrees(resolver.key, resolver.orders, resolver.fills)

RecordResolution ==
  /\ resolver.pc = "record" /\ MayResolve
  /\ resolution' = [resolution EXCEPT ![resolver.key] =
       Classification(resolver.key, resolver.orders, resolver.fills)]
  /\ unsettled' = IF resolver.settled THEN unsettled
                                      ELSE unsettled \union {resolver.key}
  /\ resolver' = IdleReader
  /\ UNCHANGED <<decision, sub, halts, stop, planned, cancel>>
  /\ UNCHANGED <<outside, caller, stopper, assessor, calls, cancelCalls>>

ResolverGivesUp ==
  /\ resolver.pc # "idle"
  /\ resolver' = IdleReader
  /\ UNCHANGED <<tables, outside, caller, stopper, assessor, history>>

-----------------------------------------------------------------------------
(* cancel_all_and_halt.  Its snapshots are two reads of the open orders    *)
(* that must agree.  Timestamps are left out: an event recorded a second   *)
(* time is an exact replay only in the same instant, so both outcomes are  *)
(* possible.                                                               *)

Stopper(p, r) ==
  /\ stopper' = [stopper EXCEPT ![p] = r]
  /\ UNCHANGED <<caller, resolver, assessor>>

\* A step that only moves the run p.
StopperMoves(p, r) == Stopper(p, r) /\ UNCHANGED <<tables, outside, history>>

\* The run returns or raises; what it recorded stays.
StopRaises(p) == StopperMoves(p, IdleReader)

\* record_halt, idempotent for its key.
RecordHalt(p) ==
  /\ stopper[p].pc = "idle"
  /\ halts' = halts \union {HaltOf(p)}
  /\ Stopper(p, [pc |-> "start"])
  /\ UNCHANGED <<decision, sub, resolution, stop, planned, cancel>>
  /\ UNCHANGED <<outside, history>>

\* _start_events: an operation already started is resumed with the events
\* read here; a new one needs no other in progress and no cancellation of
\* unknown fate.
StartEvents(p) ==
  LET h == HaltOf(p) IN
  /\ stopper[p].pc = "start"
  /\ \/ /\ stop[h] # "none"
        /\ StopperMoves(p, [pc |-> "states", done |-> stop[h] = "completed"])
     \/ /\ stop[h] = "none" /\ ~ AnyStarted /\ ~ AnyUncertainCancel
        /\ StopperMoves(p, [pc |-> "first look"])
     \/ /\ stop[h] = "none" /\ (AnyStarted \/ AnyUncertainCancel)
        /\ StopRaises(p)

LookInitial(p) ==
  /\ stopper[p].pc = "first look"
  /\ StopperMoves(p, [pc |-> "initial", seen |-> OpenOrders])

CaptureInitial(p) ==
  /\ stopper[p].pc = "initial"
  /\ \/ /\ OpenOrders = stopper[p].seen
        /\ StopperMoves(p, [pc |-> "record start", seen |-> stopper[p].seen])
     \/ OpenOrders # stopper[p].seen /\ StopRaises(p)

\* record_emergency_stop_event looks again for another operation in progress
\* and for the same one started meanwhile by another run.
MayStartStop(h) == stop[h] = "none" /\ ~ OtherStarted(h)

RecordStart(p) ==
  LET h == HaltOf(p) IN
  /\ stopper[p].pc = "record start"
  /\ \/ /\ MayStartStop(h)
        /\ stop' = [stop EXCEPT ![h] = "started"]
        /\ planned' = [planned EXCEPT ![h] = stopper[p].seen]
        /\ Stopper(p, [pc |-> "states", done |-> FALSE])
        /\ UNCHANGED <<decision, sub, resolution, halts, cancel>>
        /\ UNCHANGED <<outside, history>>
     \/ /\ stop[h] # "none" /\ planned[h] = stopper[p].seen
        /\ StopperMoves(p, [pc |-> "states", done |-> FALSE])
     \/ ~ MayStartStop(h) /\ StopRaises(p)

\* The states of the cancellations are read once.  Any cancellation of
\* unknown fate stops the whole operation, and one that was completed when
\* its events were read is a replay.
ReadStates(p) ==
  /\ stopper[p].pc = "states"
  /\ \/ /\ ~ AnyUncertainCancel /\ ~ stopper[p].done
        /\ StopperMoves(p, [pc |-> "next look", acked |->
             {k \in Keys : cancel[HaltOf(p)][k] = "acknowledged"}])
     \/ (AnyUncertainCancel \/ stopper[p].done) /\ StopRaises(p)

LookCurrent(p) ==
  /\ stopper[p].pc = "next look"
  /\ StopperMoves(p, [pc |-> "current", seen |-> OpenOrders,
                      acked |-> stopper[p].acked])

\* The current snapshot: stable, without an order outside the plan, and
\* without one whose cancellation was acknowledged.
CurrentFitsPlan(p) ==
  /\ OpenOrders = stopper[p].seen
  /\ DOMAIN stopper[p].seen \subseteq DOMAIN planned[HaltOf(p)] \ stopper[p].acked

CaptureCurrent(p) ==
  /\ stopper[p].pc = "current"
  /\ \/ /\ CurrentFitsPlan(p)
        /\ StopperMoves(p, [pc |-> "cancel", seen |-> stopper[p].seen,
                            acked |-> stopper[p].acked])
     \/ ~ CurrentFitsPlan(p) /\ StopRaises(p)

\* _cancel_planned_orders takes each planned order once: one acknowledged
\* before is skipped, another is cancelled if the snapshot has it unchanged.
ToCancel(p) == DOMAIN planned[HaltOf(p)] \ stopper[p].acked

StillAsPlanned(p, k) ==
  /\ k \in DOMAIN stopper[p].seen
  /\ stopper[p].seen[k] = planned[HaltOf(p)][k]

\* mutant of CancelKnown: a cancellation of unknown fate is sent again
CancelRetried(h, k) == TRUE

\* begin_cancellation raises for a cancellation of unknown fate ...
CancelKnown(h, k) == cancel[h][k] # "uncertain"

\* mutant of Begun: what was recorded is overwritten
BegunAgain(h, k) == "uncertain"

\* ... records a first one as uncertain, and returns "acknowledged" for one
\* another run has finished since the states were read.
Begun(h, k) == IF cancel[h][k] = "none" THEN "uncertain" ELSE cancel[h][k]

\* The caller does not look at what begin_cancellation returns.
BeginCancellation(p, k) ==
  LET h == HaltOf(p) IN
  /\ stopper[p].pc = "cancel" /\ k \in ToCancel(p)
  /\ \/ /\ StillAsPlanned(p, k) /\ CancelKnown(h, k)
        /\ cancel' = [cancel EXCEPT ![h][k] = Begun(h, k)]
        /\ Stopper(p, [pc |-> "call", key |-> k, seen |-> stopper[p].seen,
                       acked |-> stopper[p].acked])
        /\ UNCHANGED <<decision, sub, resolution, halts, stop, planned>>
        /\ UNCHANGED <<outside, history>>
     \/ ~ (StillAsPlanned(p, k) /\ CancelKnown(h, k)) /\ StopRaises(p)

\* mutant of CancelAnswers: any cancelled order is an acknowledgement
CancelAnswersAny(p, k) == venue[k].status \in {"open", "cancelled"}

\* adapter.cancel_order: an order no longer open raises unless it is already
\* cancelled; the answer must have the planned quantity filled.
CancelAnswers(p, k) ==
  /\ venue[k].status \in {"open", "cancelled"}
  /\ venue[k].filled = planned[HaltOf(p)][k]

CancelOrder(p) ==
  LET k == stopper[p].key IN
  /\ stopper[p].pc = "call"
  /\ venue' = IF IsOpen(k) THEN [venue EXCEPT ![k].status = "cancelled"] ELSE venue
  /\ cancelCalls' = [cancelCalls EXCEPT ![k] = @ + 1]
  /\ Stopper(p, IF CancelAnswers(p, k)
                   THEN [pc |-> "ack", key |-> k, seen |-> stopper[p].seen,
                         acked |-> stopper[p].acked]
                   ELSE IdleReader)
  /\ UNCHANGED <<tables, wire, expired, calls, unsettled>>

\* An acknowledgement already retained is for the same ended order.
AcknowledgeCancellation(p) ==
  LET s == stopper[p] IN
  /\ s.pc = "ack"
  /\ cancel' = [cancel EXCEPT ![HaltOf(p)][s.key] = "acknowledged"]
  /\ Stopper(p, [pc |-> "cancel", seen |-> s.seen, acked |-> s.acked \union {s.key}])
  /\ UNCHANGED <<decision, sub, resolution, halts, stop, planned>>
  /\ UNCHANGED <<outside, history>>

LookClosing(p) ==
  /\ stopper[p].pc = "cancel" /\ ToCancel(p) = {}
  /\ StopperMoves(p, [pc |-> "closing", seen |-> OpenOrders])

\* The closing snapshot is stable and empty.
ClosedDown(p) == OpenOrders = stopper[p].seen /\ DOMAIN stopper[p].seen = {}

CaptureClosing(p) ==
  /\ stopper[p].pc = "closing"
  /\ \/ ClosedDown(p) /\ StopperMoves(p, [pc |-> "record end"])
     \/ ~ ClosedDown(p) /\ StopRaises(p)

\* Every planned order has its acknowledgement: only then is the operation
\* completed.
StopIsComplete(h) ==
  /\ ~ AnyUncertainCancel
  /\ \A k \in DOMAIN planned[h] : cancel[h][k] = "acknowledged"

\* A completion another run has recorded stays as it is.
RecordCompleted(p) ==
  LET h == HaltOf(p) IN
  /\ stopper[p].pc = "record end"
  /\ \/ /\ StopIsComplete(h)
        /\ stop' = [stop EXCEPT ![h] = "completed"]
        /\ Stopper(p, IdleReader)
        /\ UNCHANGED <<decision, sub, resolution, halts, planned, cancel>>
        /\ UNCHANGED <<outside, history>>
     \/ ~ StopIsComplete(h) /\ StopRaises(p)

StopperDies(p) == stopper[p].pc # "idle" /\ StopRaises(p)

-----------------------------------------------------------------------------
(* startup_readiness.assess: a snapshot, the ledger, a snapshot again.     *)

Assess ==
  /\ assessor.pc \in {"idle", "safe"}
  /\ assessor' = [pc |-> "submissions", seen |-> OpenOrders, fills |-> Fills]
  /\ UNCHANGED <<tables, outside, caller, resolver, stopper, history>>

\* mutant of SubmissionsSettled: every adjudication settles its key
AnyResolutionSettles ==
  \A k \in Keys : sub[k] = "uncertain" => resolution[k] # "none"

\* _submission_recovery_state: a key of unknown fate blocks, and one that was
\* adjudicated as open.  Whether the reconciliation evidence matches and is
\* fresh only adds reasons to block, and is left open.
SubmissionsSettled ==
  \A k \in Keys : sub[k] = "uncertain" => resolution[k] \notin {"none", "observed_open"}

AssessSubmissions ==
  /\ assessor.pc = "submissions"
  /\ assessor' = IF halts # {} /\ SubmissionsSettled
                   THEN [assessor EXCEPT !.pc = "stops"] ELSE IdleReader
  /\ UNCHANGED <<tables, outside, caller, resolver, stopper, history>>

\* The uncertain cancellations and the incomplete stop operations.
AssessStops ==
  /\ assessor.pc = "stops"
  /\ assessor' = IF AnyUncertainCancel \/ AnyStarted
                   THEN IdleReader ELSE [assessor EXCEPT !.pc = "closing"]
  /\ UNCHANGED <<tables, outside, caller, resolver, stopper, history>>

\* The assessment stands only when the venue looks as it did at first.
SameAtClose == OpenOrders = assessor.seen /\ Fills = assessor.fills

AssessClose ==
  /\ assessor.pc = "closing"
  /\ assessor' = IF SameAtClose THEN [assessor EXCEPT !.pc = "safe"]
                                ELSE IdleReader
  /\ UNCHANGED <<tables, outside, caller, resolver, stopper, history>>

-----------------------------------------------------------------------------
CallerStep(c) ==
  \/ \E k \in Keys, d \in Decisions : SubmitOnce(c, k, d)
  \/ BeginSubmission(c) \/ DeclineSubmission(c) \/ CallAdapter(c)
  \/ AdapterReplies(c) \/ AcknowledgeSubmission(c) \/ CallerDies(c)

VenueStep ==
  \/ \E k \in Keys : VenueReceives(k) \/ VenueFills(k) \/ VenueExpires(k)
  \/ \E d \in Decisions : DecisionExpires(d)

ResolverStep ==
  \/ \E k \in Keys : ResolveStart(k)
  \/ ResolveReadFills \/ ResolveReadOrdersAgain \/ ResolveReadFillsAgain
  \/ RecordResolution \/ ResolverGivesUp

StopStep(p) ==
  \/ RecordHalt(p) \/ StartEvents(p) \/ LookInitial(p) \/ CaptureInitial(p)
  \/ RecordStart(p) \/ ReadStates(p) \/ LookCurrent(p) \/ CaptureCurrent(p)
  \/ \E k \in Keys : BeginCancellation(p, k)
  \/ CancelOrder(p) \/ AcknowledgeCancellation(p) \/ LookClosing(p)
  \/ CaptureClosing(p) \/ RecordCompleted(p) \/ StopperDies(p)

AssessStep == Assess \/ AssessSubmissions \/ AssessStops \/ AssessClose

Next ==
  \/ \E c \in Callers : CallerStep(c)
  \/ VenueStep
  \/ ResolverStep
  \/ \E p \in Stoppers : StopStep(p)
  \/ AssessStep

Spec == Init /\ [][Next]_vars

-----------------------------------------------------------------------------
(* Correctness.                                                            *)

CallerStates == [pc : {"idle"}]
  \union [pc : {"begin", "call", "wait", "ack"}, key : Keys, late : BOOLEAN]

\* What a read of the open orders may return.
OrderReads == UNION {[S -> 0..Qty] : S \in SUBSET Keys}

ResolverStates == [pc : {"idle"}]
  \union [pc : {"fills"}, key : Keys, orders : OrderReads, settled : BOOLEAN]
  \union [pc : {"orders again", "fills again", "record"}, key : Keys,
          orders : OrderReads, fills : [Keys -> 0..Qty], settled : BOOLEAN]

StopperStates == [pc : {"idle", "start", "first look", "record end"}]
  \union [pc : {"initial", "record start", "closing"}, seen : OrderReads]
  \union [pc : {"states"}, done : BOOLEAN]
  \union [pc : {"next look"}, acked : SUBSET Keys]
  \union [pc : {"current", "cancel"}, seen : OrderReads, acked : SUBSET Keys]
  \union [pc : {"call", "ack"}, key : Keys, seen : OrderReads, acked : SUBSET Keys]

AssessorStates == [pc : {"idle"}]
  \union [pc : {"submissions", "stops", "closing", "safe"}, seen : OrderReads,
          fills : [Keys -> 0..Qty]]

TypeOK ==
  /\ decision \in [Keys -> Decisions \union {"none"}]
  /\ sub \in [Keys -> {"none", "uncertain", "acknowledged"}]
  /\ resolution \in [Keys -> Outcomes \union {"none"}]
  /\ halts \subseteq Halts
  /\ stop \in [Halts -> {"none", "started", "completed"}]
  /\ planned \in [Halts -> OrderReads]
  /\ cancel \in [Halts -> [Keys -> {"none", "uncertain", "acknowledged"}]]
  /\ wire \subseteq Keys
  /\ venue \in [Keys -> [status : {"absent", "open", "filled", "cancelled"},
                         filled : 0..Qty]]
  /\ expired \subseteq Decisions
  /\ caller \in [Callers -> CallerStates]
  /\ resolver \in ResolverStates
  /\ stopper \in [Stoppers -> StopperStates]
  /\ assessor \in AssessorStates
  /\ calls \in [Keys -> Nat]
  /\ cancelCalls \in [Keys -> Nat]
  /\ unsettled \subseteq Keys

\* submit_once, with its crashes, retries by other callers and lost replies,
\* does no more than the one-shot specification: a start, at most one
\* adapter call, at most one acknowledgement, in that order.
Shot == INSTANCE OneShot WITH
  started <- {k \in Keys : sub[k] # "none"},
  acknowledged <- {k \in Keys : sub[k] = "acknowledged"}

SubmitsOnce == Shot!ShotSpec

\* The decision the ledger retains for a key is the one its order was sent
\* under: no later caller of submit_once replaces it.
SentUnderItsDecision == \A k \in Keys : calls[k] > 0 => decision[k] \in Passing

\* What resolve_uncertain records is what became of the order.  "Filled" and
\* "terminal partial fill" are so whenever the reads took place; absence is
\* the truth when no call could still land as the reads began.
ResolutionTrue == \A k \in Keys :
  /\ resolution[k] = "observed_filled" => venue[k].status = "filled"
  /\ resolution[k] = "observed_terminal_partial_fill" =>
       venue[k].status = "cancelled" /\ venue[k].filled \in 1 .. Qty - 1
  /\ resolution[k] = "not_observed_burned" /\ k \notin unsettled =>
       venue[k].status \in {"absent", "cancelled"} /\ venue[k].filled = 0

\* A completed emergency stop cancelled every order of its plan, each with
\* exactly the quantity filled that the plan was made for.
StopComplete == \A h \in Halts : stop[h] = "completed" =>
  \A k \in DOMAIN planned[h] :
    venue[k] = [status |-> "cancelled", filled |-> planned[h][k]]

\* A cancellation whose fate is unknown is never sent again, whatever runs of
\* cancel_all_and_halt start, die, resume and overlap.  The one repeated
\* request is that of a run which read its states before another run of the
\* same halt key finished the order: it comes after the acknowledgement, and
\* the order has ended as that operation planned.
RepeatOnlyAcknowledged == \A k \in Keys : cancelCalls[k] > 1 =>
  \E h \in Halts :
    /\ cancel[h][k] = "acknowledged"
    /\ venue[k] = [status |-> "cancelled", filled |-> planned[h][k]]

\* The evidence of a completed stop stays complete, though other runs of its
\* halt key may still be cancelling what they read as open: a replay
\* (_completed_replay) finds every planned order acknowledged.
StopEvidenceKept == \A h \in Halts : stop[h] = "completed" =>
  \A k \in DOMAIN planned[h] : cancel[h][k] = "acknowledged"

\* An assessment that finds nothing in the way has seen no open order but
\* acknowledged ones, and those of keys adjudicated by a resolver that began
\* to read while the call could still land (unsettled).
SafeAssessment == assessor.pc = "safe" =>
  \A k \in DOMAIN assessor.seen : sub[k] = "acknowledged" \/ k \in unsettled
=============================================================================

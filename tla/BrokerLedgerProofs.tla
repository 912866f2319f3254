------------------------- MODULE BrokerLedgerProofs -------------------------
(***************************************************************************)
(* TLAPS proofs about BrokerLedger, for every set of keys, callers, stop   *)
(* operations and decisions and every quantity.                            *)
(***************************************************************************)
EXTENDS BrokerLedger, TLAPS

-----------------------------------------------------------------------------
(* The inductive invariant of submit_once.                                 *)

\* A caller between its second transaction and the end of its third.
Live(c) == caller[c].pc \in {"call", "wait", "ack"}

\* A live caller is the only one of its key, whose start is the last thing
\* the ledger knows, and it has called the adapter once if at all.
CallersApart ==
  /\ \A c \in Callers : Live(c) =>
       /\ sub[caller[c].key] = "uncertain"
       /\ calls[caller[c].key] = IF caller[c].pc = "call" THEN 0 ELSE 1
  /\ \A c, b \in Callers :
       Live(c) /\ Live(b) /\ caller[c].key = caller[b].key => c = b

\* What the ledger's record of a submission says of the calls made.
CallsCounted == \A k \in Keys :
  /\ calls[k] \in {0, 1}
  /\ sub[k] = "none" => calls[k] = 0
  /\ sub[k] = "acknowledged" => calls[k] = 1
  /\ sub[k] # "none" => decision[k] \in Passing

SubmissionType ==
  /\ decision \in [Keys -> Decisions \union {"none"}]
  /\ sub \in [Keys -> {"none", "uncertain", "acknowledged"}]
  /\ caller \in [Callers -> CallerStates]
  /\ calls \in [Keys -> Nat]

SubmissionInv == SubmissionType /\ CallersApart /\ CallsCounted

submissionVars == <<decision, sub, calls, caller>>

\* Only the steps of a caller touch what the invariant is about.
LEMMA OthersFrame ==
  ASSUME VenueStep \/ ResolverStep \/ (\E p \in Stoppers : StopStep(p)) \/ AssessStep
  PROVE  UNCHANGED submissionVars
<1>1. CASE VenueStep
  BY <1>1 DEF VenueStep, VenueReceives, VenueFills, VenueExpires, DecisionExpires,
              tables, procs, history, submissionVars
<1>2. CASE ResolverStep
  BY <1>2 DEF ResolverStep, ResolveStart, ResolveReadFills, ResolveReadOrdersAgain,
              ResolveReadFillsAgain, RecordResolution, ResolverGivesUp,
              tables, history, submissionVars
<1>3. ASSUME NEW p \in Stoppers, StopStep(p) PROVE UNCHANGED submissionVars
  BY <1>3 DEF StopStep, RecordHalt, StartEvents, LookInitial, CaptureInitial,
              RecordStart, ReadStates, LookCurrent, CaptureCurrent,
              BeginCancellation, CancelOrder, AcknowledgeCancellation, LookClosing,
              CaptureClosing, RecordCompleted, StopperDies, StopRaises, StopperMoves, Stopper, tables, history, submissionVars
<1>4. CASE AssessStep
  BY <1>4 DEF AssessStep, Assess, AssessSubmissions, AssessStops, AssessClose,
              tables, history, submissionVars
<1>5. QED
  BY <1>1, <1>2, <1>3, <1>4

-----------------------------------------------------------------------------
\* Init establishes the invariant.
LEMMA SubmissionInit == Init => SubmissionInv
  BY DEF Init, SubmissionInv, SubmissionType, CallersApart, CallsCounted, Live,
         IdleCaller, CallerStates

\* Every step of submit_once preserves it.
LEMMA SubmissionStep ==
  ASSUME SubmissionInv, NEW c \in Callers, CallerStep(c)
  PROVE  SubmissionInv'
<1> USE DEF SubmissionInv, SubmissionType, CallersApart, CallsCounted, Live,
            IdleCaller, CallerStates
<1>1. ASSUME NEW k \in Keys, NEW d \in Decisions, SubmitOnce(c, k, d)
      PROVE  SubmissionInv'
  <2>1. UNCHANGED <<sub, calls>>
    BY <1>1 DEF SubmitOnce, history
  <2>2. SubmissionType'
    BY <1>1, <2>1 DEF SubmitOnce
  <2>3. CallersApart'
    BY <1>1, <2>1 DEF SubmitOnce
  <2>4. \A j \in Keys : decision[j] \in Passing => decision'[j] = decision[j]
    BY <1>1, LedgerAssumption DEF SubmitOnce, DecisionStands
  <2>5. CallsCounted'
    BY <2>1, <2>2, <2>4
  <2>6. QED
    BY <2>2, <2>3, <2>5
<1>2. CASE BeginSubmission(c)
  <2>1. UNCHANGED <<decision, calls>>
    BY <1>2 DEF BeginSubmission, history
  <2>2. SubmissionType'
    BY <1>2, <2>1 DEF BeginSubmission
  <2>3. CallersApart'
    BY <1>2, <2>1 DEF BeginSubmission, MayBegin
  <2>4. CallsCounted'
    BY <1>2, <2>1 DEF BeginSubmission, MayBegin
  <2>5. QED
    BY <2>2, <2>3, <2>4
<1>3. CASE DeclineSubmission(c)
  BY <1>3 DEF DeclineSubmission, tables, history
<1>4. CASE CallAdapter(c)
  <2>1. UNCHANGED <<decision, sub>>
    BY <1>4 DEF CallAdapter, tables
  <2>2. SubmissionType'
    BY <1>4, <2>1 DEF CallAdapter
  <2>3. CallersApart'
    BY <1>4, <2>1 DEF CallAdapter
  <2>4. CallsCounted'
    BY <1>4, <2>1 DEF CallAdapter
  <2>5. QED
    BY <2>2, <2>3, <2>4
<1>5. CASE AdapterReplies(c)
  BY <1>5 DEF AdapterReplies, tables, history
<1>6. CASE AcknowledgeSubmission(c)
  <2>1. UNCHANGED <<decision, calls>>
    BY <1>6 DEF AcknowledgeSubmission, history
  <2>2. SubmissionType'
    BY <1>6, <2>1 DEF AcknowledgeSubmission
  <2>3. CallersApart'
    BY <1>6, <2>1 DEF AcknowledgeSubmission
  <2>4. CallsCounted'
    BY <1>6, <2>1 DEF AcknowledgeSubmission
  <2>5. QED
    BY <2>2, <2>3, <2>4
<1>7. CASE CallerDies(c)
  BY <1>7 DEF CallerDies, tables, history
<1>8. QED
  BY <1>1, <1>2, <1>3, <1>4, <1>5, <1>6, <1>7 DEF CallerStep

\* The invariant holds in every reachable state.
THEOREM SubmissionSound == Spec => []SubmissionInv
<1>1. SubmissionInv /\ [Next]_vars => SubmissionInv'
  <2> SUFFICES ASSUME SubmissionInv, [Next]_vars PROVE SubmissionInv'
    OBVIOUS
  <2>1. CASE \E c \in Callers : CallerStep(c)
    BY <2>1, SubmissionStep
  <2>2. ASSUME UNCHANGED submissionVars PROVE SubmissionInv'
    BY <2>2 DEF submissionVars, SubmissionInv, SubmissionType, CallersApart,
                CallsCounted, Live
  <2>3. CASE UNCHANGED vars
    BY <2>3, <2>2 DEF vars, tables, procs, history, submissionVars
  <2>4. QED
    BY <2>1, <2>2, <2>3, OthersFrame DEF Next
<1>2. QED
  BY <1>1, SubmissionInit, PTL DEF Spec

-----------------------------------------------------------------------------
(* Consequences.                                                           *)

\* SentUnderItsDecision: an order was sent under the passing decision the
\* ledger retains for it (submit_once, record_risk_decision).
THEOREM DecisionsStand == Spec => []SentUnderItsDecision
<1>1. SubmissionInv => SentUnderItsDecision
  BY DEF SubmissionInv, SubmissionType, CallsCounted, SentUnderItsDecision
<1>2. QED
  BY <1>1, SubmissionSound, PTL

\* Every step of submit_once is a step of the one-shot specification, or
\* leaves its variables alone.
LEMMA ShotStep ==
  ASSUME SubmissionInv, NEW c \in Callers, CallerStep(c)
  PROVE  Shot!ShotNext \/ UNCHANGED Shot!shotVars
<1>0. ASSUME NEW k \in Keys,
             Shot!ShotStart(k) \/ Shot!ShotCall(k) \/ Shot!ShotAcknowledge(k)
      PROVE  Shot!ShotNext
  BY <1>0 DEF Shot!ShotNext
<1> USE DEF SubmissionInv, SubmissionType, CallersApart, CallsCounted, Live,
            CallerStates
<1>1. ASSUME UNCHANGED <<sub, calls>> PROVE UNCHANGED Shot!shotVars
  BY <1>1 DEF Shot!shotVars
<1>2. ASSUME NEW k \in Keys, NEW d \in Decisions, SubmitOnce(c, k, d)
      PROVE  UNCHANGED Shot!shotVars
  BY <1>1, <1>2 DEF SubmitOnce, history
<1>3. CASE BeginSubmission(c)
  <2>1. PICK k \in Keys : k = caller[c].key /\ sub[k] = "none"
    BY <1>3 DEF BeginSubmission, MayBegin
  <2>2. Shot!ShotStart(k)
    BY <1>3, <2>1 DEF BeginSubmission, Shot!ShotStart, history
  <2>3. QED
    BY <1>0, <2>2
<1>4. CASE CallAdapter(c)
  <2>1. PICK k \in Keys : k = caller[c].key /\ sub[k] # "none" /\ calls[k] = 0
    BY <1>4 DEF CallAdapter
  <2>2. Shot!ShotCall(k)
    BY <1>4, <2>1 DEF CallAdapter, Shot!ShotCall, tables
  <2>3. QED
    BY <1>0, <2>2
<1>5. CASE AcknowledgeSubmission(c)
  <2>1. PICK k \in Keys : k = caller[c].key /\ sub[k] = "uncertain" /\ calls[k] = 1
    BY <1>5 DEF AcknowledgeSubmission
  <2>2. Shot!ShotAcknowledge(k)
    BY <1>5, <2>1 DEF AcknowledgeSubmission, Shot!ShotAcknowledge, history
  <2>3. QED
    BY <1>0, <2>2
<1>6. CASE DeclineSubmission(c) \/ AdapterReplies(c) \/ CallerDies(c)
  BY <1>1, <1>6 DEF DeclineSubmission, AdapterReplies, CallerDies, tables, history
<1>7. QED
  BY <1>2, <1>3, <1>4, <1>5, <1>6 DEF CallerStep

\* SubmitsOnce: the ledger implements the one-shot specification; whatever
\* callers race, die or retry, a key is started, called and acknowledged at
\* most once each, in that order.
THEOREM LedgerSubmitsOnce == Spec => SubmitsOnce
<1>1. Init => Shot!ShotInit
  BY DEF Init, Shot!ShotInit
<1>2. SubmissionInv /\ [Next]_vars => [Shot!ShotNext]_(Shot!shotVars)
  <2> SUFFICES ASSUME SubmissionInv, [Next]_vars
               PROVE  Shot!ShotNext \/ UNCHANGED Shot!shotVars
    OBVIOUS
  <2>1. CASE \E c \in Callers : CallerStep(c)
    BY <2>1, ShotStep
  <2>2. ASSUME UNCHANGED <<sub, calls>> PROVE UNCHANGED Shot!shotVars
    BY <2>2 DEF Shot!shotVars
  <2>3. CASE UNCHANGED vars
    BY <2>2, <2>3 DEF vars, tables, history
  <2>4. QED
    BY <2>1, <2>2, <2>3, OthersFrame DEF Next, submissionVars
<1>3. QED
  BY <1>1, <1>2, SubmissionSound, PTL DEF Spec, SubmitsOnce, Shot!ShotSpec

-----------------------------------------------------------------------------
(* Types of the venue and of the stop operations.                          *)

VenueType ==
  /\ wire \subseteq Keys
  /\ venue \in [Keys -> [status : {"absent", "open", "filled", "cancelled"},
                         filled : 0..Qty]]

StopType ==
  /\ halts \subseteq Halts
  /\ stop \in [Halts -> {"none", "started", "completed"}]
  /\ planned \in [Halts -> OrderReads]
  /\ cancel \in [Halts -> [Keys -> {"none", "uncertain", "acknowledged"}]]
  /\ stopper \in [Stoppers -> StopperStates]
  /\ cancelCalls \in [Keys -> Nat]

LEMMA ReadsDomain == \A r \in OrderReads : DOMAIN r \subseteq Keys
  BY DEF OrderReads

\* adapter.get_open_orders and stream_fills.
LEMMA SnapshotType ==
  ASSUME VenueType
  PROVE  /\ OpenOrders \in OrderReads
         /\ DOMAIN OpenOrders = OpenKeys /\ OpenKeys \subseteq Keys
         /\ \A k \in OpenKeys : OpenOrders[k] = venue[k].filled
         /\ Fills \in [Keys -> 0..Qty]
         /\ \A k \in Keys : Fills[k] = venue[k].filled
<1>1. OpenKeys \in SUBSET Keys
  BY DEF OpenKeys
<1>2. OpenOrders \in [OpenKeys -> 0..Qty]
  BY <1>1 DEF VenueType, OpenOrders
<1>3. OpenOrders \in OrderReads
  BY <1>1, <1>2 DEF OrderReads
<1>4. \A k \in OpenKeys : OpenOrders[k] = venue[k].filled
  BY DEF OpenOrders
<1>5. Fills \in [Keys -> 0..Qty] /\ \A k \in Keys : Fills[k] = venue[k].filled
  BY DEF VenueType, Fills
<1>6. QED
  BY <1>1, <1>2, <1>3, <1>4, <1>5

\* Only a stop operation touches its own records.
LEMMA StopFrame ==
  ASSUME [Next]_vars
  PROVE  \/ \E p \in Stoppers : StopStep(p)
         \/ UNCHANGED <<halts, stop, planned, cancel, stopper, cancelCalls>>
<1>1. ASSUME NEW c \in Callers, CallerStep(c)
      PROVE  UNCHANGED <<halts, stop, planned, cancel, stopper, cancelCalls>>
  BY <1>1 DEF CallerStep, SubmitOnce, BeginSubmission, DeclineSubmission,
              CallAdapter, AdapterReplies, AcknowledgeSubmission, CallerDies,
              tables, history
<1>2. CASE VenueStep
  BY <1>2 DEF VenueStep, VenueReceives, VenueFills, VenueExpires, DecisionExpires,
              tables, procs, history
<1>3. CASE ResolverStep
  BY <1>3 DEF ResolverStep, ResolveStart, ResolveReadFills, ResolveReadOrdersAgain,
              ResolveReadFillsAgain, RecordResolution, ResolverGivesUp,
              tables, history
<1>4. CASE AssessStep
  BY <1>4 DEF AssessStep, Assess, AssessSubmissions, AssessStops, AssessClose,
              tables, history
<1>5. CASE UNCHANGED vars
  BY <1>5 DEF vars, tables, procs, history
<1>6. QED
  BY <1>1, <1>2, <1>3, <1>4, <1>5 DEF Next

\* A process of cancel_all_and_halt works for one halt key.
LEMMA HaltOfType == \A p \in Stoppers : HaltOf(p) \in Halts
  BY DEF Stoppers, HaltOf

\* The states of a stop process, as the actions build them.
LEMMA StopperShapes ==
  /\ IdleReader \in StopperStates /\ IdleReader.pc = "idle"
  /\ [pc |-> "start"] \in StopperStates /\ [pc |-> "first look"] \in StopperStates
  /\ [pc |-> "record end"] \in StopperStates
  /\ \A b \in BOOLEAN : [pc |-> "states", done |-> b] \in StopperStates
  /\ \A a \in SUBSET Keys : [pc |-> "next look", acked |-> a] \in StopperStates
  /\ \A r \in OrderReads :
       /\ [pc |-> "initial", seen |-> r] \in StopperStates
       /\ [pc |-> "record start", seen |-> r] \in StopperStates
       /\ [pc |-> "closing", seen |-> r] \in StopperStates
  /\ \A r \in OrderReads, a \in SUBSET Keys :
       /\ [pc |-> "current", seen |-> r, acked |-> a] \in StopperStates
       /\ [pc |-> "cancel", seen |-> r, acked |-> a] \in StopperStates
       /\ \A k \in Keys :
            /\ [pc |-> "call", key |-> k, seen |-> r, acked |-> a] \in StopperStates
            /\ [pc |-> "ack", key |-> k, seen |-> r, acked |-> a] \in StopperStates
  /\ \A s \in StopperStates :
       /\ s.pc \in {"initial", "record start", "closing", "current", "cancel",
                    "call", "ack"} => s.seen \in OrderReads
       /\ s.pc \in {"next look", "current", "cancel", "call", "ack"} =>
            s.acked \in SUBSET Keys
       /\ s.pc \in {"call", "ack"} => s.key \in Keys
  BY DEF StopperStates, IdleReader

\* Every step keeps the types of the stop operations.
LEMMA StopTypes ==
  ASSUME StopType, VenueType, [Next]_vars
  PROVE  StopType'
<1> USE DEF StopType
<1>1. OpenOrders \in OrderReads
  BY SnapshotType
<1>2. ASSUME UNCHANGED <<halts, stop, planned, cancel, stopper, cancelCalls>>
      PROVE  StopType'
  BY <1>2
<1>3. ASSUME NEW p \in Stoppers, StopStep(p) PROVE StopType'
  <2>h. PICK h \in Halts : h = HaltOf(p)
    BY HaltOfType
  <2>s. /\ stopper[p].pc \in {"initial", "record start", "closing", "current", "cancel",
                              "call", "ack"} => stopper[p].seen \in OrderReads
        /\ stopper[p].pc \in {"next look", "current", "cancel", "call", "ack"} =>
             stopper[p].acked \in SUBSET Keys
        /\ stopper[p].pc \in {"call", "ack"} => stopper[p].key \in Keys
    BY StopperShapes
  <2>0. ASSUME NEW r \in StopperStates, Stopper(p, r)
        PROVE  stopper' \in [Stoppers -> StopperStates]
    BY <2>0 DEF Stopper
  <2>1. ASSUME NEW r \in StopperStates, StopperMoves(p, r)
        PROVE  StopType'
    BY <2>0, <2>1 DEF StopperMoves, tables, history
  <2>2. ASSUME StopRaises(p) PROVE StopType'
    BY <2>1, <2>2, StopperShapes DEF StopRaises
  <2>3. CASE RecordHalt(p)
    BY <2>h, <2>0, <2>3, StopperShapes DEF RecordHalt, history
  <2>4. CASE StartEvents(p)
    <3>1. (stop[h] = "completed") \in BOOLEAN
      OBVIOUS
    <3>2. QED
      BY <2>h, <2>1, <2>2, <2>4, <3>1, StopperShapes DEF StartEvents
  <2>5. CASE LookInitial(p)
    BY <1>1, <2>1, <2>5, StopperShapes DEF LookInitial
  <2>6. CASE CaptureInitial(p)
    BY <2>s, <2>1, <2>2, <2>6, StopperShapes DEF CaptureInitial
  <2>7. CASE RecordStart(p)
    <3>1. stopper[p].seen \in OrderReads
      BY <2>s, <2>7 DEF RecordStart
    <3>2. [pc |-> "states", done |-> FALSE] \in StopperStates
      BY StopperShapes
    <3>3. CASE /\ stop' = [stop EXCEPT ![h] = "started"]
               /\ planned' = [planned EXCEPT ![h] = stopper[p].seen]
               /\ Stopper(p, [pc |-> "states", done |-> FALSE])
               /\ UNCHANGED <<halts, cancel, cancelCalls>>
      <4>1. stopper' \in [Stoppers -> StopperStates]
        BY <2>0, <3>2, <3>3
      <4>2. planned' \in [Halts -> OrderReads]
        BY <3>1, <3>3
      <4>3. QED
        BY <3>3, <4>1, <4>2
    <3>4. QED
      BY <2>h, <2>1, <2>2, <2>7, <3>2, <3>3 DEF RecordStart, history
  <2>8. CASE ReadStates(p)
    <3>1. {k \in Keys : cancel[HaltOf(p)][k] = "acknowledged"} \in SUBSET Keys
      OBVIOUS
    <3>2. QED
      BY <2>1, <2>2, <2>8, <3>1, StopperShapes DEF ReadStates
  <2>9. CASE LookCurrent(p)
    BY <1>1, <2>s, <2>1, <2>9, StopperShapes DEF LookCurrent
  <2>10. CASE CaptureCurrent(p)
    BY <2>s, <2>1, <2>2, <2>10, StopperShapes DEF CaptureCurrent
  <2>11. ASSUME NEW k \in Keys, BeginCancellation(p, k) PROVE StopType'
    <3>1. stopper[p].seen \in OrderReads /\ stopper[p].acked \in SUBSET Keys
      BY <2>s, <2>11 DEF BeginCancellation
    <3>2. CASE StillAsPlanned(p, k) /\ CancelKnown(h, k)
      <4>1. Begun(h, k) \in {"none", "uncertain", "acknowledged"}
        BY DEF Begun
      <4>2. cancel' = [cancel EXCEPT ![h][k] = Begun(h, k)]
        BY <2>h, <2>11, <3>2 DEF BeginCancellation
      <4>3. cancel' \in [Halts -> [Keys -> {"none", "uncertain", "acknowledged"}]]
        BY <4>1, <4>2
      <4>4. stopper' \in [Stoppers -> StopperStates]
        BY <2>h, <2>0, <2>11, <3>1, <3>2, StopperShapes DEF BeginCancellation
      <4>5. QED
        BY <2>h, <2>11, <3>2, <4>3, <4>4 DEF BeginCancellation, history
    <3>3. CASE ~ (StillAsPlanned(p, k) /\ CancelKnown(h, k))
      BY <2>h, <2>2, <2>11, <3>3 DEF BeginCancellation
    <3>4. QED
      BY <3>2, <3>3
  <2>12. CASE CancelOrder(p)
    <3>1. /\ stopper[p].seen \in OrderReads /\ stopper[p].key \in Keys
          /\ stopper[p].acked \in SUBSET Keys
      BY <2>s, <2>12 DEF CancelOrder
    <3>2. PICK k \in Keys : k = stopper[p].key
      BY <3>1
    <3>3. cancelCalls' = [cancelCalls EXCEPT ![k] = @ + 1]
      BY <2>12, <3>2 DEF CancelOrder
    <3>4. cancelCalls' \in [Keys -> Nat]
      BY <3>3
    <3>5. PICK r \in StopperStates : Stopper(p, r)
      <4>1. CASE CancelAnswers(p, k)
        BY <2>12, <3>1, <3>2, <4>1, StopperShapes DEF CancelOrder
      <4>2. CASE ~ CancelAnswers(p, k)
        BY <2>12, <3>2, <4>2, StopperShapes DEF CancelOrder
      <4>3. QED
        BY <4>1, <4>2
    <3>6. stopper' \in [Stoppers -> StopperStates]
      BY <2>0, <3>5
    <3>7. QED
      BY <2>12, <3>4, <3>6 DEF CancelOrder, tables
  <2>13. CASE AcknowledgeCancellation(p)
    <3>1. /\ stopper[p].seen \in OrderReads /\ stopper[p].key \in Keys
          /\ stopper[p].acked \in SUBSET Keys
      BY <2>s, <2>13 DEF AcknowledgeCancellation
    <3>2. cancel' = [cancel EXCEPT ![h][stopper[p].key] = "acknowledged"]
      BY <2>h, <2>13 DEF AcknowledgeCancellation
    <3>3. cancel' \in [Halts -> [Keys -> {"none", "uncertain", "acknowledged"}]]
      BY <3>2
    <3>4. stopper[p].acked \union {stopper[p].key} \in SUBSET Keys
      BY <3>1
    <3>5. stopper' \in [Stoppers -> StopperStates]
      BY <2>0, <2>13, <3>1, <3>4, StopperShapes DEF AcknowledgeCancellation
    <3>6. QED
      BY <2>13, <3>3, <3>5 DEF AcknowledgeCancellation, history
  <2>14. CASE LookClosing(p)
    BY <1>1, <2>1, <2>14, StopperShapes DEF LookClosing
  <2>15. CASE CaptureClosing(p)
    BY <2>1, <2>2, <2>15, StopperShapes DEF CaptureClosing
  <2>16. CASE RecordCompleted(p)
    <3>1. CASE StopIsComplete(h)
      <4>1. stopper' \in [Stoppers -> StopperStates]
        BY <2>h, <2>0, <2>16, <3>1, StopperShapes DEF RecordCompleted
      <4>2. QED
        BY <2>h, <2>16, <3>1, <4>1 DEF RecordCompleted, history
    <3>2. CASE ~ StopIsComplete(h)
      BY <2>h, <2>2, <2>16, <3>2 DEF RecordCompleted
    <3>3. QED
      BY <3>1, <3>2
  <2>17. CASE StopperDies(p)
    BY <2>2, <2>17 DEF StopperDies
  <2>18. QED
    BY <1>3, <2>3, <2>4, <2>5, <2>6, <2>7, <2>8, <2>9, <2>10, <2>11, <2>12,
       <2>13, <2>14, <2>15, <2>16, <2>17 DEF StopStep
<1>4. QED
  BY <1>2, <1>3, StopFrame

-----------------------------------------------------------------------------
(* The venue.                                                              *)

\* What an order's status says of its fills, and that the venue knows only
\* keys whose submission the ledger retains.
VenueShapes == \A k \in Keys :
  /\ venue[k].status = "absent" => venue[k].filled = 0
  /\ venue[k].status \in {"open", "cancelled"} => venue[k].filled < Qty
  /\ venue[k].status = "filled" => venue[k].filled = Qty
  /\ k \in wire \/ venue[k].status # "absent" => sub[k] # "none"

VenueInv == VenueType /\ VenueShapes

\* An order that has ended at the venue.
Ended(k) == venue[k].status \in {"filled", "cancelled"}

\* Only a caller's request, the venue itself and a cancellation touch the
\* venue.
LEMMA VenueFrame ==
  ASSUME [Next]_vars
  PROVE  \/ UNCHANGED <<wire, venue>>
         \/ \E c \in Callers : CallAdapter(c)
         \/ \E k \in Keys : VenueReceives(k) \/ VenueFills(k) \/ VenueExpires(k)
         \/ \E p \in Stoppers : CancelOrder(p)
<1>1. ASSUME NEW c \in Callers, CallerStep(c)
      PROVE  CallAdapter(c) \/ UNCHANGED <<wire, venue>>
  BY <1>1 DEF CallerStep, SubmitOnce, BeginSubmission, DeclineSubmission,
              AdapterReplies, AcknowledgeSubmission, CallerDies, outside
<1>2. CASE VenueStep
  BY <1>2 DEF VenueStep, DecisionExpires
<1>3. CASE ResolverStep
  BY <1>3 DEF ResolverStep, ResolveStart, ResolveReadFills, ResolveReadOrdersAgain,
              ResolveReadFillsAgain, RecordResolution, ResolverGivesUp, outside
<1>4. ASSUME NEW p \in Stoppers, StopStep(p)
      PROVE  CancelOrder(p) \/ UNCHANGED <<wire, venue>>
  BY <1>4 DEF StopStep, RecordHalt, StartEvents, LookInitial, CaptureInitial,
              RecordStart, ReadStates, LookCurrent, CaptureCurrent,
              BeginCancellation, AcknowledgeCancellation, LookClosing,
              CaptureClosing, RecordCompleted, StopperDies, StopRaises, StopperMoves, outside
<1>5. CASE AssessStep
  BY <1>5 DEF AssessStep, Assess, AssessSubmissions, AssessStops, AssessClose, outside
<1>6. CASE UNCHANGED vars
  BY <1>6 DEF vars, outside
<1>7. QED
  BY <1>1, <1>2, <1>3, <1>4, <1>5, <1>6 DEF Next

\* What a step may never do at the venue: reopen an order that has ended,
\* forget one, take back a fill, or make an order nobody sent.
VenueForward == \A k \in Keys :
  /\ Ended(k) => venue'[k] = venue[k]
  /\ venue[k].status # "absent" => venue'[k].status # "absent"
  /\ venue[k].filled <= venue'[k].filled
  /\ venue[k].status = "absent" /\ k \notin wire => venue'[k] = venue[k]

\* What a step may never do in the ledger: forget a submission, an
\* acknowledgement or an adjudication, or go on with a submission that has
\* no caller and no request left.
LedgerForward ==
  /\ \A k \in Keys :
       /\ sub[k] # "none" => sub'[k] # "none"
       /\ sub[k] = "acknowledged" => sub'[k] = "acknowledged"
       /\ sub[k] # "none" /\ ~ CallPending(k) =>
            sub'[k] = sub[k] /\ ~ CallPending(k)'
       /\ resolution[k] # "none" => resolution'[k] = resolution[k]
  /\ unsettled \subseteq unsettled'

LEMMA LedgerGoesForward ==
  ASSUME SubmissionInv, [Next]_vars
  PROVE  LedgerForward
<1> USE DEF SubmissionInv, SubmissionType, CallersApart, CallsCounted, Live,
            IdleCaller, CallerStates
<1>1. ASSUME NEW c \in Callers, CallerStep(c) PROVE LedgerForward
  <2>1. UNCHANGED <<resolution, unsettled>>
    BY <1>1 DEF CallerStep, SubmitOnce, BeginSubmission, DeclineSubmission,
                CallAdapter, AdapterReplies, AcknowledgeSubmission, CallerDies,
                tables, history
  <2>2. ASSUME NEW k \in Keys
        PROVE  /\ sub[k] # "none" => sub'[k] # "none"
               /\ sub[k] = "acknowledged" => sub'[k] = "acknowledged"
               /\ sub[k] # "none" /\ ~ CallPending(k) =>
                    sub'[k] = sub[k] /\ ~ CallPending(k)'
    <3>1. ASSUME NEW j \in Keys, NEW d \in Decisions, SubmitOnce(c, j, d)
          PROVE  sub' = sub /\ (CallPending(k)' => CallPending(k))
      BY <3>1 DEF SubmitOnce, CallPending, outside
    <3>2. CASE DeclineSubmission(c) \/ CallerDies(c)
      <4>1. sub' = sub /\ (CallPending(k)' => CallPending(k))
        BY <3>2 DEF DeclineSubmission, CallerDies, CallPending, outside, tables
      <4>2. QED
        BY <4>1
    <3>3. CASE AdapterReplies(c)
      <4>1. sub' = sub /\ (CallPending(k)' => CallPending(k))
        BY <3>3 DEF AdapterReplies, CallPending, outside, tables
      <4>2. QED
        BY <4>1
    <3>4. CASE BeginSubmission(c)
      <4>1. sub[caller[c].key] = "none" /\ caller[c].key \in Keys
        BY <3>4 DEF BeginSubmission, MayBegin
      <4>2. CASE k = caller[c].key
        BY <4>1, <4>2, <3>4 DEF BeginSubmission
      <4>3. CASE k # caller[c].key
        BY <4>3, <3>4 DEF BeginSubmission, CallPending, outside
      <4>4. QED
        BY <4>2, <4>3
    <3>5. CASE CallAdapter(c)
      <4>1. sub' = sub
        BY <3>5 DEF CallAdapter, tables
      <4>2. CallPending(k)' => CallPending(k)
        BY <3>5 DEF CallAdapter, CallPending
      <4>3. QED
        BY <4>1, <4>2
    <3>6. CASE AcknowledgeSubmission(c)
      <4>1. CallPending(caller[c].key) /\ caller[c].key \in Keys
        BY <3>6 DEF AcknowledgeSubmission, CallPending
      <4>2. CallPending(k)' => CallPending(k)
        BY <3>6 DEF AcknowledgeSubmission, CallPending, outside
      <4>3. QED
        BY <3>6, <4>1, <4>2 DEF AcknowledgeSubmission
    <3>7. QED
      BY <1>1, <3>1, <3>2, <3>3, <3>4, <3>5, <3>6 DEF CallerStep
  <2>3. QED
    BY <2>1, <2>2 DEF LedgerForward
<1>2. ASSUME UNCHANGED submissionVars, wire' \subseteq wire,
             UNCHANGED <<resolution, unsettled>>
      PROVE  LedgerForward
  BY <1>2 DEF submissionVars, LedgerForward, CallPending
<1>3. CASE VenueStep
  <2>1. wire' \subseteq wire /\ UNCHANGED <<resolution, unsettled>>
    BY <1>3 DEF VenueStep, VenueReceives, VenueFills, VenueExpires,
                DecisionExpires, tables, history
  <2>2. QED
    BY <1>2, <1>3, <2>1, OthersFrame
<1>4. CASE RecordResolution
  <2>1. UNCHANGED submissionVars /\ UNCHANGED wire
    BY <1>4, OthersFrame DEF ResolverStep, RecordResolution, outside
  <2>2. \A k \in Keys : resolution[k] # "none" => resolution'[k] = resolution[k]
    BY <1>4 DEF RecordResolution, MayResolve
  <2>3. unsettled \subseteq unsettled'
    BY <1>4 DEF RecordResolution
  <2>4. QED
    BY <2>1, <2>2, <2>3 DEF LedgerForward, submissionVars, CallPending
<1>5. CASE ResolverStep /\ ~ RecordResolution
  <2>1. UNCHANGED <<wire, resolution, unsettled>>
    BY <1>5 DEF ResolverStep, ResolveStart, ResolveReadFills, ResolveReadOrdersAgain,
                ResolveReadFillsAgain, ResolverGivesUp, outside, tables, history
  <2>2. QED
    BY <1>2, <1>5, <2>1, OthersFrame
<1>6. ASSUME NEW p \in Stoppers, StopStep(p) PROVE LedgerForward
  <2>1. UNCHANGED <<wire, resolution, unsettled>>
    BY <1>6 DEF StopStep, RecordHalt, StartEvents, LookInitial, CaptureInitial,
                RecordStart, ReadStates, LookCurrent, CaptureCurrent,
                BeginCancellation, CancelOrder, AcknowledgeCancellation, LookClosing,
                CaptureClosing, RecordCompleted, StopperDies, StopRaises, StopperMoves, Stopper, outside, tables, history
  <2>2. QED
    BY <1>2, <1>6, <2>1, OthersFrame
<1>7. CASE AssessStep
  <2>1. UNCHANGED <<wire, resolution, unsettled>>
    BY <1>7 DEF AssessStep, Assess, AssessSubmissions, AssessStops, AssessClose,
                outside, tables, history
  <2>2. QED
    BY <1>2, <1>7, <2>1, OthersFrame
<1>8. CASE UNCHANGED vars
  BY <1>2, <1>8 DEF vars, tables, outside, procs, history, submissionVars
<1>9. QED
  BY <1>1, <1>3, <1>4, <1>5, <1>6, <1>7, <1>8 DEF Next

LEMMA VenueInit == Init => VenueInv
  BY LedgerAssumption DEF Init, VenueInv, VenueType, VenueShapes, AbsentOrder

LEMMA VenueGoesForward ==
  ASSUME SubmissionInv, VenueInv, StopType, [Next]_vars
  PROVE  VenueInv' /\ VenueForward
<1> USE DEF VenueInv, VenueType, VenueShapes, VenueForward, Ended
<1>0. Qty \in Nat /\ Qty # 0
  BY LedgerAssumption
<1>1. \A k \in Keys : sub[k] # "none" => sub'[k] # "none"
  BY LedgerGoesForward DEF LedgerForward
<1>2. CASE UNCHANGED <<wire, venue>>
  BY <1>0, <1>1, <1>2
<1>3. ASSUME NEW c \in Callers, CallAdapter(c)
      PROVE  VenueInv' /\ VenueForward
  <2>1. caller[c].key \in Keys /\ sub[caller[c].key] # "none"
    BY <1>3 DEF CallAdapter, SubmissionInv, SubmissionType, CallersApart, Live,
                CallerStates
  <2>2. venue' = venue /\ wire' = wire \union {caller[c].key}
    BY <1>3 DEF CallAdapter
  <2>3. QED
    BY <1>0, <1>1, <2>1, <2>2
<1>4. ASSUME NEW k \in Keys, VenueReceives(k)
      PROVE  VenueInv' /\ VenueForward
  <2>1. wire' \subseteq wire /\ k \in wire
    BY <1>4 DEF VenueReceives
  <2>2. CASE venue' = venue
    BY <1>0, <1>1, <2>1, <2>2
  <2>3. CASE venue[k].status # "absent"
    <3>1. venue' = venue
      BY <1>4, <2>3 DEF VenueReceives, AbsentOrder
    <3>2. QED
      BY <2>2, <3>1
  <2>4. CASE venue[k].status = "absent" /\ venue' # venue
    <3>1. venue' = [venue EXCEPT ![k] = [status |-> "open", filled |-> 0]]
      BY <1>4, <2>4 DEF VenueReceives, AbsentOrder
    <3>2. VenueType'
      BY <1>0, <2>1, <3>1
    <3>3. VenueShapes'
      BY <1>0, <1>1, <2>1, <3>1
    <3>4. VenueForward
      BY <1>0, <2>1, <2>4, <3>1
    <3>5. QED
      BY <3>2, <3>3, <3>4
  <2>5. QED
    BY <2>2, <2>3, <2>4
<1>5. ASSUME NEW k \in Keys, VenueFills(k)
      PROVE  VenueInv' /\ VenueForward
  <2>1. wire' = wire /\ venue[k].status = "open" /\ venue[k].filled < Qty
    BY <1>5 DEF VenueFills, IsOpen
  <2>2. /\ venue' = [venue EXCEPT ![k] = venue'[k]]
        /\ venue'[k] = [status |-> IF venue[k].filled + 1 = Qty THEN "filled" ELSE "open",
                        filled |-> venue[k].filled + 1]
    BY <1>5 DEF VenueFills
  <2>3. VenueType'
    BY <1>0, <2>1, <2>2
  <2>4. VenueShapes'
    BY <1>0, <1>1, <2>1, <2>2
  <2>5. VenueForward
    BY <1>0, <2>1, <2>2
  <2>6. QED
    BY <2>3, <2>4, <2>5
<1>6. ASSUME NEW k \in Keys, wire' = wire, venue[k].status = "open",
             venue' = [venue EXCEPT ![k].status = "cancelled"]
      PROVE  VenueInv' /\ VenueForward
  <2>1. VenueType'
    BY <1>0, <1>6
  <2>2. VenueShapes'
    BY <1>0, <1>1, <1>6
  <2>3. VenueForward
    BY <1>0, <1>6
  <2>4. QED
    BY <2>1, <2>2, <2>3
<1>7. ASSUME NEW k \in Keys, VenueExpires(k)
      PROVE  VenueInv' /\ VenueForward
  BY <1>6, <1>7 DEF VenueExpires, IsOpen
<1>8. ASSUME NEW p \in Stoppers, CancelOrder(p)
      PROVE  VenueInv' /\ VenueForward
  <2>1. wire' = wire /\ stopper[p].key \in Keys
    BY <1>8 DEF CancelOrder, StopType, StopperStates
  <2>2. CASE IsOpen(stopper[p].key)
    BY <1>6, <1>8, <2>1, <2>2 DEF CancelOrder, IsOpen
  <2>3. CASE ~ IsOpen(stopper[p].key)
    BY <1>2, <1>8, <2>1, <2>3 DEF CancelOrder
  <2>4. QED
    BY <2>2, <2>3
<1>9. QED
  BY <1>2, <1>3, <1>4, <1>5, <1>7, <1>8, VenueFrame

-----------------------------------------------------------------------------
(* resolve_uncertain.                                                      *)

\* The resolver's first read did not have its key among the open orders.
SeenClosed == resolver.key \notin DOMAIN resolver.orders

\* A call that had ended when the resolver began has left the key alone.
KeyQuiet == resolver.pc # "idle" /\ resolver.settled =>
  /\ sub[resolver.key] = "uncertain" /\ ~ CallPending(resolver.key)
  /\ SeenClosed => ~ IsOpen(resolver.key)

\* The fills the resolver has read hold of the venue now, as far as they can.
FillsHold ==
  LET k == resolver.key IN
  /\ resolver.pc \in {"orders again", "fills again", "record"} =>
       /\ resolver.fills[k] <= venue[k].filled
       /\ resolver.settled /\ SeenClosed => resolver.fills[k] = venue[k].filled
  /\ resolver.pc \in {"fills again", "record"} /\ SeenClosed /\ resolver.fills[k] > 0 =>
       Ended(k)
  /\ resolver.pc = "record" /\ SeenClosed /\ resolver.fills[k] > 0 =>
       resolver.fills[k] = venue[k].filled

ReadsHold == KeyQuiet /\ FillsHold

\* A key adjudicated after its call had ended is out of every caller's hands.
AdjudicatedApart == \A k \in Keys :
  resolution[k] # "none" /\ k \notin unsettled =>
    sub[k] = "uncertain" /\ ~ CallPending(k)

ResolutionType ==
  /\ resolution \in [Keys -> Outcomes \union {"none"}]
  /\ unsettled \subseteq Keys
  /\ resolver \in ResolverStates

ResolutionInv == ResolutionType /\ ReadsHold /\ AdjudicatedApart /\ ResolutionTrue

-----------------------------------------------------------------------------
(* startup_readiness.assess.                                               *)

\* An order seen open has its acknowledgement, or its call could land late,
\* or it has ended since: then the closing snapshot differs.
SeenAccounted ==
  /\ assessor.pc = "submissions" =>
       \A k \in DOMAIN assessor.seen : venue[k].status # "absent"
  /\ assessor.pc \in {"stops", "closing"} =>
       \A k \in DOMAIN assessor.seen :
         sub[k] = "acknowledged" \/ k \in unsettled \/ Ended(k)

AssessmentInv == assessor \in AssessorStates /\ SeenAccounted /\ SafeAssessment

-----------------------------------------------------------------------------
(* cancel_all_and_halt.                                                    *)

\* What the tables of an operation say of one another and of the venue.  Its
\* state is st, its plan pl, its cancellations ca; the venue's orders are ve
\* and the cancel_order calls cc.
Tables(st, pl, ca, ve, cc) ==
  /\ st = "none" => \A k \in Keys : ca[k] = "none"
  /\ st = "completed" => \A k \in DOMAIN pl : ca[k] = "acknowledged"
  /\ \A k \in Keys :
       /\ ca[k] # "none" => k \in DOMAIN pl
       /\ ca[k] = "uncertain" => st = "started"
       /\ ca[k] = "acknowledged" =>
            ve[k] = [status |-> "cancelled", filled |-> pl[k]] /\ cc[k] > 0

\* What a run in state s may rely on.  An order it saw open and nobody has
\* begun to cancel was not asked for yet; the cancellation it is about to
\* request was not requested before unless it is acknowledged.
Fits(s, st, pl, ca, ve, cc) ==
  /\ s.pc \in {"states", "next look", "current", "cancel", "call", "ack",
               "closing", "record end"} => st # "none"
  /\ s.pc \in {"current", "cancel", "call", "ack"} => \A k \in DOMAIN s.seen :
       /\ ve[k].status # "absent"
       /\ k \in DOMAIN pl /\ ca[k] = "none" => cc[k] = 0
  /\ s.pc \in {"call", "ack"} =>
       s.key \in DOMAIN s.seen /\ s.key \in DOMAIN pl /\ ca[s.key] # "none"
  /\ s.pc = "call" /\ ca[s.key] = "uncertain" => cc[s.key] = 0
  /\ s.pc = "ack" =>
       ve[s.key] = [status |-> "cancelled", filled |-> pl[s.key]] /\ cc[s.key] > 0

TablesFit(h) == Tables(stop[h], planned[h], cancel[h], venue, cancelCalls)

RunFits(p) == Fits(stopper[p], stop[HaltOf(p)], planned[HaltOf(p)],
                   cancel[HaltOf(p)], venue, cancelCalls)

\* One operation is in progress at a time.
OneStarted == \A g, h \in Halts : stop[g] = "started" /\ stop[h] = "started" => g = h

\* A cancellation of unknown fate is in the hands of one run.
RunsApart == \A p, q \in Stoppers :
  /\ HaltOf(p) = HaltOf(q)
  /\ stopper[p].pc \in {"call", "ack"} /\ stopper[q].pc \in {"call", "ack"}
  /\ stopper[p].key = stopper[q].key
  /\ cancel[HaltOf(p)][stopper[p].key] = "uncertain"
  => p = q

\* An order the venue was asked to cancel has ended, and one it was asked for
\* again has its acknowledgement.
CallsEnded == \A k \in Keys :
  /\ cancelCalls[k] > 0 => Ended(k)
  /\ cancelCalls[k] > 1 => \E h \in Halts : cancel[h][k] = "acknowledged"

StopInv ==
  /\ StopType /\ OneStarted /\ RunsApart /\ CallsEnded
  /\ \A h \in Halts : TablesFit(h)
  /\ \A p \in Stoppers : RunFits(p)

\* What the tables say stays true while ended orders stay as they are.
LEMMA TablesKept ==
  ASSUME NEW st, NEW pl, NEW ca, NEW ve, NEW cc, NEW ve2, NEW cc2,
         Tables(st, pl, ca, ve, cc),
         \A k \in Keys : ve[k].status \in {"filled", "cancelled"} => ve2[k] = ve[k],
         \A k \in Keys : cc[k] > 0 => cc2[k] > 0
  PROVE  Tables(st, pl, ca, ve2, cc2)
  BY DEF Tables

\* A run keeps what it relies on while operations and cancellations only go
\* forward and no cancellation is requested.
LEMMA FitsKept ==
  ASSUME NEW s \in StopperStates, NEW st, NEW pl, NEW ca, NEW ve, NEW cc,
         NEW st2, NEW pl2, NEW ca2, NEW ve2,
         Fits(s, st, pl, ca, ve, cc),
         st # "none" => st2 # "none" /\ pl2 = pl,
         \A k \in Keys : ca[k] # "none" => ca2[k] \in {ca[k], "acknowledged"},
         \A k \in Keys : ve[k].status \in {"filled", "cancelled"} => ve2[k] = ve[k],
         \A k \in Keys : ve[k].status # "absent" => ve2[k].status # "absent"
  PROVE  Fits(s, st2, pl2, ca2, ve2, cc)
<1>1. /\ s.pc \in {"current", "cancel", "call", "ack"} => DOMAIN s.seen \subseteq Keys
      /\ s.pc \in {"call", "ack"} => s.key \in Keys
  BY StopperShapes, ReadsDomain
<1>2. CASE s.pc \notin {"states", "next look", "current", "cancel", "call", "ack",
                        "closing", "record end"}
  BY <1>2 DEF Fits
<1>3. CASE s.pc \in {"states", "next look", "closing", "record end"}
  BY <1>3 DEF Fits
<1>4. CASE s.pc \in {"current", "cancel", "call", "ack"}
  <2>1. st # "none" /\ st2 # "none" /\ pl2 = pl
    BY <1>4 DEF Fits
  <2>2. \A k \in DOMAIN s.seen :
          /\ ve2[k].status # "absent"
          /\ k \in DOMAIN pl2 /\ ca2[k] = "none" => cc[k] = 0
    BY <1>1, <1>4, <2>1 DEF Fits
  <2>3. CASE s.pc \in {"current", "cancel"}
    BY <2>1, <2>2, <2>3 DEF Fits
  <2>4. CASE s.pc \in {"call", "ack"}
    <3>1. /\ s.key \in Keys /\ s.key \in DOMAIN s.seen /\ s.key \in DOMAIN pl2
          /\ ca[s.key] # "none" /\ ca2[s.key] \in {ca[s.key], "acknowledged"}
      BY <1>1, <2>1, <2>4 DEF Fits
    <3>2. s.pc = "call" /\ ca2[s.key] = "uncertain" => cc[s.key] = 0
      BY <3>1 DEF Fits
    <3>3. s.pc = "ack" =>
            ve2[s.key] = [status |-> "cancelled", filled |-> pl2[s.key]] /\ cc[s.key] > 0
      <4> HAVE s.pc = "ack"
      <4>1. ve[s.key] = [status |-> "cancelled", filled |-> pl[s.key]] /\ cc[s.key] > 0
        BY DEF Fits
      <4>2. ve[s.key].status = "cancelled"
        BY <4>1
      <4>3. QED
        BY <2>1, <3>1, <4>1, <4>2
    <3>4. ca2[s.key] # "none"
      BY <3>1
    <3>5. QED
      BY <2>1, <2>2, <2>4, <3>1, <3>2, <3>3, <3>4 DEF Fits
  <2>5. QED
    BY <1>4, <2>3, <2>4
<1>5. QED
  BY <1>2, <1>3, <1>4

LEMMA StopInit == Init => StopInv
<1> SUFFICES ASSUME Init PROVE StopInv
  OBVIOUS
<1>1. StopType
  <2>1. <<>> \in OrderReads
    <3>1. <<>> \in [{} -> 0..Qty]
      OBVIOUS
    <3>2. QED
      BY <3>1 DEF OrderReads
  <2>2. QED
    BY <2>1, StopperShapes DEF StopType, Init
<1>2. \A p \in Stoppers : stopper[p].pc = "idle"
  BY DEF Init, IdleReader
<1>3. \A p \in Stoppers : RunFits(p)
  BY <1>2 DEF RunFits, Fits
<1>4. RunsApart
  BY <1>2 DEF RunsApart
<1>5. \A h \in Halts : TablesFit(h)
  BY DEF Init, TablesFit, Tables
<1>6. OneStarted /\ CallsEnded
  BY DEF Init, OneStarted, CallsEnded
<1>7. QED
  BY <1>1, <1>3, <1>4, <1>5, <1>6 DEF StopInv

\* No step of another process disturbs the stop operations: what they rest
\* on at the venue has ended.
LEMMA StopApart ==
  ASSUME StopInv, VenueForward, StopType',
         UNCHANGED <<halts, stop, planned, cancel, stopper, cancelCalls>>
  PROVE  StopInv'
<1>0. StopType /\ OneStarted /\ RunsApart /\ CallsEnded
  BY DEF StopInv
<1>1. /\ \A k \in Keys : venue[k].status \in {"filled", "cancelled"} => venue'[k] = venue[k]
      /\ \A k \in Keys : venue[k].status # "absent" => venue'[k].status # "absent"
  BY DEF VenueForward, Ended
<1>2. ASSUME NEW h \in Halts PROVE TablesFit(h)'
  BY <1>1, TablesKept DEF StopInv, TablesFit
<1>3. ASSUME NEW p \in Stoppers PROVE RunFits(p)'
  <2>1. PICK s \in StopperStates : s = stopper[p]
    BY <1>0 DEF StopType
  <2>2. PICK h \in Halts : h = HaltOf(p)
    BY HaltOfType
  <2>3. Fits(s, stop[h], planned[h], cancel[h], venue, cancelCalls)
    BY <2>1, <2>2 DEF StopInv, RunFits
  <2>4. Fits(s, stop[h], planned[h], cancel[h], venue', cancelCalls)
    BY <1>1, <2>3, FitsKept
  <2>5. QED
    BY <2>1, <2>2, <2>4 DEF RunFits
<1>4. CallsEnded'
  BY <1>0, <1>1 DEF CallsEnded, Ended
<1>5. OneStarted' /\ RunsApart'
  BY <1>0 DEF OneStarted, RunsApart
<1>6. QED
  BY <1>2, <1>3, <1>4, <1>5 DEF StopInv

\* A step that only moves one run, to a place where it relies on no more
\* than holds.
LEMMA RunMoves ==
  ASSUME StopInv, StopType', NEW p \in Stoppers, NEW r \in StopperStates, Stopper(p, r),
         UNCHANGED <<stop, planned, cancel, cancelCalls, venue>>,
         r.pc \notin {"call", "ack"},
         Fits(r, stop[HaltOf(p)], planned[HaltOf(p)], cancel[HaltOf(p)], venue, cancelCalls)
  PROVE  StopInv'
<1>0. StopType /\ OneStarted /\ RunsApart /\ CallsEnded
  BY DEF StopInv
<1>1. /\ stopper'[p] = r
      /\ \A q \in Stoppers : q # p => stopper'[q] = stopper[q]
  BY <1>0 DEF Stopper, StopType
<1>2. \A h \in Halts : TablesFit(h)'
  BY DEF StopInv, TablesFit
<1>3. ASSUME NEW q \in Stoppers PROVE RunFits(q)'
  <2>1. CASE q = p
    BY <1>1, <2>1 DEF RunFits
  <2>2. CASE q # p
    <3>1. RunFits(q)
      BY DEF StopInv
    <3>2. stopper'[q] = stopper[q]
      BY <1>1, <2>2
    <3>3. QED
      BY <3>1, <3>2 DEF RunFits
  <2>3. QED
    BY <2>1, <2>2
<1>4. RunsApart'
  BY <1>0, <1>1 DEF RunsApart
<1>5. OneStarted' /\ CallsEnded'
  BY <1>0 DEF OneStarted, CallsEnded, Ended
<1>6. QED
  BY <1>2, <1>3, <1>4, <1>5 DEF StopInv

\* Steps that record something: nothing of a run other than p changes but by
\* the tables, and those only go forward.
LEMMA OthersFit ==
  ASSUME StopInv, NEW q \in Stoppers, stopper'[q] = stopper[q],
         UNCHANGED <<venue, cancelCalls>>,
         stop[HaltOf(q)] # "none" =>
           stop'[HaltOf(q)] # "none" /\ planned'[HaltOf(q)] = planned[HaltOf(q)],
         \A k \in Keys : cancel[HaltOf(q)][k] # "none" =>
           cancel'[HaltOf(q)][k] \in {cancel[HaltOf(q)][k], "acknowledged"}
  PROVE  RunFits(q)'
<1>1. PICK s \in StopperStates : s = stopper[q]
  BY DEF StopInv, StopType
<1>2. Fits(s, stop[HaltOf(q)], planned[HaltOf(q)], cancel[HaltOf(q)], venue, cancelCalls)
  BY <1>1 DEF StopInv, RunFits
<1>3. Fits(s, stop'[HaltOf(q)], planned'[HaltOf(q)], cancel'[HaltOf(q)], venue, cancelCalls)
  BY <1>2, FitsKept
<1>4. QED
  BY <1>1, <1>3 DEF RunFits

\* record_emergency_stop_event starts the operation.
LEMMA StartStep ==
  ASSUME StopInv, StopType', NEW p \in Stoppers, NEW h \in Halts, h = HaltOf(p),
         MayStartStop(h), stop' = [stop EXCEPT ![h] = "started"],
         planned' = [planned EXCEPT ![h] = stopper[p].seen],
         Stopper(p, [pc |-> "states", done |-> FALSE]),
         UNCHANGED <<cancel, venue, cancelCalls>>
  PROVE  StopInv'
<1>0. StopType /\ OneStarted /\ RunsApart /\ CallsEnded
  BY DEF StopInv
<1>1. /\ stop[h] = "none" /\ stop'[h] = "started"
      /\ \A g \in Halts : g # h =>
           stop'[g] = stop[g] /\ planned'[g] = planned[g] /\ stop[g] # "started"
  BY <1>0 DEF StopType, MayStartStop, OtherStarted
<1>2. /\ stopper'[p] = [pc |-> "states", done |-> FALSE]
      /\ \A q \in Stoppers : q # p => stopper'[q] = stopper[q]
  BY <1>0 DEF Stopper, StopType
<1>3. ASSUME NEW g \in Halts PROVE TablesFit(g)'
  <2>1. TablesFit(g)
    BY DEF StopInv
  <2>2. CASE g = h
    BY <1>1, <2>1, <2>2 DEF TablesFit, Tables
  <2>3. CASE g # h
    BY <1>1, <2>1, <2>3 DEF TablesFit
  <2>4. QED
    BY <2>2, <2>3
<1>4. ASSUME NEW q \in Stoppers PROVE RunFits(q)'
  <2>1. CASE q = p
    <3>1. stopper'[p].pc = "states"
      BY <1>2
    <3>2. Fits(stopper'[p], stop'[h], planned'[h], cancel'[h], venue', cancelCalls')
      BY <1>1, <3>1 DEF Fits
    <3>3. QED
      BY <2>1, <3>2 DEF RunFits
  <2>2. CASE q # p
    <3>1. PICK g \in Halts : g = HaltOf(q)
      BY HaltOfType
    <3>2. stop[g] # "none" => stop'[g] # "none" /\ planned'[g] = planned[g]
      BY <1>1
    <3>3. QED
      BY <1>2, <2>2, <3>1, <3>2, OthersFit
  <2>3. QED
    BY <2>1, <2>2
<1>5. OneStarted'
  BY <1>1 DEF OneStarted
<1>6. RunsApart'
  BY <1>0, <1>2 DEF RunsApart
<1>7. CallsEnded'
  BY <1>0 DEF CallsEnded, Ended
<1>8. QED
  BY <1>3, <1>4, <1>5, <1>6, <1>7 DEF StopInv

\* begin_cancellation, for an order not begun or acknowledged meanwhile.
LEMMA BeginStep ==
  ASSUME StopInv, StopType', NEW p \in Stoppers, NEW h \in Halts, h = HaltOf(p),
         NEW k \in Keys, stopper[p].pc = "cancel", k \in ToCancel(p),
         StillAsPlanned(p, k), CancelKnown(h, k),
         cancel' = [cancel EXCEPT ![h][k] = Begun(h, k)],
         Stopper(p, [pc |-> "call", key |-> k, seen |-> stopper[p].seen,
                     acked |-> stopper[p].acked]),
         UNCHANGED <<stop, planned, venue, cancelCalls>>
  PROVE  StopInv'
<1>0. StopType /\ OneStarted /\ RunsApart /\ CallsEnded
  BY DEF StopInv
<1>1. /\ stopper'[p].pc = "call" /\ stopper'[p].key = k
      /\ stopper'[p].seen = stopper[p].seen
      /\ \A q \in Stoppers : q # p => stopper'[q] = stopper[q]
  BY <1>0 DEF Stopper, StopType
<1>2. /\ cancel[h][k] \in {"none", "acknowledged"}
      /\ cancel'[h][k] = IF cancel[h][k] = "none" THEN "uncertain" ELSE cancel[h][k]
      /\ \A j \in Keys : j # k => cancel'[h][j] = cancel[h][j]
      /\ \A g \in Halts : g # h => cancel'[g] = cancel[g]
  BY <1>0 DEF StopType, CancelKnown, Begun
<1>3. k \in DOMAIN planned[h] /\ k \in DOMAIN stopper[p].seen
  BY DEF ToCancel, StillAsPlanned
<1>4. Fits(stopper[p], stop[h], planned[h], cancel[h], venue, cancelCalls)
  BY DEF StopInv, RunFits
<1>5. stop[h] # "none" /\ (cancel[h][k] = "none" => cancelCalls[k] = 0)
  BY <1>3, <1>4 DEF Fits
<1>6. ASSUME NEW g \in Halts PROVE TablesFit(g)'
  <2>1. TablesFit(g)
    BY DEF StopInv
  <2>2. CASE g = h
    <3>1. cancel[h][k] = "none" => stop[h] = "started"
      BY <1>0, <1>3, <1>5, <2>1, <2>2 DEF TablesFit, Tables, StopType
    <3>2. \A j \in Keys :
            /\ cancel'[h][j] = "acknowledged" => cancel[h][j] = "acknowledged"
            /\ cancel[h][j] = "acknowledged" => cancel'[h][j] = "acknowledged"
            /\ j # k => cancel'[h][j] = cancel[h][j]
      BY <1>2
    <3>3. DOMAIN planned[h] \subseteq Keys
      BY <1>0, ReadsDomain DEF StopType
    <3>4. Tables(stop[h], planned[h], cancel'[h], venue, cancelCalls)
      <4>1. Tables(stop[h], planned[h], cancel[h], venue, cancelCalls)
        BY <2>1, <2>2 DEF TablesFit
      <4>2. stop[h] = "completed" => \A j \in DOMAIN planned[h] : cancel'[h][j] = "acknowledged"
        BY <3>2, <3>3, <4>1 DEF Tables
      <4>3. ASSUME NEW j \in Keys
            PROVE  /\ cancel'[h][j] # "none" => j \in DOMAIN planned[h]
                   /\ cancel'[h][j] = "uncertain" => stop[h] = "started"
                   /\ cancel'[h][j] = "acknowledged" =>
                        /\ venue[j] = [status |-> "cancelled", filled |-> planned[h][j]]
                        /\ cancelCalls[j] > 0
        <5>1. CASE j = k
          BY <1>2, <1>3, <3>1, <3>2, <4>1, <5>1 DEF Tables
        <5>2. CASE j # k
          BY <3>2, <4>1, <5>2 DEF Tables
        <5>3. QED
          BY <5>1, <5>2
      <4>4. QED
        BY <1>5, <4>2, <4>3 DEF Tables
    <3>5. QED
      BY <2>2, <3>4 DEF TablesFit
  <2>3. CASE g # h
    BY <1>2, <2>1, <2>3 DEF TablesFit
  <2>4. QED
    BY <2>2, <2>3
<1>7. ASSUME NEW q \in Stoppers PROVE RunFits(q)'
  <2>1. CASE q = p
    <3>1. cancel'[h][k] # "none" /\ (cancel'[h][k] = "uncertain" => cancelCalls[k] = 0)
      BY <1>2, <1>5
    <3>2. DOMAIN stopper[p].seen \subseteq Keys
      BY <1>0, StopperShapes, ReadsDomain DEF StopType
    <3>3. \A j \in DOMAIN stopper[p].seen :
            /\ venue[j].status # "absent"
            /\ j \in DOMAIN planned[h] /\ cancel'[h][j] = "none" => cancelCalls[j] = 0
      BY <1>2, <1>4, <3>1, <3>2 DEF Fits
    <3>4. Fits(stopper'[p], stop[h], planned[h], cancel'[h], venue, cancelCalls)
      BY <1>1, <1>3, <1>5, <3>1, <3>3 DEF Fits
    <3>5. QED
      BY <2>1, <3>4 DEF RunFits
  <2>2. CASE q # p
    <3>1. PICK g \in Halts : g = HaltOf(q)
      BY HaltOfType
    <3>2. \A j \in Keys : cancel[g][j] # "none" =>
            cancel'[g][j] \in {cancel[g][j], "acknowledged"}
      BY <1>2
    <3>3. QED
      BY <1>1, <2>2, <3>1, <3>2, OthersFit
  <2>3. QED
    BY <2>1, <2>2
<1>8. RunsApart'
  <2> SUFFICES ASSUME NEW a \in Stoppers, NEW b \in Stoppers, HaltOf(a) = HaltOf(b),
                      stopper'[a].pc \in {"call", "ack"}, stopper'[b].pc \in {"call", "ack"},
                      stopper'[a].key = stopper'[b].key,
                      cancel'[HaltOf(a)][stopper'[a].key] = "uncertain", a # b
               PROVE  FALSE
    BY DEF RunsApart
  <2>1. ASSUME NEW q \in Stoppers, q # p, stopper'[q].pc \in {"call", "ack"}
        PROVE  cancel[HaltOf(q)][stopper'[q].key] # "none" /\ stopper'[q].key \in Keys
    <3>1. RunFits(q) /\ stopper'[q] = stopper[q]
      BY <1>1, <2>1 DEF StopInv
    <3>2. QED
      BY <1>0, <2>1, <3>1, StopperShapes DEF RunFits, Fits, StopType
  <2>2. CASE a # p /\ b # p
    <3>1. PICK g \in Halts : g = HaltOf(a)
      BY HaltOfType
    <3>2. PICK j \in Keys : j = stopper'[a].key
      BY <2>1, <2>2
    <3>3. cancel[g][j] # "none"
      BY <2>1, <2>2, <3>1, <3>2
    <3>4. cancel[g][j] = "uncertain"
      BY <1>2, <3>1, <3>2, <3>3
    <3>5. QED
      BY <1>0, <1>1, <2>2, <3>1, <3>2, <3>4 DEF RunsApart
  <2>3. CASE a = p \/ b = p
    <3>1. PICK q \in Stoppers : q \in {a, b} /\ q # p
      BY <2>3
    <3>2. HaltOf(q) = h /\ stopper'[q].key = k /\ stopper'[q].pc \in {"call", "ack"}
      BY <1>1, <2>3, <3>1
    <3>3. cancel[h][k] # "none" /\ cancel'[h][k] = "uncertain"
      BY <1>1, <2>1, <2>3, <3>1, <3>2
    <3>4. QED
      BY <1>2, <3>3
  <2>4. QED
    BY <2>2, <2>3
<1>9. CallsEnded'
  <2>1. \A g \in Halts, j \in Keys : cancel[g][j] = "acknowledged" => cancel'[g][j] = "acknowledged"
    BY <1>2
  <2>2. QED
    BY <1>0, <2>1 DEF CallsEnded, Ended
<1>10. OneStarted'
  BY <1>0 DEF OneStarted
<1>11. QED
  BY <1>6, <1>7, <1>8, <1>9, <1>10 DEF StopInv

\* adapter.cancel_order: a first request for the order, or one for an order
\* whose cancellation is acknowledged.
LEMMA CancelStep ==
  ASSUME StopInv, VenueInv, VenueForward, StopType', NEW p \in Stoppers, CancelOrder(p)
  PROVE  StopInv'
<1>0. StopType /\ OneStarted /\ RunsApart /\ CallsEnded
  BY DEF StopInv
<1>h. PICK h \in Halts : h = HaltOf(p)
  BY HaltOfType
<1>k. PICK k \in Keys : k = stopper[p].key
  BY <1>0, StopperShapes DEF CancelOrder, StopType
<1>1. /\ stopper[p].pc = "call"
      /\ Fits(stopper[p], stop[h], planned[h], cancel[h], venue, cancelCalls)
      /\ UNCHANGED <<stop, planned, cancel>>
  BY <1>h DEF CancelOrder, StopInv, RunFits, tables
<1>2. /\ stop[h] # "none" /\ k \in DOMAIN planned[h] /\ cancel[h][k] # "none"
      /\ k \in DOMAIN stopper[p].seen /\ venue[k].status # "absent"
      /\ cancel[h][k] = "uncertain" => cancelCalls[k] = 0
  BY <1>k, <1>1 DEF Fits
<1>3. /\ cancelCalls'[k] = cancelCalls[k] + 1 /\ cancelCalls[k] \in Nat
      /\ \A j \in Keys : cancelCalls[j] \in Nat
      /\ \A j \in Keys : j # k => cancelCalls'[j] = cancelCalls[j]
  BY <1>0, <1>k DEF CancelOrder, StopType
<1>4. /\ venue' = IF IsOpen(k) THEN [venue EXCEPT ![k].status = "cancelled"] ELSE venue
      /\ Ended(k)'
  <2>1. venue' = IF IsOpen(k) THEN [venue EXCEPT ![k].status = "cancelled"] ELSE venue
    BY <1>k DEF CancelOrder
  <2>2. QED
    BY <1>2, <2>1 DEF VenueInv, VenueType, IsOpen, Ended
<1>5. /\ \A j \in Keys : venue[j].status \in {"filled", "cancelled"} => venue'[j] = venue[j]
      /\ \A j \in Keys : venue[j].status # "absent" => venue'[j].status # "absent"
  BY DEF VenueForward, Ended
<1>6. \A q \in Stoppers : q # p => stopper'[q] = stopper[q]
  BY <1>0 DEF CancelOrder, Stopper, StopType
<1>7. \/ stopper'[p].pc = "idle"
      \/ /\ stopper'[p].pc = "ack" /\ stopper'[p].key = k
         /\ stopper'[p].seen = stopper[p].seen
         /\ venue'[k] = [status |-> "cancelled", filled |-> planned[h][k]]
  <2>1. CASE CancelAnswers(p, k)
    <3>1. stopper'[p] = [pc |-> "ack", key |-> k, seen |-> stopper[p].seen,
                         acked |-> stopper[p].acked]
      BY <1>0, <1>k, <2>1 DEF CancelOrder, Stopper, StopType
    <3>2. venue[k].status \in {"open", "cancelled"} /\ venue[k].filled = planned[h][k]
      BY <1>h, <2>1 DEF CancelAnswers
    <3>3. venue'[k] = [status |-> "cancelled", filled |-> planned[h][k]]
      BY <1>4, <3>2 DEF VenueInv, VenueType, IsOpen
    <3>4. QED
      BY <3>1, <3>3
  <2>2. CASE ~ CancelAnswers(p, k)
    <3>1. stopper'[p] = IdleReader
      BY <1>0, <1>k, <2>2 DEF CancelOrder, Stopper, StopType
    <3>2. QED
      BY <3>1, StopperShapes
  <2>3. QED
    BY <2>1, <2>2
<1>8. ASSUME NEW g \in Halts PROVE TablesFit(g)'
  <2>1. TablesFit(g)
    BY DEF StopInv
  <2>2. \A j \in Keys : cancelCalls[j] > 0 => cancelCalls'[j] > 0
    BY <1>3
  <2>3. Tables(stop[g], planned[g], cancel[g], venue', cancelCalls')
    BY <1>5, <2>1, <2>2, TablesKept DEF TablesFit
  <2>4. QED
    BY <1>1, <2>3 DEF TablesFit
\* Another operation in progress: then this one's cancellation is settled.
<1>9. ASSUME NEW g \in Halts, g # h, stop[g] = "started" PROVE cancelCalls[k] > 0
  <2>1. stop[h] # "started" /\ TablesFit(h)
    BY <1>0, <1>9 DEF OneStarted, StopInv
  <2>2. cancel[h][k] = "acknowledged"
    BY <1>0, <1>2, <2>1 DEF TablesFit, Tables, StopType
  <2>3. QED
    BY <2>1, <2>2 DEF TablesFit, Tables
<1>10. ASSUME NEW q \in Stoppers PROVE RunFits(q)'
  <2>1. CASE q = p
    <3>1. CASE stopper'[p].pc = "idle"
      BY <2>1, <3>1 DEF RunFits, Fits
    <3>2. CASE stopper'[p].pc = "ack"
      <4>1. DOMAIN stopper[p].seen \subseteq Keys
        BY <1>0, <1>1, StopperShapes, ReadsDomain DEF StopType
      <4>2. \A j \in DOMAIN stopper[p].seen :
              /\ venue'[j].status # "absent"
              /\ j \in DOMAIN planned[h] /\ cancel[h][j] = "none" => cancelCalls'[j] = 0
        BY <1>1, <1>2, <1>3, <1>5, <4>1 DEF Fits
      <4>3. cancelCalls'[k] > 0
        BY <1>3
      <4>4. Fits(stopper'[p], stop[h], planned[h], cancel[h], venue', cancelCalls')
        BY <1>2, <1>7, <3>2, <4>2, <4>3 DEF Fits
      <4>5. QED
        BY <1>h, <1>1, <2>1, <4>4 DEF RunFits
    <3>3. QED
      BY <1>7, <3>1, <3>2
  <2>2. CASE q # p
    <3>1. PICK s \in StopperStates : s = stopper[q] /\ s = stopper'[q]
      BY <1>0, <1>6, <2>2 DEF StopType
    <3>2. PICK g \in Halts : g = HaltOf(q)
      BY HaltOfType
    <3>3. Fits(s, stop[g], planned[g], cancel[g], venue, cancelCalls)
      BY <3>1, <3>2 DEF StopInv, RunFits
    <3>4. Fits(s, stop[g], planned[g], cancel[g], venue', cancelCalls)
      BY <1>5, <3>3, FitsKept
    <3>5. TablesFit(g)
      BY DEF StopInv
    <3>6. /\ s.pc \in {"current", "cancel", "call", "ack"} => DOMAIN s.seen \subseteq Keys
          /\ s.pc \in {"call", "ack"} => s.key \in Keys
      BY StopperShapes, ReadsDomain
    <3>7. ASSUME s.pc \in {"current", "cancel", "call", "ack"}, NEW j \in DOMAIN s.seen,
                 j \in DOMAIN planned[g], cancel[g][j] = "none"
          PROVE  cancelCalls'[j] = 0
      <4>1. cancelCalls[j] = 0 /\ stop[g] # "none" /\ j \in Keys
        BY <3>3, <3>6, <3>7 DEF Fits
      <4>2. stop[g] = "started"
        BY <1>0, <3>5, <3>7, <4>1 DEF TablesFit, Tables, StopType
      <4>3. j # k
        BY <1>2, <1>9, <3>7, <4>1, <4>2
      <4>4. QED
        BY <1>3, <4>1, <4>3
    <3>8. ASSUME s.pc = "call", cancel[g][s.key] = "uncertain"
          PROVE  cancelCalls'[s.key] = 0
      <4>1. cancelCalls[s.key] = 0 /\ s.key \in Keys
        BY <3>3, <3>6, <3>8 DEF Fits
      <4>2. stop[g] = "started"
        BY <3>5, <3>8, <4>1 DEF TablesFit, Tables
      <4>3. s.key # k
        <5>1. CASE g = h
          BY <1>0, <1>h, <1>k, <1>1, <2>2, <3>1, <3>2, <3>8, <5>1 DEF RunsApart
        <5>2. CASE g # h
          BY <1>9, <4>1, <4>2, <5>2
        <5>3. QED
          BY <5>1, <5>2
      <4>4. QED
        BY <1>3, <4>1, <4>3
    <3>9. s.pc = "ack" => cancelCalls'[s.key] > 0
      BY <1>3, <3>3, <3>6 DEF Fits
    <3>10. Fits(s, stop[g], planned[g], cancel[g], venue', cancelCalls')
      BY <3>4, <3>7, <3>8, <3>9 DEF Fits
    <3>11. QED
      BY <1>1, <3>1, <3>2, <3>10 DEF RunFits
  <2>3. QED
    BY <2>1, <2>2
<1>11. RunsApart'
  <2>1. ASSUME NEW q \in Stoppers, stopper'[q].pc \in {"call", "ack"}
        PROVE  stopper[q].pc \in {"call", "ack"} /\ stopper[q].key = stopper'[q].key
    <3>1. CASE q = p
      BY <1>k, <1>1, <1>7, <2>1, <3>1
    <3>2. CASE q # p
      BY <1>6, <2>1, <3>2
    <3>3. QED
      BY <3>1, <3>2
  <2>2. QED
    BY <1>0, <1>1, <2>1 DEF RunsApart
<1>12. CallsEnded'
  <2> SUFFICES ASSUME NEW j \in Keys
               PROVE  /\ cancelCalls'[j] > 0 => Ended(j)'
                      /\ cancelCalls'[j] > 1 => \E g \in Halts : cancel'[g][j] = "acknowledged"
    BY DEF CallsEnded
  <2>1. CASE j = k
    <3>1. ASSUME cancelCalls'[k] > 1 PROVE cancel'[h][k] = "acknowledged"
      <4>1. cancelCalls[k] # 0
        BY <1>3, <3>1
      <4>2. cancel[h][k] \notin {"none", "uncertain"}
        BY <1>2, <4>1
      <4>3. QED
        BY <1>0, <1>1, <4>2 DEF StopType
    <3>2. QED
      BY <1>4, <2>1, <3>1
  <2>2. CASE j # k
    BY <1>0, <1>1, <1>3, <1>5, <2>2 DEF CallsEnded, Ended
  <2>3. QED
    BY <2>1, <2>2
<1>13. OneStarted'
  BY <1>0, <1>1 DEF OneStarted
<1>14. QED
  BY <1>8, <1>10, <1>11, <1>12, <1>13 DEF StopInv

\* acknowledge_cancellation.
LEMMA AckStep ==
  ASSUME StopInv, StopType', NEW p \in Stoppers, AcknowledgeCancellation(p)
  PROVE  StopInv'
<1>0. StopType /\ OneStarted /\ RunsApart /\ CallsEnded
  BY DEF StopInv
<1>h. PICK h \in Halts : h = HaltOf(p)
  BY HaltOfType
<1>k. PICK k \in Keys : k = stopper[p].key
  BY <1>0, StopperShapes DEF AcknowledgeCancellation, StopType
<1>1. /\ stopper[p].pc = "ack"
      /\ Fits(stopper[p], stop[h], planned[h], cancel[h], venue, cancelCalls)
      /\ UNCHANGED <<stop, planned, venue, cancelCalls>>
  BY <1>h DEF AcknowledgeCancellation, StopInv, RunFits, outside, history
<1>2. /\ stop[h] # "none" /\ k \in DOMAIN planned[h]
      /\ venue[k] = [status |-> "cancelled", filled |-> planned[h][k]]
      /\ cancelCalls[k] > 0
  BY <1>k, <1>1 DEF Fits
<1>3. /\ cancel'[h][k] = "acknowledged"
      /\ \A j \in Keys : j # k => cancel'[h][j] = cancel[h][j]
      /\ \A g \in Halts : g # h => cancel'[g] = cancel[g]
  BY <1>0, <1>h, <1>k DEF AcknowledgeCancellation, StopType
<1>4. /\ stopper'[p].pc = "cancel" /\ stopper'[p].seen = stopper[p].seen
      /\ \A q \in Stoppers : q # p => stopper'[q] = stopper[q]
  BY <1>0 DEF AcknowledgeCancellation, Stopper, StopType
<1>5. ASSUME NEW g \in Halts PROVE TablesFit(g)'
  <2>1. TablesFit(g)
    BY DEF StopInv
  <2>2. CASE g = h
    <3>1. DOMAIN planned[h] \subseteq Keys
      BY <1>0, ReadsDomain DEF StopType
    <3>2. Tables(stop[h], planned[h], cancel[h], venue, cancelCalls)
      BY <2>1, <2>2 DEF TablesFit
    <3>3. stop[h] = "completed" => \A j \in DOMAIN planned[h] : cancel'[h][j] = "acknowledged"
      BY <1>3, <3>1, <3>2 DEF Tables
    <3>4. ASSUME NEW j \in Keys
          PROVE  /\ cancel'[h][j] # "none" => j \in DOMAIN planned[h]
                 /\ cancel'[h][j] = "uncertain" => stop[h] = "started"
                 /\ cancel'[h][j] = "acknowledged" =>
                      /\ venue[j] = [status |-> "cancelled", filled |-> planned[h][j]]
                      /\ cancelCalls[j] > 0
      <4>1. CASE j = k
        BY <1>2, <1>3, <4>1
      <4>2. CASE j # k
        BY <1>3, <3>2, <4>2 DEF Tables
      <4>3. QED
        BY <4>1, <4>2
    <3>5. Tables(stop[h], planned[h], cancel'[h], venue, cancelCalls)
      BY <1>2, <3>3, <3>4 DEF Tables
    <3>6. QED
      BY <1>1, <2>2, <3>5 DEF TablesFit
  <2>3. CASE g # h
    BY <1>1, <1>3, <2>1, <2>3 DEF TablesFit
  <2>4. QED
    BY <2>2, <2>3
<1>6. ASSUME NEW q \in Stoppers PROVE RunFits(q)'
  <2>1. CASE q = p
    <3>1. DOMAIN stopper[p].seen \subseteq Keys
      BY <1>0, <1>1, StopperShapes, ReadsDomain DEF StopType
    <3>2. \A j \in DOMAIN stopper[p].seen :
            /\ venue[j].status # "absent"
            /\ j \in DOMAIN planned[h] /\ cancel'[h][j] = "none" => cancelCalls[j] = 0
      BY <1>1, <1>3, <3>1 DEF Fits
    <3>3. Fits(stopper'[p], stop[h], planned[h], cancel'[h], venue, cancelCalls)
      BY <1>2, <1>4, <3>2 DEF Fits
    <3>4. QED
      BY <1>h, <1>1, <2>1, <3>3 DEF RunFits
  <2>2. CASE q # p
    <3>1. PICK g \in Halts : g = HaltOf(q)
      BY HaltOfType
    <3>2. \A j \in Keys : cancel[g][j] # "none" =>
            cancel'[g][j] \in {cancel[g][j], "acknowledged"}
      BY <1>3
    <3>3. QED
      BY <1>1, <1>4, <2>2, <3>1, <3>2, OthersFit
  <2>3. QED
    BY <2>1, <2>2
<1>7. RunsApart'
  <2> SUFFICES ASSUME NEW a \in Stoppers, NEW b \in Stoppers, HaltOf(a) = HaltOf(b),
                      stopper'[a].pc \in {"call", "ack"}, stopper'[b].pc \in {"call", "ack"},
                      stopper'[a].key = stopper'[b].key,
                      cancel'[HaltOf(a)][stopper'[a].key] = "uncertain"
               PROVE  a = b
    BY DEF RunsApart
  <2>1. stopper'[a] = stopper[a] /\ stopper'[b] = stopper[b]
    BY <1>4
  <2>2. PICK g \in Halts : g = HaltOf(a)
    BY HaltOfType
  <2>3. PICK j \in Keys : j = stopper[a].key
    BY <1>0, <2>1, StopperShapes DEF StopType
  <2>4. cancel[g][j] = "uncertain"
    BY <1>3, <2>1, <2>2, <2>3
  <2>5. QED
    BY <1>0, <2>1, <2>2, <2>3, <2>4 DEF RunsApart
<1>8. CallsEnded'
  <2>1. \A g \in Halts, j \in Keys : cancel[g][j] = "acknowledged" => cancel'[g][j] = "acknowledged"
    BY <1>3
  <2>2. QED
    BY <1>0, <1>1, <2>1 DEF CallsEnded, Ended
<1>9. OneStarted'
  BY <1>0, <1>1 DEF OneStarted
<1>10. QED
  BY <1>5, <1>6, <1>7, <1>8, <1>9 DEF StopInv

\* record_emergency_stop_event completes the operation.
LEMMA CompleteStep ==
  ASSUME StopInv, StopType', NEW p \in Stoppers, NEW h \in Halts, h = HaltOf(p),
         stopper[p].pc = "record end", StopIsComplete(h),
         stop' = [stop EXCEPT ![h] = "completed"], Stopper(p, IdleReader),
         UNCHANGED <<planned, cancel, venue, cancelCalls>>
  PROVE  StopInv'
<1>0. StopType /\ OneStarted /\ RunsApart /\ CallsEnded
  BY DEF StopInv
<1>1. /\ stop'[h] = "completed" /\ \A g \in Halts : g # h => stop'[g] = stop[g]
      /\ stop[h] # "none"
  <2>1. RunFits(p)
    BY DEF StopInv
  <2>2. stop[h] # "none"
    BY <2>1 DEF RunFits, Fits
  <2>3. QED
    BY <1>0, <2>2 DEF StopType
<1>2. stopper'[p].pc = "idle" /\ \A q \in Stoppers : q # p => stopper'[q] = stopper[q]
  BY <1>0, StopperShapes DEF Stopper, StopType
<1>3. ASSUME NEW g \in Halts PROVE TablesFit(g)'
  <2>1. TablesFit(g)
    BY DEF StopInv
  <2>2. CASE g = h
    <3>1. /\ \A k \in DOMAIN planned[h] : cancel[h][k] = "acknowledged"
          /\ \A k \in Keys : cancel[h][k] # "uncertain"
      BY DEF StopIsComplete, AnyUncertainCancel
    <3>2. QED
      BY <1>1, <2>1, <2>2, <3>1 DEF TablesFit, Tables
  <2>3. CASE g # h
    BY <1>1, <2>1, <2>3 DEF TablesFit
  <2>4. QED
    BY <2>2, <2>3
<1>4. ASSUME NEW q \in Stoppers PROVE RunFits(q)'
  <2>1. CASE q = p
    BY <1>2, <2>1 DEF RunFits, Fits
  <2>2. CASE q # p
    <3>1. PICK g \in Halts : g = HaltOf(q)
      BY HaltOfType
    <3>2. stop[g] # "none" => stop'[g] # "none" /\ planned'[g] = planned[g]
      BY <1>1
    <3>3. QED
      BY <1>2, <2>2, <3>1, <3>2, OthersFit
  <2>3. QED
    BY <2>1, <2>2
<1>5. OneStarted'
  BY <1>0, <1>1 DEF OneStarted
<1>6. RunsApart'
  BY <1>0, <1>2 DEF RunsApart
<1>7. CallsEnded'
  BY <1>0 DEF CallsEnded, Ended
<1>8. QED
  BY <1>3, <1>4, <1>5, <1>6, <1>7 DEF StopInv

\* Every step of cancel_all_and_halt preserves the invariant.
LEMMA StopSteps ==
  ASSUME StopInv, VenueInv, VenueForward, StopType', NEW p \in Stoppers, StopStep(p)
  PROVE  StopInv'
<1>0. StopType /\ CallsEnded
  BY DEF StopInv
<1>h. PICK h \in Halts : h = HaltOf(p)
  BY HaltOfType
<1>f. Fits(stopper[p], stop[h], planned[h], cancel[h], venue, cancelCalls)
  BY <1>h DEF StopInv, RunFits
<1>s. /\ stopper[p].pc \in {"initial", "record start", "closing", "current", "cancel",
                            "call", "ack"} => stopper[p].seen \in OrderReads
      /\ stopper[p].pc \in {"next look", "current", "cancel", "call", "ack"} =>
           stopper[p].acked \in SUBSET Keys
  BY <1>0, StopperShapes DEF StopType
<1>1. /\ DOMAIN OpenOrders = OpenKeys /\ OpenOrders \in OrderReads
      /\ OpenKeys \subseteq Keys
  BY SnapshotType DEF VenueInv
<1>2. \A k \in OpenKeys : cancelCalls[k] = 0 /\ venue[k].status # "absent"
  <2> TAKE k \in OpenKeys
  <2>1. k \in Keys /\ ~ Ended(k) /\ venue[k].status # "absent"
    BY DEF OpenKeys, IsOpen, Ended
  <2>2. QED
    BY <1>0, <2>1 DEF CallsEnded, StopType
<1>3. ASSUME NEW r \in StopperStates, StopperMoves(p, r), r.pc \notin {"call", "ack"},
             Fits(r, stop[h], planned[h], cancel[h], venue, cancelCalls)
      PROVE  StopInv'
  BY <1>h, <1>3, RunMoves DEF StopperMoves, tables, outside, history
<1>4. ASSUME StopRaises(p) PROVE StopInv'
  <2>1. Fits(IdleReader, stop[h], planned[h], cancel[h], venue, cancelCalls)
    BY StopperShapes DEF Fits
  <2>2. QED
    BY <1>3, <1>4, <2>1, StopperShapes DEF StopRaises
<1>5. CASE RecordHalt(p)
  <2>1. Fits([pc |-> "start"], stop[h], planned[h], cancel[h], venue, cancelCalls)
    BY DEF Fits
  <2>2. QED
    BY <1>h, <1>5, <2>1, RunMoves, StopperShapes DEF RecordHalt, outside, history
<1>6. CASE StartEvents(p)
  <2>1. CASE stop[h] # "none"
    <3>1. PICK b \in BOOLEAN : StopperMoves(p, [pc |-> "states", done |-> b])
      BY <1>h, <1>6, <2>1 DEF StartEvents
    <3>2. Fits([pc |-> "states", done |-> b], stop[h], planned[h], cancel[h], venue,
               cancelCalls)
      BY <2>1 DEF Fits
    <3>3. QED
      BY <1>3, <3>1, <3>2, StopperShapes
  <2>2. CASE StopperMoves(p, [pc |-> "first look"])
    <3>1. Fits([pc |-> "first look"], stop[h], planned[h], cancel[h], venue, cancelCalls)
      BY DEF Fits
    <3>2. QED
      BY <1>3, <2>2, <3>1, StopperShapes
  <2>3. QED
    BY <1>h, <1>4, <1>6, <2>1, <2>2 DEF StartEvents
<1>7. CASE LookInitial(p)
  <2>1. PICK r \in StopperStates : StopperMoves(p, r) /\ r.pc = "initial"
    BY <1>1, <1>7, StopperShapes DEF LookInitial
  <2>2. Fits(r, stop[h], planned[h], cancel[h], venue, cancelCalls)
    BY <2>1 DEF Fits
  <2>3. QED
    BY <1>3, <2>1, <2>2
<1>8. CASE CaptureInitial(p)
  <2>1. CASE OpenOrders = stopper[p].seen
    <3>1. PICK r \in StopperStates : StopperMoves(p, r) /\ r.pc = "record start"
      BY <1>s, <1>8, <2>1, StopperShapes DEF CaptureInitial
    <3>2. Fits(r, stop[h], planned[h], cancel[h], venue, cancelCalls)
      BY <3>1 DEF Fits
    <3>3. QED
      BY <1>3, <3>1, <3>2
  <2>2. CASE OpenOrders # stopper[p].seen
    BY <1>4, <1>8, <2>2 DEF CaptureInitial
  <2>3. QED
    BY <2>1, <2>2
<1>9. CASE RecordStart(p)
  <2>1. CASE MayStartStop(h) /\ ~ StopRaises(p) /\ stop[h] = "none"
    BY <1>h, <1>9, <2>1, StartStep DEF RecordStart, outside, history
  <2>2. CASE /\ stop[h] # "none"
             /\ StopperMoves(p, [pc |-> "states", done |-> FALSE])
    <3>1. Fits([pc |-> "states", done |-> FALSE], stop[h], planned[h], cancel[h], venue,
               cancelCalls)
      BY <2>2 DEF Fits
    <3>2. QED
      BY <1>3, <2>2, <3>1, StopperShapes
  <2>3. QED
    BY <1>h, <1>4, <1>9, <2>1, <2>2 DEF RecordStart, MayStartStop
<1>10. CASE ReadStates(p)
  <2>1. CASE ~ AnyUncertainCancel /\ ~ stopper[p].done
    <3>1. PICK a \in SUBSET Keys : StopperMoves(p, [pc |-> "next look", acked |-> a])
      BY <1>h, <1>10, <2>1 DEF ReadStates
    <3>2. stop[h] # "none"
      BY <1>f, <1>10 DEF ReadStates, Fits
    <3>3. Fits([pc |-> "next look", acked |-> a], stop[h], planned[h], cancel[h], venue,
               cancelCalls)
      BY <3>2 DEF Fits
    <3>4. QED
      BY <1>3, <3>1, <3>3, StopperShapes
  <2>2. CASE AnyUncertainCancel \/ stopper[p].done
    BY <1>4, <1>10, <2>2 DEF ReadStates
  <2>3. QED
    BY <2>1, <2>2
<1>11. CASE LookCurrent(p)
  <2>1. PICK r \in StopperStates :
          StopperMoves(p, r) /\ r.pc = "current" /\ r.seen = OpenOrders
    BY <1>1, <1>s, <1>11, StopperShapes DEF LookCurrent
  <2>2. stop[h] # "none"
    BY <1>f, <1>11 DEF LookCurrent, Fits
  <2>3. Fits(r, stop[h], planned[h], cancel[h], venue, cancelCalls)
    BY <1>1, <1>2, <2>1, <2>2 DEF Fits
  <2>4. QED
    BY <1>3, <2>1, <2>3
<1>12. CASE CaptureCurrent(p)
  <2>1. CASE CurrentFitsPlan(p)
    <3>1. PICK r \in StopperStates :
            StopperMoves(p, r) /\ r.pc = "cancel" /\ r.seen = stopper[p].seen
      BY <1>s, <1>12, <2>1, StopperShapes DEF CaptureCurrent
    <3>2. Fits(r, stop[h], planned[h], cancel[h], venue, cancelCalls)
      BY <1>f, <1>12, <3>1 DEF CaptureCurrent, Fits
    <3>3. QED
      BY <1>3, <3>1, <3>2
  <2>2. CASE ~ CurrentFitsPlan(p)
    BY <1>4, <1>12, <2>2 DEF CaptureCurrent
  <2>3. QED
    BY <2>1, <2>2
<1>13. ASSUME NEW k \in Keys, BeginCancellation(p, k) PROVE StopInv'
  <2>1. CASE StillAsPlanned(p, k) /\ CancelKnown(h, k)
    BY <1>h, <1>13, <2>1, BeginStep DEF BeginCancellation, outside, history
  <2>2. CASE ~ (StillAsPlanned(p, k) /\ CancelKnown(h, k))
    BY <1>h, <1>4, <1>13, <2>2 DEF BeginCancellation
  <2>3. QED
    BY <2>1, <2>2
<1>14. CASE LookClosing(p)
  <2>1. PICK r \in StopperStates : StopperMoves(p, r) /\ r.pc = "closing"
    BY <1>1, <1>14, StopperShapes DEF LookClosing
  <2>2. Fits(r, stop[h], planned[h], cancel[h], venue, cancelCalls)
    BY <1>f, <1>14, <2>1 DEF LookClosing, Fits
  <2>3. QED
    BY <1>3, <2>1, <2>2
<1>15. CASE CaptureClosing(p)
  <2>1. CASE ClosedDown(p)
    <3>1. StopperMoves(p, [pc |-> "record end"])
      BY <1>15, <2>1 DEF CaptureClosing
    <3>2. Fits([pc |-> "record end"], stop[h], planned[h], cancel[h], venue, cancelCalls)
      BY <1>f, <1>15 DEF CaptureClosing, Fits
    <3>3. QED
      BY <1>3, <3>1, <3>2, StopperShapes
  <2>2. CASE ~ ClosedDown(p)
    BY <1>4, <1>15, <2>2 DEF CaptureClosing
  <2>3. QED
    BY <2>1, <2>2
<1>16. CASE RecordCompleted(p)
  <2>1. CASE StopIsComplete(h)
    BY <1>h, <1>16, <2>1, CompleteStep DEF RecordCompleted, outside, history
  <2>2. CASE ~ StopIsComplete(h)
    BY <1>h, <1>4, <1>16, <2>2 DEF RecordCompleted
  <2>3. QED
    BY <2>1, <2>2
<1>17. CASE StopperDies(p)
  BY <1>4, <1>17 DEF StopperDies
<1>18. QED
  BY <1>5, <1>6, <1>7, <1>8, <1>9, <1>10, <1>11, <1>12, <1>13, <1>14, <1>15, <1>16,
     <1>17, CancelStep, AckStep DEF StopStep

-----------------------------------------------------------------------------
(* resolve_uncertain: the proof.                                           *)

\* The states of a resolver, as the actions build and read them.
LEMMA ResolverShapes ==
  /\ IdleReader \in ResolverStates /\ IdleReader.pc = "idle"
  /\ \A k \in Keys, o \in OrderReads, b \in BOOLEAN :
       /\ [pc |-> "fills", key |-> k, orders |-> o, settled |-> b] \in ResolverStates
       /\ \A f \in [Keys -> 0..Qty] :
            [pc |-> "orders again", key |-> k, orders |-> o, fills |-> f,
             settled |-> b] \in ResolverStates
  /\ \A r \in ResolverStates :
       /\ r.pc \in {"idle", "fills", "orders again", "fills again", "record"}
       /\ r.pc # "idle" =>
            r.key \in Keys /\ r.orders \in OrderReads /\ r.settled \in BOOLEAN
       /\ r.pc \in {"orders again", "fills again", "record"} =>
            r.fills \in [Keys -> 0..Qty]
  BY DEF ResolverStates, IdleReader

LEMMA ResolverMoved ==
  ASSUME NEW r \in ResolverStates, NEW p \in {"fills again", "record"},
         r.pc \in {"orders again", "fills again"}
  PROVE  /\ [r EXCEPT !.pc = p] \in ResolverStates
         /\ [r EXCEPT !.pc = p].pc = p
         /\ [r EXCEPT !.pc = p].key = r.key
         /\ [r EXCEPT !.pc = p].orders = r.orders
         /\ [r EXCEPT !.pc = p].fills = r.fills
         /\ [r EXCEPT !.pc = p].settled = r.settled
  BY DEF ResolverStates

\* No other process disturbs what the resolver has read, nor what was
\* recorded: an order the venue has ended with, and a key without a call, do
\* not change.
LEMMA ResolutionApart ==
  ASSUME ResolutionInv, VenueInv, VenueInv', VenueForward, LedgerForward,
         UNCHANGED <<resolver, resolution, unsettled>>
  PROVE  ResolutionInv'
<1>0. ResolutionType /\ ReadsHold /\ AdjudicatedApart /\ ResolutionTrue
  BY DEF ResolutionInv
<1>1. ResolutionType'
  BY <1>0 DEF ResolutionType
<1>2. AdjudicatedApart'
  BY <1>0 DEF AdjudicatedApart, LedgerForward
<1>3. \A k \in Keys : Ended(k) => venue'[k] = venue[k]
  BY DEF VenueForward
<1>4. \A k \in Keys : ~ IsOpen(k) /\ ~ CallPending(k) => venue'[k] = venue[k]
  BY DEF VenueForward, IsOpen, CallPending, Ended, VenueInv, VenueType
<1>5. ResolutionTrue'
  BY <1>0, <1>3, <1>4 DEF ResolutionTrue, AdjudicatedApart, Ended, IsOpen
<1>6. ReadsHold'
  <2>1. CASE resolver.pc = "idle"
    BY <2>1 DEF ReadsHold, KeyQuiet, FillsHold, SeenClosed
  <2>2. CASE resolver.pc # "idle"
    <3>1. PICK k \in Keys : k = resolver.key
      BY <1>0, <2>2, ResolverShapes DEF ResolutionType
    <3>2. ASSUME resolver.settled
          PROVE  sub'[k] = "uncertain" /\ ~ CallPending(k)'
      BY <1>0, <2>2, <3>1, <3>2
         DEF ReadsHold, KeyQuiet, FillsHold, SeenClosed, LedgerForward
    <3>3. ASSUME resolver.settled, k \notin DOMAIN resolver.orders
          PROVE  venue'[k] = venue[k]
      BY <1>0, <1>4, <2>2, <3>1, <3>3 DEF ReadsHold, KeyQuiet, FillsHold, SeenClosed
    <3>4. venue'[k].filled >= venue[k].filled /\ venue[k].filled \in 0..Qty
                                              /\ venue'[k].filled \in 0..Qty
      BY DEF VenueForward, VenueInv, VenueType
    <3>5. (resolver.pc # "idle" /\ resolver.settled =>
             /\ sub[resolver.key] = "uncertain" /\ ~ CallPending(resolver.key)
             /\ resolver.key \notin DOMAIN resolver.orders => ~ IsOpen(resolver.key))'
      BY <1>0, <2>2, <3>1, <3>2, <3>3
         DEF ReadsHold, KeyQuiet, FillsHold, SeenClosed, CallPending, IsOpen
    <3>6. ASSUME resolver.pc \in {"orders again", "fills again", "record"}
          PROVE  /\ resolver.fills[k] \in 0..Qty
                 /\ resolver.fills[k] <= venue[k].filled
                 /\ resolver.settled /\ k \notin DOMAIN resolver.orders =>
                      resolver.fills[k] = venue[k].filled
      BY <1>0, <3>1, <3>6, ResolverShapes
         DEF ReadsHold, KeyQuiet, FillsHold, SeenClosed, ResolutionType
    <3>7. ASSUME resolver.pc \in {"fills again", "record"},
                 k \notin DOMAIN resolver.orders, resolver.fills[k] > 0
          PROVE  Ended(k) /\ venue'[k] = venue[k]
                 /\ (resolver.pc = "record" => resolver.fills[k] = venue[k].filled)
      BY <1>0, <1>3, <3>1, <3>7 DEF ReadsHold, KeyQuiet, FillsHold, SeenClosed
    <3>8. FillsHold'
      <4>1. ASSUME resolver.pc \in {"orders again", "fills again", "record"}
            PROVE  /\ resolver.fills[k] <= venue'[k].filled
                   /\ resolver.settled /\ SeenClosed => resolver.fills[k] = venue'[k].filled
        <5>1. resolver.fills[k] <= venue'[k].filled
          <6>1. resolver.fills[k] \in 0..Qty /\ resolver.fills[k] <= venue[k].filled
            BY <3>6, <4>1
          <6>2. QED
            BY <3>4, <6>1, LedgerAssumption
        <5>2. resolver.settled /\ SeenClosed => resolver.fills[k] = venue'[k].filled
          BY <3>1, <3>3, <3>6, <4>1 DEF SeenClosed
        <5>3. QED
          BY <5>1, <5>2
      <4>2. ASSUME resolver.pc \in {"fills again", "record"}, SeenClosed, resolver.fills[k] > 0
            PROVE  Ended(k)' /\ (resolver.pc = "record" => resolver.fills[k] = venue'[k].filled)
        BY <3>1, <3>7, <4>2 DEF SeenClosed, Ended
      <4>3. QED
        BY <3>1, <4>1, <4>2 DEF FillsHold, SeenClosed, Ended
    <3>9. QED
      BY <3>5, <3>8 DEF ReadsHold, KeyQuiet, SeenClosed
  <2>3. QED
    BY <2>1, <2>2
<1>7. QED
  BY <1>1, <1>2, <1>5, <1>6 DEF ResolutionInv

\* Every step of resolve_uncertain preserves the invariant.
LEMMA ResolverSteps ==
  ASSUME ResolutionInv, VenueInv, ResolverStep
  PROVE  ResolutionInv'
<1>0. ResolutionType /\ ReadsHold /\ AdjudicatedApart /\ ResolutionTrue
  BY DEF ResolutionInv
<1>1. UNCHANGED <<sub, wire, venue, caller>>
  BY DEF ResolverStep, ResolveStart, ResolveReadFills, ResolveReadOrdersAgain,
         ResolveReadFillsAgain, RecordResolution, ResolverGivesUp, tables, outside
<1>2. /\ OpenOrders \in OrderReads /\ DOMAIN OpenOrders = OpenKeys
      /\ Fills \in [Keys -> 0..Qty] /\ \A k \in Keys : Fills[k] = venue[k].filled
      /\ \A k \in Keys : venue[k].filled \in 0..Qty
  BY SnapshotType DEF VenueInv, VenueType
<1>3. ASSUME UNCHANGED <<resolution, unsettled>>, resolver' \in ResolverStates, ReadsHold'
      PROVE  ResolutionInv'
  <2>1. AdjudicatedApart' /\ ResolutionTrue'
    BY <1>0, <1>1, <1>3 DEF AdjudicatedApart, ResolutionTrue, CallPending
  <2>2. QED
    BY <1>0, <1>3, <2>1 DEF ResolutionInv, ResolutionType
<1>4. ASSUME resolver' = IdleReader PROVE resolver' \in ResolverStates /\ ReadsHold'
  <2>1. resolver'.pc = "idle"
    BY <1>4, ResolverShapes
  <2>2. QED
    BY <1>4, <2>1, ResolverShapes DEF ReadsHold, KeyQuiet, FillsHold, SeenClosed
<1>5. ASSUME NEW k \in Keys, ResolveStart(k) PROVE ResolutionInv'
  <2>1. UNCHANGED <<resolution, unsettled>> /\ sub[k] = "uncertain"
    BY <1>5 DEF ResolveStart, tables, history
  <2>2. /\ resolver'.pc = "fills" /\ resolver'.key = k /\ resolver'.orders = OpenOrders
        /\ resolver'.settled = ~ CallPending(k)
    BY <1>5 DEF ResolveStart
  <2>3. resolver' \in ResolverStates
    BY <1>2, <1>5, ResolverShapes DEF ResolveStart, CallPending
  <2>4. ReadsHold'
    <3>1. k \notin DOMAIN resolver'.orders => ~ IsOpen(k)
      BY <1>2, <2>2 DEF OpenKeys
    <3>2. QED
      BY <1>1, <2>1, <2>2, <3>1
         DEF ReadsHold, KeyQuiet, FillsHold, SeenClosed, CallPending, IsOpen
  <2>5. QED
    BY <1>3, <2>1, <2>3, <2>4
<1>6. CASE ResolveReadFills
  <2>1. UNCHANGED <<resolution, unsettled>> /\ resolver.pc = "fills"
    BY <1>6 DEF ResolveReadFills, tables, history
  <2>2. PICK k \in Keys : k = resolver.key
    BY <1>0, <2>1, ResolverShapes DEF ResolutionType
  <2>3. /\ resolver'.pc = "orders again" /\ resolver'.key = k
        /\ resolver'.orders = resolver.orders /\ resolver'.fills = Fills
        /\ resolver'.settled = resolver.settled
    BY <1>6, <2>2 DEF ResolveReadFills
  <2>4. resolver' \in ResolverStates
    BY <1>0, <1>2, <1>6, <2>1, ResolverShapes DEF ResolveReadFills, ResolutionType
  <2>5. KeyQuiet'
    BY <1>0, <1>1, <2>1, <2>2, <2>3
       DEF ReadsHold, KeyQuiet, SeenClosed, CallPending, IsOpen
  <2>6. FillsHold'
    <3>1. Fills[k] = venue'[k].filled /\ venue[k].filled \in 0..Qty
      BY <1>1, <1>2
    <3>2. /\ resolver'.fills[k] <= venue'[k].filled
          /\ resolver'.fills[k] = venue'[k].filled
      <4>1. resolver'.fills = Fills
        BY <2>3
      <4>2. QED
        BY <1>1, <3>1, <4>1, LedgerAssumption
    <3>3. resolver'.pc \notin {"fills again", "record"} /\ resolver'.key = k
      BY <2>3
    <3>4. QED
      BY <3>2, <3>3 DEF FillsHold
  <2>7. QED
    BY <1>3, <2>1, <2>4, <2>5, <2>6 DEF ReadsHold
<1>7. CASE ResolveReadOrdersAgain
  <2>1. UNCHANGED <<resolution, unsettled>> /\ resolver.pc = "orders again"
    BY <1>7 DEF ResolveReadOrdersAgain, tables, history
  <2>2. CASE SameOrdersAgain
    <3>1. PICK k \in Keys : k = resolver.key
      BY <1>0, <2>1, ResolverShapes DEF ResolutionType
    <3>2. resolver' = [resolver EXCEPT !.pc = "fills again"]
      BY <1>7, <2>2 DEF ResolveReadOrdersAgain
    <3>3. /\ resolver' \in ResolverStates /\ resolver'.pc = "fills again"
          /\ resolver'.key = k /\ resolver'.orders = resolver.orders
          /\ resolver'.fills = resolver.fills /\ resolver'.settled = resolver.settled
      BY <1>0, <2>1, <3>1, <3>2, ResolverMoved DEF ResolutionType
    <3>4. k \notin DOMAIN resolver.orders => ~ IsOpen(k)
      BY <1>2, <2>2 DEF SameOrdersAgain, OpenKeys
    <3>5. resolver.fills[k] \in 0..Qty /\ resolver.fills[k] <= venue[k].filled
      BY <1>0, <2>1, <3>1, ResolverShapes
         DEF ReadsHold, KeyQuiet, FillsHold, SeenClosed, ResolutionType
    <3>6. k \notin DOMAIN resolver.orders /\ resolver.fills[k] > 0 => Ended(k)
      BY <1>2, <3>4, <3>5 DEF VenueInv, VenueType, VenueShapes, IsOpen, Ended
    <3>7. ReadsHold'
      BY <1>0, <1>1, <2>1, <3>1, <3>3, <3>5, <3>6
         DEF ReadsHold, KeyQuiet, FillsHold, SeenClosed, CallPending, IsOpen, Ended
    <3>8. QED
      BY <1>3, <2>1, <3>3, <3>7
  <2>3. CASE ~ SameOrdersAgain
    BY <1>3, <1>4, <1>7, <2>1, <2>3 DEF ResolveReadOrdersAgain
  <2>4. QED
    BY <2>2, <2>3
<1>8. CASE ResolveReadFillsAgain
  <2>1. UNCHANGED <<resolution, unsettled>> /\ resolver.pc = "fills again"
    BY <1>8 DEF ResolveReadFillsAgain, tables, history
  <2>2. CASE Fills = resolver.fills
    <3>1. PICK k \in Keys : k = resolver.key
      BY <1>0, <2>1, ResolverShapes DEF ResolutionType
    <3>2. resolver' = [resolver EXCEPT !.pc = "record"]
      BY <1>8, <2>2 DEF ResolveReadFillsAgain
    <3>3. /\ resolver' \in ResolverStates /\ resolver'.pc = "record"
          /\ resolver'.key = k /\ resolver'.orders = resolver.orders
          /\ resolver'.fills = resolver.fills /\ resolver'.settled = resolver.settled
      BY <1>0, <2>1, <3>1, <3>2, ResolverMoved DEF ResolutionType
    <3>4. resolver.fills[k] = venue[k].filled
      BY <1>2, <2>2
    <3>5. ReadsHold'
      BY <1>0, <1>1, <1>2, <2>1, <3>1, <3>3, <3>4
         DEF ReadsHold, KeyQuiet, FillsHold, SeenClosed, CallPending, IsOpen, Ended
    <3>6. QED
      BY <1>3, <2>1, <3>3, <3>5
  <2>3. CASE Fills # resolver.fills
    BY <1>3, <1>4, <1>8, <2>1, <2>3 DEF ResolveReadFillsAgain
  <2>4. QED
    BY <2>2, <2>3
<1>9. CASE RecordResolution
  <2>1. PICK k \in Keys : k = resolver.key
    BY <1>0, <1>9, ResolverShapes DEF RecordResolution, ResolutionType
  <2>2. /\ resolver.pc = "record" /\ sub[k] = "uncertain" /\ resolution[k] = "none"
        /\ resolution' = [resolution EXCEPT ![k] =
             Classification(k, resolver.orders, resolver.fills)]
        /\ unsettled' = IF resolver.settled THEN unsettled ELSE unsettled \union {k}
        /\ resolver' = IdleReader
    BY <1>9, <2>1 DEF RecordResolution, MayResolve
  <2>3. Classification(k, resolver.orders, resolver.fills) \in Outcomes
    BY DEF Classification, Outcomes
  <2>4. ResolutionType'
    BY <1>0, <1>4, <2>2, <2>3 DEF ResolutionType
  <2>5. AdjudicatedApart'
    BY <1>0, <1>1, <2>1, <2>2
       DEF AdjudicatedApart, CallPending, ReadsHold, KeyQuiet, ResolutionType
  <2>6. /\ resolver.fills[k] \in 0..Qty /\ venue[k].filled \in 0..Qty
        /\ resolver.fills[k] <= venue[k].filled
        /\ k \notin DOMAIN resolver.orders /\ resolver.fills[k] > 0 =>
             Ended(k) /\ resolver.fills[k] = venue[k].filled
        /\ k \notin DOMAIN resolver.orders /\ resolver.settled =>
             ~ IsOpen(k) /\ resolver.fills[k] = venue[k].filled
    BY <1>0, <1>2, <2>1, <2>2, ResolverShapes
       DEF ReadsHold, KeyQuiet, FillsHold, SeenClosed, ResolutionType
  <2>7. ASSUME NEW o \in Outcomes, o = Classification(k, resolver.orders, resolver.fills)
        PROVE  /\ o = "observed_filled" => venue[k].status = "filled"
               /\ o = "observed_terminal_partial_fill" =>
                    venue[k].status = "cancelled" /\ venue[k].filled \in 1 .. Qty - 1
               /\ o = "not_observed_burned" /\ resolver.settled =>
                    venue[k].status \in {"absent", "cancelled"} /\ venue[k].filled = 0
    BY <2>6, <2>7, LedgerAssumption
       DEF Classification, VenueInv, VenueType, VenueShapes, Ended, IsOpen
  <2>8. ResolutionTrue'
    <3> SUFFICES ASSUME NEW j \in Keys
                 PROVE  (/\ resolution[j] = "observed_filled" => venue[j].status = "filled"
                         /\ resolution[j] = "observed_terminal_partial_fill" =>
                              venue[j].status = "cancelled" /\ venue[j].filled \in 1 .. Qty - 1
                         /\ resolution[j] = "not_observed_burned" /\ j \notin unsettled =>
                              venue[j].status \in {"absent", "cancelled"} /\ venue[j].filled = 0)'
      BY DEF ResolutionTrue
    <3>1. CASE j = k
      <4>1. resolution'[k] = Classification(k, resolver.orders, resolver.fills)
        BY <1>0, <2>2 DEF ResolutionType
      <4>2. QED
        BY <1>1, <2>2, <2>3, <2>7, <3>1, <4>1
    <3>2. CASE j # k
      <4>1. resolution'[j] = resolution[j] /\ unsettled \subseteq unsettled'
        BY <1>0, <2>2, <3>2 DEF ResolutionType
      <4>2. QED
        BY <1>0, <1>1, <4>1 DEF ResolutionTrue
    <3>3. QED
      BY <3>1, <3>2
  <2>9. QED
    BY <1>4, <2>2, <2>4, <2>5, <2>8 DEF ResolutionInv
<1>10. CASE ResolverGivesUp
  BY <1>3, <1>4, <1>10 DEF ResolverGivesUp, tables, history
<1>11. QED
  BY <1>5, <1>6, <1>7, <1>8, <1>9, <1>10 DEF ResolverStep

-----------------------------------------------------------------------------
(* startup_readiness.assess: the proof.                                    *)

LEMMA AssessorShapes ==
  /\ IdleReader \in AssessorStates /\ IdleReader.pc = "idle"
  /\ \A o \in OrderReads, f \in [Keys -> 0..Qty] :
       [pc |-> "submissions", seen |-> o, fills |-> f] \in AssessorStates
  /\ \A a \in AssessorStates : a.pc # "idle" => a.seen \in OrderReads
  BY DEF AssessorStates, IdleReader

LEMMA AssessorMoved ==
  ASSUME NEW a \in AssessorStates, a.pc # "idle", NEW p \in {"stops", "closing", "safe"}
  PROVE  /\ [a EXCEPT !.pc = p] \in AssessorStates
         /\ [a EXCEPT !.pc = p].pc = p /\ [a EXCEPT !.pc = p].seen = a.seen
  BY DEF AssessorStates

\* No other process disturbs an assessment: what it accounts for stays so.
LEMMA AssessmentApart ==
  ASSUME AssessmentInv, VenueForward, LedgerForward, UNCHANGED assessor
  PROVE  AssessmentInv'
<1>0. assessor \in AssessorStates /\ SeenAccounted /\ SafeAssessment
  BY DEF AssessmentInv
<1>1. assessor.pc # "idle" => DOMAIN assessor.seen \subseteq Keys
  BY <1>0, AssessorShapes, ReadsDomain
<1>2. ASSUME NEW k \in Keys
      PROVE  /\ sub[k] = "acknowledged" => sub'[k] = "acknowledged"
             /\ k \in unsettled => k \in unsettled'
             /\ Ended(k) => Ended(k)'
             /\ venue[k].status # "absent" => venue'[k].status # "absent"
  BY DEF VenueForward, LedgerForward, Ended
<1>3. SeenAccounted'
  BY <1>0, <1>1, <1>2 DEF SeenAccounted
<1>4. SafeAssessment'
  BY <1>0, <1>1, <1>2 DEF SafeAssessment
<1>5. QED
  BY <1>0, <1>3, <1>4 DEF AssessmentInv

\* Every step of assess preserves the invariant.  What the ledger says of an
\* adjudicated key is true of the venue (ResolutionTrue).
LEMMA AssessorSteps ==
  ASSUME AssessmentInv, ResolutionInv, SubmissionInv, VenueInv, AssessStep
  PROVE  AssessmentInv'
<1>0. assessor \in AssessorStates /\ SeenAccounted /\ SafeAssessment
  BY DEF AssessmentInv
<1>1. UNCHANGED <<sub, venue, unsettled>>
  BY DEF AssessStep, Assess, AssessSubmissions, AssessStops, AssessClose,
         tables, outside, history
<1>2. assessor.pc # "idle" => DOMAIN assessor.seen \subseteq Keys
  BY <1>0, AssessorShapes, ReadsDomain
<1>3. ASSUME assessor' = IdleReader PROVE AssessmentInv'
  <2>1. assessor'.pc = "idle" /\ assessor' \in AssessorStates
    BY <1>3, AssessorShapes
  <2>2. QED
    BY <2>1 DEF AssessmentInv, SeenAccounted, SafeAssessment
<1>4. CASE Assess
  <2>1. /\ OpenOrders \in OrderReads /\ DOMAIN OpenOrders = OpenKeys
        /\ Fills \in [Keys -> 0..Qty]
    BY SnapshotType DEF VenueInv
  <2>2. assessor' = [pc |-> "submissions", seen |-> OpenOrders, fills |-> Fills]
    BY <1>4 DEF Assess
  <2>3. assessor' \in AssessorStates
    BY <2>1, <2>2, AssessorShapes
  <2>4. assessor'.pc = "submissions" /\ DOMAIN assessor'.seen = OpenKeys
    BY <2>1, <2>2
  <2>5. \A k \in OpenKeys : venue'[k].status # "absent"
    BY <1>1 DEF OpenKeys, IsOpen
  <2>6. QED
    BY <2>3, <2>4, <2>5 DEF AssessmentInv, SeenAccounted, SafeAssessment
<1>5. CASE AssessSubmissions
  <2>1. CASE halts # {} /\ SubmissionsSettled
    <3>1. assessor.pc = "submissions" /\ assessor' = [assessor EXCEPT !.pc = "stops"]
      BY <1>5, <2>1 DEF AssessSubmissions
    <3>2. /\ assessor' \in AssessorStates /\ assessor'.pc = "stops"
          /\ assessor'.seen = assessor.seen
      BY <1>0, <3>1, AssessorMoved
    <3>3. ASSUME NEW k \in DOMAIN assessor.seen
          PROVE  sub[k] = "acknowledged" \/ k \in unsettled \/ Ended(k)
      <4>1. k \in Keys /\ venue[k].status # "absent"
        BY <1>0, <1>2, <3>1 DEF SeenAccounted
      <4>2. sub[k] \in {"uncertain", "acknowledged"}
        BY <4>1 DEF VenueInv, VenueShapes, SubmissionInv, SubmissionType
      <4>3. CASE sub[k] = "uncertain"
        <5>1. resolution[k] \in {"observed_filled", "observed_terminal_partial_fill",
                                 "not_observed_burned"}
          BY <2>1, <4>1, <4>3
             DEF SubmissionsSettled, ResolutionInv, ResolutionType, Outcomes
        <5>2. QED
          BY <4>1, <5>1 DEF ResolutionInv, ResolutionTrue, Ended
      <4>4. QED
        BY <4>2, <4>3
    <3>4. QED
      BY <1>1, <3>2, <3>3 DEF AssessmentInv, SeenAccounted, SafeAssessment, Ended
  <2>2. CASE ~ (halts # {} /\ SubmissionsSettled)
    BY <1>3, <1>5, <2>2 DEF AssessSubmissions
  <2>3. QED
    BY <2>1, <2>2
<1>6. CASE AssessStops
  <2>1. CASE ~ (AnyUncertainCancel \/ AnyStarted)
    <3>1. assessor.pc = "stops" /\ assessor' = [assessor EXCEPT !.pc = "closing"]
      BY <1>6, <2>1 DEF AssessStops
    <3>2. /\ assessor' \in AssessorStates /\ assessor'.pc = "closing"
          /\ assessor'.seen = assessor.seen
      BY <1>0, <3>1, AssessorMoved
    <3>3. QED
      BY <1>0, <1>1, <3>1, <3>2 DEF AssessmentInv, SeenAccounted, SafeAssessment, Ended
  <2>2. CASE AnyUncertainCancel \/ AnyStarted
    BY <1>3, <1>6, <2>2 DEF AssessStops
  <2>3. QED
    BY <2>1, <2>2
<1>7. CASE AssessClose
  <2>1. CASE SameAtClose
    <3>1. assessor.pc = "closing" /\ assessor' = [assessor EXCEPT !.pc = "safe"]
      BY <1>7, <2>1 DEF AssessClose
    <3>2. /\ assessor' \in AssessorStates /\ assessor'.pc = "safe"
          /\ assessor'.seen = assessor.seen
      BY <1>0, <3>1, AssessorMoved
    <3>3. DOMAIN assessor.seen = OpenKeys
      BY <2>1, SnapshotType DEF SameAtClose, VenueInv
    <3>4. \A k \in DOMAIN assessor.seen : ~ Ended(k)
      BY <3>3 DEF OpenKeys, IsOpen, Ended
    <3>5. QED
      BY <1>0, <1>1, <3>1, <3>2, <3>4 DEF AssessmentInv, SeenAccounted, SafeAssessment
  <2>2. CASE ~ SameAtClose
    BY <1>3, <1>7, <2>2 DEF AssessClose
  <2>3. QED
    BY <2>1, <2>2
<1>8. QED
  BY <1>4, <1>5, <1>6, <1>7 DEF AssessStep

-----------------------------------------------------------------------------
(* The ledger as a whole.                                                  *)

\* The inductive invariant of the composition: each part of the ledger with
\* what it needs of the venue.
LedgerInv == SubmissionInv /\ VenueInv /\ StopInv /\ ResolutionInv /\ AssessmentInv

LEMMA LedgerInit == Init => LedgerInv
<1> SUFFICES ASSUME Init PROVE LedgerInv
  OBVIOUS
<1>1. ResolutionInv
  BY ResolverShapes DEF Init, ResolutionInv, ResolutionType, ReadsHold, KeyQuiet,
                        FillsHold, AdjudicatedApart, ResolutionTrue
<1>2. AssessmentInv
  BY AssessorShapes DEF Init, AssessmentInv, SeenAccounted, SafeAssessment
<1>3. QED
  BY <1>1, <1>2, SubmissionInit, VenueInit, StopInit DEF LedgerInv

\* Who touches the resolver's and the assessor's state.
LEMMA ReaderFrame ==
  ASSUME [Next]_vars
  PROVE  /\ ResolverStep \/ UNCHANGED <<resolver, resolution, unsettled>>
         /\ AssessStep \/ UNCHANGED assessor
<1>1. ASSUME NEW c \in Callers, CallerStep(c)
      PROVE  UNCHANGED <<resolver, resolution, unsettled, assessor>>
  BY <1>1 DEF CallerStep, SubmitOnce, BeginSubmission, DeclineSubmission,
              CallAdapter, AdapterReplies, AcknowledgeSubmission, CallerDies,
              tables, history
<1>2. CASE VenueStep
  BY <1>2 DEF VenueStep, VenueReceives, VenueFills, VenueExpires, DecisionExpires,
              tables, procs, history
<1>3. ResolverStep => UNCHANGED assessor
  BY DEF ResolverStep, ResolveStart, ResolveReadFills, ResolveReadOrdersAgain,
         ResolveReadFillsAgain, RecordResolution, ResolverGivesUp
<1>4. ASSUME NEW p \in Stoppers, StopStep(p)
      PROVE  UNCHANGED <<resolver, resolution, unsettled, assessor>>
  BY <1>4 DEF StopStep, RecordHalt, StartEvents, LookInitial, CaptureInitial,
              RecordStart, ReadStates, LookCurrent, CaptureCurrent,
              BeginCancellation, CancelOrder, AcknowledgeCancellation, LookClosing,
              CaptureClosing, RecordCompleted, StopperDies, StopRaises, StopperMoves, Stopper, tables, history
<1>5. AssessStep => UNCHANGED <<resolver, resolution, unsettled>>
  BY DEF AssessStep, Assess, AssessSubmissions, AssessStops, AssessClose,
         tables, history
<1>6. CASE UNCHANGED vars
  BY <1>6 DEF vars, tables, procs, history
<1>7. QED
  BY <1>1, <1>2, <1>3, <1>4, <1>5, <1>6 DEF Next

\* One step of the system: the invariant is kept, and ledger and venue only
\* go forward.
LEMMA LedgerStep ==
  ASSUME LedgerInv, SubmissionInv', [Next]_vars
  PROVE  LedgerInv' /\ LedgerForward /\ VenueForward
<1>0. SubmissionInv /\ VenueInv /\ StopInv /\ ResolutionInv /\ AssessmentInv
  BY DEF LedgerInv
<1>1. LedgerForward
  BY <1>0, LedgerGoesForward
<1>2. VenueInv' /\ VenueForward
  BY <1>0, VenueGoesForward DEF StopInv
<1>3. StopType'
  BY <1>0, StopTypes DEF StopInv, VenueInv
<1>4. StopInv'
  BY <1>0, <1>2, <1>3, StopFrame, StopSteps, StopApart
<1>5. ResolutionInv'
  BY <1>0, <1>1, <1>2, ReaderFrame, ResolverSteps, ResolutionApart
<1>6. AssessmentInv'
  BY <1>0, <1>1, <1>2, ReaderFrame, AssessorSteps, AssessmentApart
<1>7. QED
  BY <1>1, <1>2, <1>4, <1>5, <1>6 DEF LedgerInv

\* The inductive invariant of callers, venue, resolver, stop operations and
\* assessment holds in every reachable state.
THEOREM LedgerSound == Spec => []LedgerInv
<1>1. LedgerInv /\ SubmissionInv' /\ [Next]_vars => LedgerInv'
  BY LedgerStep
<1>2. QED
  BY <1>1, LedgerInit, SubmissionSound, PTL DEF Spec

\* Only the passing of a decision's expires_at touches the expired decisions.
LEMMA ExpiredTyped == Spec => [](expired \subseteq Decisions)
<1>1. Init => expired \subseteq Decisions
  BY DEF Init
<1>2. expired \subseteq Decisions /\ [Next]_vars => (expired \subseteq Decisions)'
  <2> SUFFICES ASSUME expired \subseteq Decisions, [Next]_vars
               PROVE  expired' \subseteq Decisions
    OBVIOUS
  <2>1. ASSUME NEW c \in Callers, CallerStep(c) PROVE UNCHANGED expired
    BY <2>1 DEF CallerStep, SubmitOnce, BeginSubmission, DeclineSubmission,
                CallAdapter, AdapterReplies, AcknowledgeSubmission, CallerDies, outside
  <2>2. CASE VenueStep
    BY <2>2 DEF VenueStep, VenueReceives, VenueFills, VenueExpires, DecisionExpires
  <2>3. CASE ResolverStep
    BY <2>3 DEF ResolverStep, ResolveStart, ResolveReadFills, ResolveReadOrdersAgain,
                ResolveReadFillsAgain, RecordResolution, ResolverGivesUp, outside
  <2>4. ASSUME NEW p \in Stoppers, StopStep(p) PROVE UNCHANGED expired
    BY <2>4 DEF StopStep, RecordHalt, StartEvents, LookInitial, CaptureInitial,
                RecordStart, ReadStates, LookCurrent, CaptureCurrent,
                BeginCancellation, CancelOrder, AcknowledgeCancellation, LookClosing,
                CaptureClosing, RecordCompleted, StopperDies, StopRaises, StopperMoves,
                outside
  <2>5. CASE AssessStep
    BY <2>5 DEF AssessStep, Assess, AssessSubmissions, AssessStops, AssessClose, outside
  <2>6. CASE UNCHANGED vars
    BY <2>6 DEF vars, outside
  <2>7. QED
    BY <2>1, <2>2, <2>3, <2>4, <2>5, <2>6 DEF Next
<1>3. QED
  BY <1>1, <1>2, PTL DEF Spec

\* TypeOK: every variable of the ledger, the local state of every process
\* included, keeps its type.
THEOREM LedgerTyped == Spec => []TypeOK
<1>1. LedgerInv /\ expired \subseteq Decisions => TypeOK
  BY DEF LedgerInv, SubmissionInv, SubmissionType, VenueInv, VenueType, StopInv,
         StopType, ResolutionInv, ResolutionType, AssessmentInv, TypeOK
<1>2. QED
  BY <1>1, LedgerSound, ExpiredTyped, PTL

\* ResolutionTrue: what resolve_uncertain records is what became of the order.
THEOREM ResolutionsTrue == Spec => []ResolutionTrue
<1>1. LedgerInv => ResolutionTrue
  BY DEF LedgerInv, ResolutionInv
<1>2. QED
  BY <1>1, LedgerSound, PTL

\* StopComplete: a completed emergency stop cancelled every order of its plan
\* with the quantity filled that the plan was made for.
THEOREM StopsComplete == Spec => []StopComplete
<1>1. LedgerInv => StopComplete
  <2> SUFFICES ASSUME LedgerInv, NEW h \in Halts, stop[h] = "completed",
                      NEW k \in DOMAIN planned[h]
               PROVE  venue[k] = [status |-> "cancelled", filled |-> planned[h][k]]
    BY DEF StopComplete
  <2>1. TablesFit(h) /\ k \in Keys
    BY ReadsDomain DEF LedgerInv, StopInv, StopType
  <2>2. QED
    BY <2>1 DEF TablesFit, Tables
<1>2. QED
  BY <1>1, LedgerSound, PTL

\* RepeatOnlyAcknowledged: a cancellation of unknown fate is never sent again,
\* by whatever runs of whatever stop operations; a second request follows the
\* acknowledgement of the first (begin_cancellation, _cancel_planned_orders).
THEOREM NoBlindRepeat == Spec => []RepeatOnlyAcknowledged
<1>1. LedgerInv => RepeatOnlyAcknowledged
  <2> SUFFICES ASSUME LedgerInv, NEW k \in Keys, cancelCalls[k] > 1
               PROVE  \E h \in Halts :
                        /\ cancel[h][k] = "acknowledged"
                        /\ venue[k] = [status |-> "cancelled", filled |-> planned[h][k]]
    BY DEF RepeatOnlyAcknowledged
  <2>1. PICK h \in Halts : cancel[h][k] = "acknowledged"
    BY DEF LedgerInv, StopInv, CallsEnded
  <2>2. TablesFit(h)
    BY DEF LedgerInv, StopInv
  <2>3. QED
    BY <2>1, <2>2 DEF TablesFit, Tables
<1>2. QED
  BY <1>1, LedgerSound, PTL

\* StopEvidenceKept: the acknowledgements a completed stop rests on stay,
\* although runs of its halt key may still be at work (_completed_replay).
THEOREM StopEvidenceStays == Spec => []StopEvidenceKept
<1>1. LedgerInv => StopEvidenceKept
  BY DEF LedgerInv, StopInv, TablesFit, Tables, StopEvidenceKept
<1>2. QED
  BY <1>1, LedgerSound, PTL

\* SafeAssessment: an assessment with nothing in the way has seen only
\* acknowledged open orders, those adjudicated too early aside.
THEOREM AssessmentsSafe == Spec => []SafeAssessment
<1>1. LedgerInv => SafeAssessment
  BY DEF LedgerInv, AssessmentInv
<1>2. QED
  BY <1>1, LedgerSound, PTL

\* What a step may never do: ledger and venue only go forward.  No
\* submission, acknowledgement or adjudication is forgotten, no order that
\* has ended is reopened, no fill taken back.
THEOREM OnlyForward == Spec => [][LedgerForward /\ VenueForward]_vars
<1>1. LedgerInv /\ SubmissionInv' /\ [Next]_vars => [LedgerForward /\ VenueForward]_vars
  BY LedgerStep
<1>2. QED
  BY <1>1, LedgerSound, SubmissionSound, PTL DEF Spec
=============================================================================

------------------------------- MODULE OneShot -------------------------------
(***************************************************************************)
(* What submit_once promises its callers, without transactions, processes  *)
(* or crashes: an idempotency key is started at most once, the venue is    *)
(* called at most once and only for a started key, and an acknowledgement  *)
(* is retained only for a key whose call was made.  BrokerLedger           *)
(* implements this specification.                                          *)
(***************************************************************************)
EXTENDS Naturals

CONSTANT Keys    \* idempotency keys

VARIABLES
  started,       \* keys with a submission_started event
  calls,         \* adapter calls made, by key
  acknowledged   \* keys with a submission_acknowledged event

shotVars == <<started, calls, acknowledged>>

ShotInit == started = {} /\ calls = [k \in Keys |-> 0] /\ acknowledged = {}

ShotStart(k) ==
  /\ k \notin started
  /\ started' = started \union {k}
  /\ UNCHANGED <<calls, acknowledged>>

ShotCall(k) ==
  /\ k \in started /\ calls[k] = 0
  /\ calls' = [calls EXCEPT ![k] = 1]
  /\ UNCHANGED <<started, acknowledged>>

ShotAcknowledge(k) ==
  /\ calls[k] = 1 /\ k \notin acknowledged
  /\ acknowledged' = acknowledged \union {k}
  /\ UNCHANGED <<started, calls>>

ShotNext == \E k \in Keys : ShotStart(k) \/ ShotCall(k) \/ ShotAcknowledge(k)

ShotSpec == ShotInit /\ [][ShotNext]_shotVars
=============================================================================

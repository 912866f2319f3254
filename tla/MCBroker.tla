------------------------------ MODULE MCBroker ------------------------------
(***************************************************************************)
(* The broker ledger for TLC.  All processes at once are more than an      *)
(* instance needs: a behaviour belongs to one scene, which says the keys   *)
(* and the processes that take part.                                       *)
(***************************************************************************)
EXTENDS BrokerLedger, TLC

CONSTANTS k1, k2, c1, c2, h1, h2, r1, r2, d1, d2

VARIABLE scene

Scenes ==
  { \* callers race and retry while a resolver reads
    [keys |-> {k1}, callers |-> {c1, c2}, stoppers |-> {<<h1, r1>>},
     decisions |-> {d1, d2}, plays |-> {"resolver"}],
    \* two stop operations over one order
    [keys |-> {k1}, callers |-> {c1}, stoppers |-> {<<h1, r1>>, <<h2, r1>>},
     decisions |-> {d1}, plays |-> {"stop"}],
    \* two runs of the same stop operation over one order
    [keys |-> {k1}, callers |-> {c1}, stoppers |-> {<<h1, r1>>, <<h1, r2>>},
     decisions |-> {d1}, plays |-> {"stop"}],
    \* one stop operation over two orders
    [keys |-> {k1, k2}, callers |-> {c1}, stoppers |-> {<<h1, r1>>},
     decisions |-> {d1}, plays |-> {"stop"}],
    \* an assessment while a caller, a resolver and a stop operation run
    [keys |-> {k1}, callers |-> {c1}, stoppers |-> {<<h1, r1>>},
     decisions |-> {d1}, plays |-> {"resolver", "stop", "assessor"}] }

InScene ==
  /\ \A k \in Keys \ scene.keys : decision'[k] = "none"
  /\ \A k \in Keys : decision'[k] \in scene.decisions \union {"none"}
  /\ \A c \in Callers \ scene.callers : caller'[c].pc = "idle"
  /\ \A p \in Stoppers \ scene.stoppers : stopper'[p].pc = "idle"
  /\ "stop" \notin scene.plays =>
       \A p \in Stoppers : stopper'[p].pc \in {"idle", "start"}
  /\ "resolver" \notin scene.plays => resolver'.pc = "idle"
  /\ "assessor" \notin scene.plays => assessor'.pc = "idle"
  /\ "resolver" \notin scene.plays => expired' = {}

MCInit == Init /\ scene \in Scenes
MCNext == Next /\ InScene /\ UNCHANGED scene
MCSpec == MCInit /\ [][MCNext]_<<vars, scene>>
=============================================================================

----------------------------- MODULE MCJobQueue -----------------------------
(***************************************************************************)
(* Instances of JobQueue for TLC.                                           *)
(***************************************************************************)
EXTENDS JobQueue, TLC

Ask(kind, params, priority, mem, once) ==
    [kind |-> kind, params |-> params, priority |-> priority, mem_mb |-> mem, once |-> once]

\* Two research rows that fit the budget only one at a time, and a miner between them.
MixedRequests ==
    {Ask("sweep", "a", 900, 30000, FALSE), Ask("sweep", "b", 140, 30000, FALSE),
     Ask("earnings", "a", 500, 1000, FALSE)}

\* Two variants of a superseding kind, one of them asked for once only.
SharedRequests ==
    {Ask("intraday", "a", 100, 4000, TRUE), Ask("intraday", "b", 100, 4000, FALSE)}

\* Rows over the engine budget, a row of the weekly walk-forward grid that fits, and one
\* that runs in the drain itself.
OversizedRequests ==
    {Ask("sweep", "a", 900, 50000, FALSE), Ask("sweep", "b", 900, 50000, FALSE),
     Ask("walkforward", "a", 170, 4500, FALSE), Ask("experiment", "a", 90, 2000, FALSE)}

IntradayBehindEarnings ==
    {Ask("earnings", "a", 90, 1000, FALSE), Ask("intraday", "a", 100, 4000, FALSE),
     Ask("intraday", "b", 100, 4000, FALSE)}

Symm == Permutations(Drains)
=============================================================================

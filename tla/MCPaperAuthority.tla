-------------------------- MODULE MCPaperAuthority --------------------------
(***************************************************************************)
(* Paper authority for TLC: the threads of one process that may restart.   *)
(***************************************************************************)
EXTENDS PaperAuthority, TLC

CONSTANTS k1, k2, w1, w2, p1

MCProcOf == [w \in Workers |-> p1]

\* Keys and threads are interchangeable.
Interchangeable == Permutations(Keys) \union Permutations(Workers)
=============================================================================

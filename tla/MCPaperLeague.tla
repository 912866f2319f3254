---------------------------- MODULE MCPaperLeague ----------------------------
(* Small instances of PaperLeague for TLC. *)
EXTENDS PaperLeague

CONSTANTS A, B

Buy(t, q) == [ticker |-> t, side |-> "buy", qty |-> q]
Sell(t, q) == [ticker |-> t, side |-> "sell", qty |-> q]
Cash(p) == [price |-> p, into |-> A, ratio |-> 0]

NoneOf == {}
OneName == {A}
TwoNames == {A, B}

\* A liquid bar; one with room for a single share.
LiquidBar == {[px |-> 2, cap |-> 99]}
ThinBar == {[px |-> 2, cap |-> 3]}

LateA2 == {<<A, 2>>}
DividendsOfA == {<<A, 2>>, <<A, 3>>}
SignalsA == {Buy(A, 2), Sell(A, 1)}
SignalsAB == {Buy(A, 2), Buy(B, 1), Sell(A, 2)}
TicketsA == {Buy(A, 1), Buy(A, 2), Sell(A, 1)}
MergerTerms == {[price |-> 0, into |-> B, ratio |-> 2], Cash(0)}
=============================================================================

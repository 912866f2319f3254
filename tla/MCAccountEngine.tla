-------------------------- MODULE MCAccountEngine --------------------------
(* Small instances of AccountEngine for TLC. *)
EXTENDS AccountEngine

CONSTANTS a1, a2, x

Intent(a, side, qty, type) ==
    [acct |-> a, ticker |-> x, side |-> side, qty |-> qty, type |-> type]

\* One account trades long, a second one competes for the liquidity or sells
\* the name short.
Trades == {Intent(a1, "buy", 2, "moo"), Intent(a1, "sell", 1, "moc"),
           Intent(a2, "buy", 1, "moo"), Intent(a2, "short", 1, "moc")}
OneBuy == {Intent(a1, "buy", 1, "moo")}
=============================================================================

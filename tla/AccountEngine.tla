--------------------------- MODULE AccountEngine ---------------------------
(***************************************************************************)
(* The simulated accounts of engine/accounts: order intake, the fold that  *)
(* settles a session, halts, resumption and retirement.                    *)
(*                                                                         *)
(* An account's positions are a cache of one fold over its whole history   *)
(* (fold_account): every settlement replays the stored fills from          *)
(* inception, in the order of their effective times, and executes the      *)
(* queued orders at their own place in that order.  A bar that arrives     *)
(* late therefore executes an order in the past, between fills that are    *)
(* already stored.                                                         *)
(*                                                                         *)
(* Each operation is one transaction of the single writer, so each is one  *)
(* action.  Cash and prices are left out: what depends on them (Reg T, the *)
(* gross cap, the day-trade rule, locates, drawdown and daily loss, a      *)
(* maintenance breach, the threshold list) is a free choice.  Splits,      *)
(* dividends, financing and intraday orders are left out as well.          *)
(***************************************************************************)
EXTENDS Integers, Sequences, FiniteSets, SequencesExt, FiniteSetsExt, Sums

CONSTANTS
    Accounts, Tickers,
    Supervised,  \* accounts the owner halts, resumes and retires
    Intents,     \* what clients ask for: records [acct, ticker, side, qty, type]
    Cap,         \* shares of a name that trade per session and direction
    LastDay,     \* bound: sessions
    MaxOrders    \* bound: orders

Sides    == {"buy", "sell", "short", "cover"}
Types    == {"next_open", "moo", "moc"}

\* submit_intent takes known order types and whole, positive quantities only.
ASSUME AccountAssumption ==
    /\ IsFiniteSet(Tickers) /\ Supervised \subseteq Accounts
    /\ Intents \subseteq [acct : Accounts, ticker : Tickers, side : Sides,
                          qty : Nat \ {0}, type : Types]
    /\ Cap \in Nat /\ LastDay \in Nat /\ MaxOrders \in Nat

VARIABLES
    now,      \* the clock, see Time below
    bars,     \* the daily bars the store holds: <<ticker, session>>
    status,   \* pa_status of each account
    pos,      \* sim_positions: signed shares by account and ticker
    orders    \* sim_orders, sim_order_details and sim_fills, by order id

vars == <<now, bars, status, pos, orders>>

Statuses == {"inactive", "active", "halted", "retiring", "retired"}
Closing  == {"sell", "cover"}
Reasons  == {"client", "retirement", "margin_call", "buy_in"}
Sessions == 1..LastDay
Ids      == 1..Len(orders)

-----------------------------------------------------------------------------
(* Time.  Session d has three spans: 3d from midnight to the open, 3d + 1  *)
(* from the open to the close, 3d + 2 from the close to midnight.          *)

Today     == now \div 3
AfterClose == now % 3 = 2
LastClosed == IF AfterClose THEN Today ELSE Today - 1

\* session of execution, and the effective time within the session
ExecDay(o) == IF o.type = "next_open" THEN o.session + 1 ELSE o.session
Effective(o) == 3 * ExecDay(o) + IF o.type = "moc" THEN 1 ELSE 0

\* received_at_allowed: from the previous session's close to the cutoff.
Received(type, d, t) ==
    CASE type = "next_open" -> t \in (3 * d + 2)..(3 * d + 3)
      [] type = "moo"       -> t \in (3 * d - 1)..(3 * d)
      [] type = "moc"       -> t \in (3 * d - 1)..(3 * d + 1)

\* ledger.events sorts by effective time, then by order id.
Before(orderbook, i, j) ==
    \/ Effective(orderbook[i]) < Effective(orderbook[j])
    \/ Effective(orderbook[i]) = Effective(orderbook[j]) /\ i < j

-----------------------------------------------------------------------------
(* Orders and positions.                                                   *)

\* mutant of IsForced: every order passes for a forced close
IsForcedAlways(o) == TRUE

\* _is_forced and FORCED_CLOSE_REASONS
IsForced(o)  == o.reason # "client"
Queued(o)    == o.state = "queued"
Direction(side) == IF side \in {"buy", "cover"} THEN 1 ELSE -1
Signed(o)    == Direction(o.side) * o.filled

\* mutant of Applies: a stored fill is clamped to what is held, unnoticed
AppliesClamped(p, side, qty) == TRUE

\* ledger.apply_fill applies the whole quantity: a close needs the shares and
\* an opening side never closes the opposite position.
Applies(p, side, qty) ==
    CASE side = "buy"   -> p >= 0
      [] side = "short" -> p <= 0
      [] side = "sell"  -> qty <= p
      [] side = "cover" -> qty <= -p

Available(p, side, qty) ==
    CASE side = "sell"  -> Min({qty, Max({p, 0})})
      [] side = "cover" -> Min({qty, Max({-p, 0})})
      [] OTHER          -> qty

OrderRecord(a, t, side, qty, type, d, reason, parent) ==
    [acct |-> a, ticker |-> t, side |-> side, qty |-> qty, type |-> type,
     session |-> d, timely |-> Received(type, d, now), reason |-> reason, parent |-> parent,
     state |-> "queued", filled |-> 0]

\* The queued orders of account a that are in S are cancelled.
Cancelled(book, a, S) ==
    [i \in DOMAIN book |->
        IF book[i].acct = a /\ Queued(book[i]) /\ i \in S
        THEN [book[i] EXCEPT !.state = "cancelled"] ELSE book[i]]

\* halts.halt_account: nothing happens to an account that is halted already.
\* Otherwise every queued order goes but the forced closes.
HaltStatus(a) == [status EXCEPT ![a] = "halted"]
HaltBook(book, a) ==
    IF status[a] = "halted" THEN book
    ELSE Cancelled(book, a, {i \in DOMAIN book : ~IsForced(book[i])})

-----------------------------------------------------------------------------
(* Settlement of one account.                                              *)

\* _fill_attempt of an auction or next-open order: the receipt window first,
\* then the bar, then the order's own share of the volume.
Attempt(o) ==
    CASE o.type # "next_open" /\ ~o.timely -> "rejected"
      [] <<o.ticker, ExecDay(o)>> \notin bars -> "pending"
      [] o.qty > Cap -> "rejected"
      [] OTHER -> "filled"

\* The orders of a book in name t, session d and direction way, and what they
\* have traded.
Flow(book, t, d, way) ==
    {i \in DOMAIN book : /\ book[i].ticker = t /\ ExecDay(book[i]) = d
                         /\ Direction(book[i].side) = way}
Traded(book, t, d, way) ==
    SumOver([i \in DOMAIN book |-> book[i].filled], Flow(book, t, d, way))

\* mutant of Existing: the fills of the session are not counted
ExistingNone(t, d, way) == 0

\* _existing_notional
Existing(t, d, way) == Traded(orders, t, d, way)

\* _liquidity_refusals: the queued orders of every account share what the
\* session's fills have left, in the order of receipt.
Takers(t, d, way) ==
    {i \in Flow(orders, t, d, way) : Queued(orders[i]) /\ Attempt(orders[i]) = "filled"}
\* what is used up once the first n orders have had their turn
Used(t, d, way) ==
    LET used[n \in 0..Len(orders)] ==
            IF n = 0 THEN Existing(t, d, way)
            ELSE used[n - 1] + IF /\ n \in Takers(t, d, way)
                                  /\ used[n - 1] + orders[n].qty <= Cap
                               THEN orders[n].qty ELSE 0
    IN  used
LiquidityRefusals(t, d, way) ==
    {i \in Takers(t, d, way) : Used(t, d, way)[i - 1] + orders[i].qty > Cap}

\* _contingent_quantity
Contingent(book, o) ==
    CASE o.parent = 0 -> "independent"
      [] o.parent # 0 /\ book[o.parent].filled > 0 -> "filled"
      [] o.parent # 0 /\ book[o.parent].state \in {"rejected", "cancelled"} -> "failed"
      [] OTHER -> "pending"

\* _settle_order: what becomes of queued order i, given the book and the
\* position p at its place in the fold.  refused are the orders that the
\* locate, the day-trade rule, Reg T or the gross cap turn down.
Outcome(book, i, p, refused) ==
    LET o   == book[i]
        c   == Contingent(book, o)
        cap == IF c = "filled" THEN Min({o.qty, book[o.parent].filled}) ELSE o.qty
        qty == Available(p, o.side, cap)
        to(state, filled) == [state |-> state, filled |-> filled]
    IN  CASE status[o.acct] \in {"halted", "retiring"} /\ ~IsForced(o) -> to("cancelled", 0)
          [] c = "failed"                      -> to("rejected", 0)
          [] c = "pending"                     -> to("queued", 0)
          [] qty <= 0                          -> to("rejected", 0)
          [] o.side = "short" /\ i \in refused -> to("rejected", 0)
          [] Attempt(o) = "pending"            -> to("queued", 0)
          [] Attempt(o) = "rejected"           -> to("rejected", 0)
          [] i \in LiquidityRefusals(o.ticker, ExecDay(o), Direction(o.side)) -> to("rejected", 0)
          [] i \in refused /\ ~IsForced(o)     -> to("rejected", 0)
          [] OTHER                             -> to("filled", qty)

\* One event of the fold: a stored fill is replayed, a due order is settled.
\* A fill that no longer applies in full raises and spoils the fold.
FoldEvent(acc, i, refused) ==
    LET o    == acc.book[i]
        p    == acc.pos[o.ticker]
        done == Outcome(acc.book, i, p, refused)
        qty  == IF Queued(o) THEN done.filled ELSE o.filled
    IN  IF qty = 0
        THEN IF Queued(o) THEN [acc EXCEPT !.book[i].state = done.state] ELSE acc
        ELSE [book |-> [acc.book EXCEPT ![i].state = "filled", ![i].filled = qty],
              pos  |-> [acc.pos EXCEPT ![o.ticker] = @ + Direction(o.side) * qty],
              ok   |-> acc.ok /\ Applies(p, o.side, qty)]

\* fold_account: the history of account a up to the last closed session.
Due(a) == {i \in Ids : /\ orders[i].acct = a /\ ExecDay(orders[i]) <= LastClosed
                       /\ orders[i].state \in {"queued", "filled"}}
Latest(S) == CHOOSE i \in S : \A j \in S \ {i} : Before(orders, j, i)
Folds(a, refused) ==
    LET fold[S \in SUBSET Due(a)] ==
            IF S = {} THEN [book |-> orders, pos |-> [t \in Tickers |-> 0], ok |-> TRUE]
            ELSE FoldEvent(fold[S \ {Latest(S)}], Latest(S), refused)
    IN  fold
Fold(a, refused) == Folds(a, refused)[Due(a)]

\* What the locate, the day-trade rule and the margin rules may turn down.
Refusable(a) == {i \in Due(a) : Queued(orders[i]) /\ ~IsForced(orders[i])}

\* queue_margin_reductions: a next-open close of part of each position, or of
\* all of it, unless one is pending for the name.
Pends(book, a, t, reason) ==
    \E i \in DOMAIN book : /\ book[i].acct = a /\ book[i].ticker = t
                           /\ book[i].reason = reason /\ Queued(book[i])
CloseSide(p) == IF p > 0 THEN "sell" ELSE "cover"
Magnitude(p) == IF p > 0 THEN p ELSE -p
MarginCalls(a, book, held, whole) ==
    {OrderRecord(a, t, CloseSide(held[t]), IF whole THEN Magnitude(held[t]) ELSE 1,
                 "next_open", LastClosed, "margin_call", 0) :
        t \in {u \in Tickers : held[u] # 0 /\ ~Pends(book, a, u, "margin_call")}}

\* queue_buy_ins: a next-open cover of each short on the threshold list.
BuyIns(a, book, held, listed) ==
    {OrderRecord(a, t, "cover", -held[t], "next_open", LastClosed, "buy_in", 0) :
        t \in {u \in listed : held[u] < 0 /\ ~Pends(book, a, u, "buy_in")}}

Flat(held) == \A t \in Tickers : held[t] = 0

\* settle_session for one account, when the fold succeeds: halts.check, then
\* the margin calls and buy-ins, then finalize_retirement.
Settle(a) ==
    /\ LastClosed >= 1
    /\ status[a] \in {"active", "halted", "retiring"}
    /\ \E refused \in SUBSET Refusable(a) :
        LET fold == Fold(a, refused)
        IN  /\ fold.ok
            /\ pos' = [pos EXCEPT ![a] = fold.pos]
            /\ \E breach \in IF status[a] = "halted" THEN {FALSE} ELSE BOOLEAN :
                LET book == IF breach THEN HaltBook(fold.book, a) ELSE fold.book
                IN  /\ \E called \in {{}, MarginCalls(a, book, fold.pos, FALSE),
                                          MarginCalls(a, book, fold.pos, TRUE)},
                          listed \in SUBSET {t \in Tickers : fold.pos[t] < 0} :
                        /\ orders' = book \o SetToSeq(called)
                                          \o SetToSeq(BuyIns(a, book, fold.pos, listed))
                        /\ Len(orders') <= MaxOrders
                    /\ status' = [status EXCEPT ![a] =
                            CASE breach -> "halted"
                              [] ~breach /\ @ = "retiring" /\ Flat(fold.pos) -> "retired"
                              [] OTHER -> @]
    /\ UNCHANGED <<now, bars>>

\* The fold raises, or the sources it needs cannot be read: everything is
\* rolled back and persist_mismatch halts the account in a second transaction.
SettleFails(a) ==
    /\ LastClosed >= 1
    /\ status[a] \in {"active", "halted", "retiring"}
    /\ status' = HaltStatus(a)
    /\ orders' = HaltBook(orders, a)
    /\ UNCHANGED <<now, bars, pos>>

-----------------------------------------------------------------------------
(* Clients and the owner.                                                  *)

\* submit_intent, _capacity and _contingent_parent.  The limits on opening
\* orders depend on prices: an order they refuse is one that is not submitted.
Parents(i, d) ==
    {k \in Ids : /\ Queued(orders[k]) /\ orders[k].acct = i.acct
                 /\ orders[k].ticker = i.ticker /\ orders[k].session = d
                 /\ <<orders[k].side, i.side>> \in {<<"buy", "sell">>, <<"short", "cover">>}
                 /\ i.qty <= orders[k].qty /\ orders[k].reason = "client"
                 /\ <<orders[k].type, i.type>> # <<"moc", "moo">>
                 /\ orders[k].type = "next_open" => i.type = "next_open"}
Held(i) == Available(pos[i.acct][i.ticker], i.side, i.qty) = i.qty
Submit(i, d) ==
    /\ Len(orders) < MaxOrders
    /\ Received(i.type, d, now)
    /\ status[i.acct] \notin {"halted", "retiring", "retired"}
    /\ \A k \in Ids : ~ /\ Queued(orders[k]) /\ orders[k].acct = i.acct
                        /\ orders[k].ticker = i.ticker /\ orders[k].side = i.side
    /\ \E parent \in {0} \cup Parents(i, d) :
        /\ parent = 0 => Held(i)
        /\ orders' = Append(orders, OrderRecord(i.acct, i.ticker, i.side, i.qty, i.type,
                                                d, "client", parent))
    /\ status' = [status EXCEPT ![i.acct] = "active"]
    /\ UNCHANGED <<now, bars, pos>>

\* service.cancel, of any queued order, until its cutoff.
Cancel(k) ==
    /\ Queued(orders[k])
    /\ now <= Effective(orders[k])
    /\ orders' = Cancelled(orders, orders[k].acct, {k})
    /\ UNCHANGED <<now, bars, status, pos>>

\* service.halt and a reported reconciliation mismatch.
Halt(a) ==
    /\ status[a] \notin {"halted", "retired"}
    /\ status' = HaltStatus(a)
    /\ orders' = HaltBook(orders, a)
    /\ UNCHANGED <<now, bars, pos>>

Resume(a) ==
    /\ status[a] = "halted"
    /\ status' = [status EXCEPT ![a] = "active"]
    /\ UNCHANGED <<now, bars, pos, orders>>

\* service.retire: opening orders are cancelled and every position gets a MOC
\* close for the session after today's date.
Retire(a) ==
    LET d      == Today + 1
        opened == {i \in Ids : orders[i].side \notin Closing}
        closes == {OrderRecord(a, t, CloseSide(pos[a][t]), Magnitude(pos[a][t]), "moc", d,
                               "retirement", 0) : t \in {u \in Tickers : pos[a][u] # 0}}
        book   == Cancelled(orders, a, opened) \o SetToSeq(closes)
    IN  /\ status[a] \notin {"retired", "retiring"}
        /\ Len(book) <= MaxOrders
        /\ orders' = book
        /\ status' = [status EXCEPT ![a] = IF closes = {} THEN "retired" ELSE "retiring"]
        /\ UNCHANGED <<now, bars, pos>>

-----------------------------------------------------------------------------
(* The market.                                                             *)

\* A bar is collected once its session has closed, at any later time.
Deliver(t, d) ==
    /\ d <= LastClosed
    /\ <<t, d>> \notin bars
    /\ bars' = bars \cup {<<t, d>>}
    /\ UNCHANGED <<now, status, pos, orders>>

Tick ==
    /\ now < 3 * LastDay + 2
    /\ now' = now + 1
    /\ UNCHANGED <<bars, status, pos, orders>>

Init ==
    /\ now = 2
    /\ bars = {}
    /\ status = [a \in Accounts |-> "inactive"]
    /\ pos = [a \in Accounts |-> [t \in Tickers |-> 0]]
    /\ orders = <<>>

Next ==
    \/ Tick
    \/ \E t \in Tickers, d \in Sessions : Deliver(t, d)
    \/ \E i \in Intents, d \in Sessions : Submit(i, d)
    \/ \E k \in Ids : Cancel(k)
    \/ \E a \in Accounts : Settle(a) \/ SettleFails(a)
    \/ \E a \in Supervised : Halt(a) \/ Resume(a) \/ Retire(a)

Spec == Init /\ [][Next]_vars

-----------------------------------------------------------------------------
TypeOK ==
    /\ now \in 2..(3 * LastDay + 2)
    /\ bars \subseteq Tickers \X Sessions
    /\ status \in [Accounts -> Statuses]
    /\ pos \in [Accounts -> [Tickers -> Int]]
    /\ Len(orders) <= MaxOrders
    /\ \A i \in Ids : /\ orders[i].reason \in Reasons
                      /\ orders[i].filled \in 0..orders[i].qty
                      /\ (orders[i].filled > 0) = (orders[i].state = "filled")

\* The signed shares of account a in t that the orders in S of a book have
\* traded, and the orders of the book that come before k.
Shares(book, a, t, S) ==
    SumOver([i \in DOMAIN book |-> Signed(book[i])],
            {i \in S : book[i].acct = a /\ book[i].ticker = t})
Earlier(book, k) == {i \in DOMAIN book : Before(book, i, k)}

\* With p shares held, fill o closes no more than those, or opens on their side.
Fits(o, p) == IF o.side \in Closing THEN o.filled <= -Direction(o.side) * p
              ELSE Direction(o.side) * p >= 0

\* The cache is the fold: the positions of an account are the sum of its
\* fills, and at its own place in effective time no fill closes more than was
\* held or opens against the opposite position, although bars arrive late and
\* closes are queued by clients, margin calls, buy-ins and retirement alike.
LedgerReplays ==
    /\ \A a \in Accounts, t \in Tickers : pos[a][t] = Shares(orders, a, t, Ids)
    /\ \A k \in Ids : orders[k].filled > 0 =>
          Fits(orders[k], Shares(orders, orders[k].acct, orders[k].ticker, Earlier(orders, k)))

\* The accounts together never trade more of a name in one session and
\* direction than its liquidity, whatever the order in which they are
\* settled, fail, and are settled again after late bars.
AggregateLiquidity ==
    \A t \in Tickers, d \in Sessions, way \in {-1, 1} : Traded(orders, t, d, way) <= Cap

\* An account that is halted or retiring only loses exposure, and retires
\* flat: no order that was queued before executes behind the halt, not even at
\* an earlier effective time, and no close turns a position around.
OnlyShrinks ==
    [][\A a \in Accounts, t \in Tickers :
        /\ status[a] \in {"halted", "retiring"} =>
              \/ pos[a][t] >= pos'[a][t] /\ pos'[a][t] >= 0
              \/ pos[a][t] <= pos'[a][t] /\ pos'[a][t] <= 0
        /\ status'[a] = "retired" => pos'[a][t] = 0]_vars

\* A retirement close trades: it is not turned down while the account still
\* holds what it was to close.
RetirementExecutes ==
    \A i \in Ids : orders[i].reason = "retirement" /\ orders[i].state = "rejected"
                        => pos[orders[i].acct][orders[i].ticker] = 0

=============================================================================

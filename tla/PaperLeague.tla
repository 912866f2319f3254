----------------------------- MODULE PaperLeague -----------------------------
(***************************************************************************)
(* One book of the paper league: sim/league.py with the fill model         *)
(* (sim/fills.py), the ledger (sim/ledger.py), the accounting              *)
(* (sim/portfolio.py), delisting close-outs and owner settlements          *)
(* (sim/settle.py), discretionary tickets (server/tickets.py) and the      *)
(* nightly's session gate (engine/market_date.py).                         *)
(*                                                                         *)
(* Sessions are the numbers 1..LastDay.  Money, shares and prices are      *)
(* integers; where the code divides a share the model rounds down.  A day  *)
(* step is one database transaction, here a run of small steps between     *)
(* BeginNightly/BeginManual/BeginRerun and Commit; Rollback is a crash or  *)
(* an exception anywhere in it.  The single writer keeps everybody else    *)
(* out meanwhile, so all other actions wait for phase "idle".              *)
(***************************************************************************)
EXTENDS Integers, FiniteSets, FiniteSetsExt, Sums

CONSTANTS
    Tickers,
    LastDay,                 \* bound: sessions the model collects
    MaxOrders,               \* bound: order ids handed out
    InitialCash,
    Slip,                    \* cost per share and side of the execution profile
    BarChoices,              \* bars the feed may print: [px, cap], cap the liquidity ceiling
    LateBars,                \* <<ticker, session>> of the bars that may be stored late
    Dividends,               \* <<ticker, ex-date>> of the dividends that may be published
    Dropped,                 \* tickers the exchange directory may drop
    Quarantinable,           \* tickers the data-quality rules may quarantine
    Signals,                 \* orders a strategy may generate: [ticker, side, qty]
    Tickets,                 \* orders the owner may submit: [ticker, side, qty]
    Terms,                   \* terms the owner may source: [price, into, ratio]
    PENDING_MAX_DAYS,        \* 3 in fills.py
    DIVIDEND_LOOKBACK_DAYS,  \* 10 in portfolio.py
    DELISTED_AFTER_SESSIONS, \* 5 in settle.py
    Backdated,               \* may the owner step a session older than a stepped one?
    SettleAhead              \* may the owner settle effective after the last step?

ASSUME LeagueAssumption ==
    /\ LastDay \in Nat /\ MaxOrders \in Nat
    /\ InitialCash \in Nat /\ Slip \in Nat
    /\ \A b \in BarChoices : b.px \in Nat /\ b.px > Slip /\ b.cap \in Nat
    /\ \A o \in Signals \cup Tickets :
          o.ticker \in Tickers /\ o.side \in {"buy", "sell"} /\ o.qty \in Nat \ {0}
    /\ LateBars \subseteq Tickers \X (1 .. LastDay)
    /\ Dividends \subseteq Tickers \X (1 .. LastDay)
    /\ Dropped \subseteq Tickers /\ Quarantinable \subseteq Tickers
    /\ \A x \in Terms : x.price \in Nat /\ x.into \in Tickers /\ x.ratio \in Nat
    /\ PENDING_MAX_DAYS \in Nat \ {0}
    /\ DIVIDEND_LOOKBACK_DAYS \in Nat /\ DELISTED_AFTER_SESSIONS \in Nat \ {0}
    /\ Backdated \in BOOLEAN /\ SettleAhead \in BOOLEAN

VARIABLES
    latest,       \* last session in prices
    bars,         \* prices: bars[d][t]
    published,    \* corporate_actions: dividends seen by the collector
    droppedOn,    \* universe_snapshot: first session of the omission, 0 while listed
    quarantined,  \* tickers with a quarantine reason
    changed,      \* stored data or settlements changed since the last committed step
    nextId,       \* the order id sequence
    orders,       \* sim_orders
    fills,        \* sim_fills
    credits,      \* sim_dividends
    settlements,  \* sim_settlements
    cash,         \* portfolios.cash
    pos,          \* sim_positions
    equity,       \* dates with a sim_equity row
    tx            \* the open day-step transaction

market == <<latest, bars, published, droppedOn, quarantined, changed>>
book == <<orders, fills, credits, settlements, cash, pos, equity>>
vars == <<market, nextId, book, tx>>

Days == 1 .. LastDay
Order == [ticker : Tickers, side : {"buy", "sell"}, qty : Nat \ {0},
          sig : 1 .. LastDay + 1,
          status : {"pending", "filled", "rejected", "cancelled"},
          reason : {"none", "no_bar", "illiquid", "quarantine",
                    "no_position", "insufficient_cash"},
          ticket : BOOLEAN]

\* A session without a bar the fill model trusts.
NoBar == [px |-> 0, cap |-> 0]
Traded(t, d) == bars[d][t].px > 0

\* The saved columns a rollback puts back.
Book == [orders |-> orders, fills |-> fills, credits |-> credits,
         settlements |-> settlements, cash |-> cash, pos |-> pos, equity |-> equity]

Idle == [phase |-> "idle"]
OpenTx(d, rerun) ==
    [phase |-> "dividends", day |-> d, rerun |-> rerun, saved |-> Book,
     id |-> nextId, todo |-> {}, buys |-> {}, budget |-> 0, wanted |-> 0, signalled |-> {}]

Init ==
    /\ latest = 0
    /\ bars = [d \in Days |-> [t \in Tickers |-> NoBar]]
    /\ published = {}
    /\ droppedOn = [t \in Tickers |-> 0]
    /\ quarantined = {}
    /\ changed = FALSE
    /\ nextId = 1
    /\ orders = << >>
    /\ fills = {} /\ credits = {} /\ settlements = {} /\ equity = {}
    /\ cash = InitialCash
    /\ pos = [t \in Tickers |-> 0]
    /\ tx = Idle

-----------------------------------------------------------------------------
(* The market data the nightly collects. *)

\* The collector stores a session; a name may have no trusted bar.
Collect ==
    /\ tx.phase = "idle" /\ latest < LastDay
    /\ latest' = latest + 1
    /\ \E row \in [Tickers -> BarChoices \cup {NoBar}] : bars' = [bars EXCEPT ![latest + 1] = row]
    /\ UNCHANGED <<published, droppedOn, quarantined, changed, nextId, book, tx>>

\* A bar that was missing when its session was collected is stored later.
LateBar(x) ==
    /\ tx.phase = "idle" /\ x[2] <= latest /\ ~Traded(x[1], x[2])
    /\ \E b \in BarChoices : bars' = [bars EXCEPT ![x[2]][x[1]] = b]
    /\ changed' = TRUE
    /\ UNCHANGED <<latest, published, droppedOn, quarantined, nextId, book, tx>>

\* A dividend row lands, on its ex-date or later.
Publish(x) ==
    /\ tx.phase = "idle" /\ x[2] <= latest /\ x \notin published
    /\ published' = published \cup {x}
    /\ changed' = TRUE
    /\ UNCHANGED <<latest, bars, droppedOn, quarantined, nextId, book, tx>>

\* The exchange directory stops listing a name.
Drop(t) ==
    /\ tx.phase = "idle" /\ droppedOn[t] = 0 /\ latest > 0
    /\ droppedOn' = [droppedOn EXCEPT ![t] = latest]
    /\ changed' = TRUE
    /\ UNCHANGED <<latest, bars, published, quarantined, nextId, book, tx>>

\* The data-quality rules quarantine a name, or release it.
Quarantine(t) ==
    /\ tx.phase = "idle"
    /\ quarantined' = (quarantined \ {t}) \cup ({t} \ quarantined)
    /\ changed' = TRUE
    /\ UNCHANGED <<latest, bars, published, droppedOn, nextId, book, tx>>

-----------------------------------------------------------------------------
(* The ledger: the state that the recorded events replay to. *)

Sum(S, Op(_)) == SumOver([x \in S |-> Op(x)], S)
BuyPx(b) == b.px + Slip
SellPx(b) == b.px - Slip
Conversions(ss) == {x \in ss : x.ratio > 0}

\* One day of the shared event sequence, in its phases: dividends,
\* settlements at their recorded quantity, sells, buys.  A settlement takes
\* shares only from a position row that exists by then ("rows"); "ok" is FALSE
\* once a stored fill would change its quantity, which the replay refuses.
ReplayDay(s, d, fs, cs, ss) ==
    LET paid == {c \in cs : c.ex = d}
        booked == {x \in ss : x.eff = d}
        sold == {f \in fs : f.day = d /\ f.side = "sell"}
        bought == {f \in fs : f.day = d /\ f.side = "buy"}
        Qty(S, t) == Sum({x \in S : x.ticker = t}, LAMBDA x : x.qty)
        open == [t \in Tickers |->
                    s.pos[t] - (IF t \in s.rows THEN Qty(booked, t) ELSE 0)
                    + Sum({x \in booked : x.into = t}, LAMBDA x : x.qty * x.ratio)]
        rich == s.cash + Sum(paid, LAMBDA c : c.qty)
                + Sum(booked, LAMBDA x : x.qty * x.price)
                + Sum(sold, LAMBDA f : f.qty * f.px)
        cost == Sum(bought, LAMBDA f : f.qty * f.px)
    IN [ok |-> /\ s.ok
               /\ \A f \in sold : Qty(sold, f.ticker) <= open[f.ticker]
               /\ \A f \in bought : open[f.ticker] - Qty(sold, f.ticker) >= 0
               /\ bought # {} => cost <= rich,
        cash |-> rich - cost,
        rows |-> s.rows \cup {f.ticker : f \in bought}
                        \cup {x.into : x \in Conversions(booked)},
        pos |-> [t \in Tickers |-> open[t] - Qty(sold, t) + Qty(bought, t)]]

Replay(fs, cs, ss, through) ==
    LET close[d \in 0 .. LastDay + 1] ==
            IF d = 0
            THEN [ok |-> TRUE, cash |-> InitialCash, rows |-> {},
                  pos |-> [t \in Tickers |-> 0]]
            ELSE ReplayDay(close[d - 1], d, fs, cs, ss)
    IN close[through]

\* The projected position at the close of a session.
AtClose(d) == Replay(fills, credits, settlements, d)

-----------------------------------------------------------------------------
(* The owner: tickets and settlements. *)

Marked(o, st) == [o EXCEPT !.status = st]
Resolved(o, st, why) == [o EXCEPT !.status = st, !.reason = why]
Status(i, st, why) == [orders EXCEPT ![i] = Resolved(orders[i], st, why)]
PendingOrders == {i \in DOMAIN orders : orders[i].status = "pending"}
LastStep == IF equity = {} THEN 0 ELSE Max(equity)
NewOrder(o, sig, st, why, isTicket) ==
    [i \in DOMAIN orders \cup {nextId} |->
        IF i = nextId
        THEN [ticker |-> o.ticker, side |-> o.side, qty |-> o.qty, sig |-> sig,
              status |-> st, reason |-> why, ticket |-> isTicket]
        ELSE orders[i]]

\* next_order_id(): never reused, whatever became of the orders.
TakeId == nextId' = nextId + 1

\* A sell ticket closes what is held and not yet promised to a pending sell.
AvailableToSell(t) ==
    pos[t] - Sum({i \in PendingOrders : orders[i].ticker = t /\ orders[i].side = "sell"},
                 LAMBDA i : orders[i].qty)

\* A ticket is dated the last session in prices, or today once the market has
\* opened on a session that is not collected yet.
SubmitTicket(o, sig) ==
    /\ tx.phase = "idle" /\ nextId <= MaxOrders
    /\ latest > 0 /\ sig \in {latest, latest + 1}
    /\ o.side = "sell" => o.qty <= AvailableToSell(o.ticker)
    /\ orders' = NewOrder(o, sig, "pending", "none", TRUE)
    /\ TakeId
    /\ UNCHANGED <<market, fills, credits, settlements, cash, pos, equity, tx>>

CancelTicket(i) ==
    /\ tx.phase = "idle" /\ i \in PendingOrders /\ orders[i].ticket
    /\ orders' = Status(i, "cancelled", "none")
    /\ UNCHANGED <<market, nextId, fills, credits, settlements, cash, pos, equity, tx>>

\* validate(): the name must be dead from the effective date on, and an
\* acquirer must have traded since.
Settleable(t, term, eff) ==
    /\ \A d \in Days : d >= eff => ~Traded(t, d)
    /\ term.ratio > 0 => /\ term.into # t
                         /\ \E d \in Days : d >= eff /\ Traded(term.into, d)
    /\ \A x \in settlements : ~(x.ticker = t /\ x.eff = eff)

\* The positions a settlement leaves: the dead name's goes, an acquirer's grows.
SettledPosTwice(t, term) ==
    [u \in Tickers |-> pos[u] + (IF u = term.into THEN pos[t] * term.ratio ELSE 0)]
SettledPos(t, term) ==
    [u \in Tickers |-> (IF u = t THEN 0 ELSE pos[u])
                       + (IF u = term.into THEN pos[t] * term.ratio ELSE 0)]

\* apply_settlement_event() and the cancellation of the name's pending orders.
ApplySettlement(t, term, eff, auto) ==
    /\ settlements' = settlements \cup
          {[ticker |-> t, qty |-> pos[t], price |-> term.price, into |-> term.into,
            ratio |-> term.ratio, eff |-> eff, auto |-> auto]}
    /\ cash' = cash + pos[t] * term.price
    /\ pos' = SettledPos(t, term)
    /\ orders' = [i \in DOMAIN orders |->
                    IF i \in PendingOrders /\ orders[i].ticker = t
                    THEN Marked(orders[i], "cancelled") ELSE orders[i]]

Settle(t, term, eff) ==
    /\ tx.phase = "idle" /\ pos[t] # 0
    /\ eff \in 1 .. (IF SettleAhead THEN latest + 1 ELSE LastStep)
    /\ Settleable(t, term, eff)
    /\ ApplySettlement(t, term, eff, FALSE)
    /\ changed' = TRUE
    /\ UNCHANGED <<latest, bars, published, droppedOn, quarantined,
                   nextId, fills, credits, equity, tx>>

-----------------------------------------------------------------------------
(* Opening the day-step transaction. *)

Open(d) ==
    /\ tx.phase = "idle"
    /\ d \in 1 .. latest /\ d \notin equity

\* The nightly steps the latest session and refuses a gap since the last one
\* (a league without books passes, and is created by the same run).
BeginNightly(d) ==
    /\ Open(d) /\ d = latest
    /\ equity = {} \/ d = LastStep + 1
    /\ tx' = OpenTx(d, FALSE)
    /\ UNCHANGED <<market, nextId, book>>

\* The owner steps a session with --date: no gate but the missing equity row.
BeginManual(d) ==
    /\ Open(d) /\ (Backdated \/ d > LastStep)
    /\ tx' = OpenTx(d, FALSE)
    /\ UNCHANGED <<market, nextId, book>>

\* rebuild_state(): the replay of the events that survive the clean-up.
RebuiltNot(fs, cs) == [ok |-> TRUE, cash |-> cash, pos |-> pos]
Rebuilt(fs, cs) == Replay(fs, cs, settlements, LastDay + 1)

\* Its own orders go (tickets stay), the orders it filled are pending again.
ClearedKeepFilled(d, fs) ==
    [i \in {j \in DOMAIN orders : orders[j].sig # d \/ orders[j].ticket} |-> orders[i]]
Cleared(d, fs) ==
    [i \in {j \in DOMAIN orders : orders[j].sig # d \/ orders[j].ticket} |->
        IF orders[i].status = "filled" /\ ~\E f \in fs : f.order = i
        THEN Marked(orders[i], "pending") ELSE orders[i]]

\* --rerun of the last stepped session: its rows are deleted, and cash and
\* positions are rebuilt from what survives.
BeginRerun(d) ==
    /\ tx.phase = "idle" /\ d \in equity /\ d = LastStep
    /\ equity' = equity \ {d}
    /\ fills' = {f \in fills : f.day # d}
    /\ credits' = {c \in credits : c.ex # d}
    /\ LET after == Rebuilt(fills', credits')
       IN after.ok /\ cash' = after.cash /\ pos' = after.pos
    /\ orders' = Cleared(d, fills')
    /\ tx' = OpenTx(d, TRUE)
    /\ UNCHANGED <<market, nextId, settlements>>

-----------------------------------------------------------------------------
(* Phases a0 and a1: dividends and delisted holdings. *)

Phase(p) == tx.phase = p
Enter(p) == tx' = [tx EXCEPT !.phase = p]

\* The dividends of the look-back window, on names the book ever received,
\* that it has not been paid.
EverHeld == {f.ticker : f \in fills} \cup {x.into : x \in Conversions(settlements)}
UnpaidAgain ==
    {x \in published : /\ x[1] \in EverHeld
                       /\ x[2] > tx.day - DIVIDEND_LOOKBACK_DAYS /\ x[2] <= tx.day}
Unpaid ==
    {x \in published : /\ x[1] \in EverHeld
                       /\ x[2] > tx.day - DIVIDEND_LOOKBACK_DAYS /\ x[2] <= tx.day
                       /\ ~\E c \in credits : c.ticker = x[1] /\ c.ex = x[2]}

\* The entitlement is the position at the close before the ex-date, projected
\* from the recorded events; the dividend per share is 1.
EntitledNow(x) == pos[x[1]]
Entitled(x) == AtClose(x[2] - 1).pos[x[1]]
CreditDividends ==
    /\ Phase("dividends")
    /\ \A x \in Unpaid : AtClose(x[2] - 1).ok
    /\ LET due == {x \in Unpaid : Entitled(x) # 0}
       IN /\ credits' = credits \cup
                {[ticker |-> x[1], ex |-> x[2], qty |-> Entitled(x)] : x \in due}
          /\ cash' = cash + Sum(due, Entitled)
    /\ Enter("closeout")
    /\ UNCHANGED <<market, nextId, orders, fills, settlements, pos, equity>>

LastTraded(t, d) == Max({e \in 1 .. d : Traded(t, e)} \cup {0})

\* Held, dropped from the directory on or after its last trade, silent long
\* enough, and not settled on the owner's terms since.
Delisted(t, d) ==
    LET last == LastTraded(t, d)
    IN /\ pos[t] # 0 /\ last > 0
       /\ droppedOn[t] >= last /\ droppedOn[t] <= d
       /\ d - last >= DELISTED_AFTER_SESSIONS
       /\ \A x \in settlements : ~(x.ticker = t /\ x.eff > last /\ ~x.auto)

\* Closed out in cash at the last traded close, effective the session after.
CloseOut(t) ==
    LET last == LastTraded(t, tx.day)
        term == [price |-> bars[last][t].px, into |-> t, ratio |-> 0]
    IN /\ Phase("closeout") /\ Delisted(t, tx.day)
       /\ Settleable(t, term, last + 1)
       /\ ApplySettlement(t, term, last + 1, TRUE)
       /\ UNCHANGED <<market, nextId, fills, credits, equity, tx>>

\* fill_pending() takes the orders signalled before the session.
DueSameBar(i, d) == orders[i].sig <= d
Due(i, d) == orders[i].sig < d

CloseOutDone ==
    /\ Phase("closeout")
    /\ \A t \in Tickers : Delisted(t, tx.day) =>
          ~Settleable(t, [price |-> 0, into |-> t, ratio |-> 0], LastTraded(t, tx.day) + 1)
    /\ tx' = [tx EXCEPT !.phase = "fill",
                        !.todo = {i \in PendingOrders : Due(i, tx.day)}]
    /\ UNCHANGED <<market, nextId, book>>

-----------------------------------------------------------------------------
(* Phase a: fills at the session's open, sells first. *)

\* attempt_fill(): fill only later than the signal, never without a bar.
AttemptFillPatient(o, qty, d) ==
    IF ~Traded(o.ticker, d)
    THEN IF d - o.sig > PENDING_MAX_DAYS THEN "no_bar" ELSE "pending"
    ELSE IF qty * bars[d][o.ticker].px > bars[d][o.ticker].cap THEN "illiquid" ELSE "filled"
AttemptFill(o, qty, d) ==
    IF ~Traded(o.ticker, d)
    THEN IF d - o.sig >= PENDING_MAX_DAYS THEN "no_bar" ELSE "pending"
    ELSE IF qty * bars[d][o.ticker].px > bars[d][o.ticker].cap THEN "illiquid" ELSE "filled"

TodoSells == {i \in tx.todo : orders[i].side = "sell"}
Done(i) == [tx EXCEPT !.todo = @ \ {i}]

FillRow(i, qty, px) ==
    [order |-> i, ticker |-> orders[i].ticker, side |-> orders[i].side,
     qty |-> qty, px |-> px, day |-> tx.day]

\* A sell is clamped to what is held, then attempted.
SellQtyAsked(i) == orders[i].qty
SellQty(i) == Min({orders[i].qty, pos[orders[i].ticker]})
FillSell(i) ==
    LET o == orders[i]
        qty == SellQty(i)
        outcome == IF qty <= 0 THEN "no_position" ELSE AttemptFill(o, qty, tx.day)
        px == SellPx(bars[tx.day][o.ticker])
    IN /\ Phase("fill") /\ TodoSells # {} /\ i = Min(TodoSells)
       /\ IF outcome = "filled"
          THEN /\ fills' = fills \cup {FillRow(i, qty, px)}
               /\ cash' = cash + qty * px
               /\ pos' = [pos EXCEPT ![o.ticker] = @ - qty]
               /\ orders' = Status(i, "filled", "none")
          ELSE /\ orders' = IF outcome = "pending" THEN orders ELSE Status(i, "rejected", outcome)
               /\ UNCHANGED <<fills, cash, pos>>
       /\ tx' = Done(i)
       /\ UNCHANGED <<market, nextId, credits, settlements, equity>>

\* An executable buy waits until every buy of the session has been looked at.
AttemptBuy(i) ==
    LET o == orders[i]
        outcome == IF o.ticker \in quarantined THEN "quarantine"
                   ELSE AttemptFill(o, o.qty, tx.day)
    IN /\ Phase("fill") /\ TodoSells = {} /\ tx.todo # {} /\ i = Min(tx.todo)
       /\ tx' = IF outcome = "filled" THEN [Done(i) EXCEPT !.buys = @ \cup {i}] ELSE Done(i)
       /\ orders' = IF outcome \in {"filled", "pending"} THEN orders
                    ELSE Status(i, "rejected", outcome)
       /\ UNCHANGED <<market, nextId, fills, credits, settlements, cash, pos, equity>>

Cost(i) == orders[i].qty * BuyPx(bars[tx.day][orders[i].ticker])
SizeBuys ==
    /\ Phase("fill") /\ tx.todo = {}
    /\ tx' = [tx EXCEPT !.phase = "buy", !.budget = cash, !.wanted = Sum(tx.buys, Cost)]
    /\ UNCHANGED <<market, nextId, book>>

\* When the buys together cost more than the cash, all are scaled alike.
Scaled(qty) == IF tx.wanted > tx.budget THEN (qty * tx.budget) \div tx.wanted ELSE qty

\* apply_fill() clamps a buy to the cash, rejects dust and refuses a buy
\* against a short position (the exception is left to Rollback).
FillBuy(i) ==
    LET o == orders[i]
        px == BuyPx(bars[tx.day][o.ticker])
        qty == Min({Scaled(o.qty), cash \div px})
    IN /\ Phase("buy") /\ tx.buys # {} /\ i = Min(tx.buys)
       /\ pos[o.ticker] >= 0
       /\ IF qty = 0
          THEN orders' = Status(i, "rejected", "insufficient_cash") /\ UNCHANGED <<fills, cash, pos>>
          ELSE /\ fills' = fills \cup {FillRow(i, qty, px)}
               /\ cash' = cash - qty * px
               /\ pos' = [pos EXCEPT ![o.ticker] = @ + qty]
               /\ orders' = Status(i, "filled", "none")
       /\ tx' = [tx EXCEPT !.buys = @ \ {i}]
       /\ UNCHANGED <<market, nextId, credits, settlements, equity>>

-----------------------------------------------------------------------------
(* Phases b and c: mark to market, new orders, commit. *)

MarkToMarket ==
    /\ Phase("buy") /\ tx.buys = {}
    /\ equity' = equity \cup {tx.day}
    /\ Enter("generate")
    /\ UNCHANGED <<market, nextId, orders, fills, credits, settlements, cash, pos>>

PendingLegToday(s) ==
    \E i \in PendingOrders : /\ orders[i].ticker = s.ticker /\ orders[i].side = s.side
                             /\ orders[i].sig = tx.day
PendingLeg(s) ==
    \E i \in PendingOrders : orders[i].ticker = s.ticker /\ orders[i].side = s.side

\* A strategy order is skipped while one for the same leg is pending.
GenerateOrder(s) ==
    /\ Phase("generate") /\ s \notin tx.signalled /\ nextId <= MaxOrders
    /\ ~PendingLeg(s)
    /\ orders' = IF s.side = "buy" /\ s.ticker \in quarantined
                 THEN NewOrder(s, tx.day, "rejected", "quarantine", FALSE)
                 ELSE NewOrder(s, tx.day, "pending", "none", FALSE)
    /\ TakeId
    /\ tx' = [tx EXCEPT !.signalled = @ \cup {s}]
    /\ UNCHANGED <<market, fills, credits, settlements, cash, pos, equity>>

Commit ==
    /\ Phase("generate")
    /\ tx' = Idle
    /\ changed' = FALSE
    /\ UNCHANGED <<latest, bars, published, droppedOn, quarantined, nextId, book>>

\* A crash or an exception anywhere in the transaction.  The id sequence keeps
\* what it handed out, or falls back with the process that died.
Rollback ==
    /\ ~Phase("idle")
    /\ orders' = tx.saved.orders /\ fills' = tx.saved.fills
    /\ credits' = tx.saved.credits /\ settlements' = tx.saved.settlements
    /\ cash' = tx.saved.cash /\ pos' = tx.saved.pos /\ equity' = tx.saved.equity
    /\ nextId' \in {nextId, tx.id}
    /\ tx' = Idle
    /\ UNCHANGED market

Next ==
    \/ Collect
    \/ \E x \in LateBars : LateBar(x)
    \/ \E x \in Dividends : Publish(x)
    \/ \E t \in Dropped : Drop(t)
    \/ \E t \in Quarantinable : Quarantine(t)
    \/ \E o \in Tickets, sig \in 1 .. LastDay + 1 : SubmitTicket(o, sig)
    \/ \E i \in DOMAIN orders : CancelTicket(i)
    \/ \E t \in Tickers, x \in Terms, e \in 1 .. LastDay + 1 : Settle(t, x, e)
    \/ \E d \in Days : BeginNightly(d) \/ BeginManual(d) \/ BeginRerun(d)
    \/ CreditDividends
    \/ \E t \in Tickers : CloseOut(t)
    \/ CloseOutDone
    \/ \E i \in DOMAIN orders : FillSell(i) \/ AttemptBuy(i) \/ FillBuy(i)
    \/ SizeBuys
    \/ MarkToMarket
    \/ \E s \in Signals : GenerateOrder(s)
    \/ Commit
    \/ Rollback

Spec == Init /\ [][Next]_vars

-----------------------------------------------------------------------------
(* Properties. *)

\* Every variable of the book has its type.
TypeOK ==
    /\ latest \in 0 .. LastDay
    /\ bars \in [Days -> [Tickers -> BarChoices \cup {NoBar}]]
    /\ published \subseteq Dividends
    /\ droppedOn \in [Tickers -> 0 .. LastDay]
    /\ quarantined \subseteq Tickers
    /\ changed \in BOOLEAN
    /\ nextId \in 1 .. MaxOrders + 1
    /\ DOMAIN orders \subseteq 1 .. nextId - 1
    /\ \A i \in DOMAIN orders : orders[i] \in Order
    /\ fills \subseteq [order : 1 .. MaxOrders, ticker : Tickers, side : {"buy", "sell"},
                        qty : Nat \ {0}, px : Nat \ {0}, day : Days]
    /\ credits \subseteq [ticker : Tickers, ex : Days, qty : Int]
    /\ settlements \subseteq [ticker : Tickers, qty : Int, price : Nat, into : Tickers,
                              ratio : Nat, eff : 1 .. LastDay + 1, auto : BOOLEAN]
    /\ cash \in Int /\ pos \in [Tickers -> Int]
    /\ equity \subseteq Days
    /\ tx.phase \in {"idle", "dividends", "closeout", "fill", "buy", "generate"}

\* portfolio.py: "State can always be reconstructed" from the recorded events:
\* between transactions, the replay accepts every stored fill and ends in the
\* cash and the positions the book shows.
ReplayExact ==
    tx.phase = "idle" =>
        LET r == AtClose(LastDay + 1) IN r.ok /\ r.cash = cash /\ r.pos = pos

\* The clamps of fill_pending() and apply_fill(): no sequence of orders,
\* settlements, reruns and crashes overdraws the book or sells it short.
NeverOverdrawn == cash >= 0 /\ \A t \in Tickers : pos[t] >= 0

\* The transaction of step(): no rollback, rerun or deletion of orders leaves a
\* filled order without its one fill, a fill without its order, or a fill on a
\* session the book has not been marked for.
BooksClosed ==
    /\ \A i \in DOMAIN orders :
          orders[i].status = "filled" <=> \E f \in fills : f.order = i
    /\ \A f, g \in fills : f.order = g.order => f = g
    /\ \A f \in fills : f.order \in DOMAIN orders
    /\ tx.phase = "idle" => \A f \in fills : f.day \in equity

\* fills.py: a fill happens after its signal, at the price of a bar the feed
\* stored for that session, within the liquidity ceiling.
FillsHonest ==
    \A f \in fills :
        LET b == bars[f.day][f.ticker]
        IN /\ f.day > orders[f.order].sig
           /\ f.px = IF f.side = "buy" THEN BuyPx(b) ELSE SellPx(b)
           /\ f.qty <= orders[f.order].qty /\ f.qty * b.px <= b.cap

\* fills.py, PENDING_MAX_DAYS: once a session is stepped no order of an earlier
\* signal has been waiting for a bar that long.
NothingStale ==
    tx.phase = "idle" =>
        \A i \in PendingOrders : LastStep - orders[i].sig < PENDING_MAX_DAYS

\* credit_dividends(): however late the row lands and however often the session
\* is rerun, a name is credited once per ex-date, for the position at the close
\* before it, and nothing in the window is left out.  (A settlement with an
\* earlier effective date changes that position after the fact.)
EntitlementExact ==
    /\ \A c, e \in credits : c.ticker = e.ticker /\ c.ex = e.ex => c = e
    /\ settlements = {} =>
          \A c \in credits : c.qty = AtClose(c.ex - 1).pos[c.ticker]
    /\ tx.phase = "fill" => \A x \in Unpaid : Entitled(x) = 0

\* The dedup guard of generate_all(): two pending strategy orders never want the
\* same leg, although reruns return filled orders to pending.
OneOrderPerLeg ==
    \A i, j \in PendingOrders :
        (/\ orders[i].ticker = orders[j].ticker /\ orders[i].side = orders[j].side
         /\ ~orders[i].ticket /\ ~orders[j].ticket) => i = j

\* step(), --rerun: over unchanged data, redoing a session gives back its fills,
\* its cash and its positions.
Reproduced == cash = tx.saved.cash /\ pos = tx.saved.pos /\ fills = tx.saved.fills
RerunExact == tx.phase = "generate" /\ tx.rerun /\ ~changed => Reproduced

\* The same, for a book none of whose orders was ever refused for want of cash
\* and a session that is no ex-date of a name it has closed out as delisted.
RerunReproduces ==
    (/\ tx.phase = "generate" /\ tx.rerun /\ ~changed
     /\ \A i \in DOMAIN orders : orders[i].reason # "insufficient_cash"
     /\ \A x \in settlements : x.auto => <<x.ticker, tx.day>> \notin published) => Reproduced
=============================================================================

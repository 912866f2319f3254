-------------------------- MODULE PaperLeagueProofs --------------------------
(***************************************************************************)
(* Proofs about PaperLeague: for every set of names, orders, bars and      *)
(* terms, no rollback, rerun or deletion parts a fill from its order, no   *)
(* order waits past its limit, and no leg has two orders.                  *)
(***************************************************************************)
EXTENDS PaperLeague, SumTheorems

-----------------------------------------------------------------------------
(* The inductive invariant, over a book given by its orders, its fills and *)
(* its stepped sessions, so that the saved copy of an open transaction and *)
(* the book itself are described by the same words.                        *)

Pending(os) == {i \in DOMAIN os : os[i].status = "pending"}

\* Filled orders and fills match one to one; a fill is later than its signal
\* and on one of the given sessions.
Matched(os, fs, days) ==
    /\ \A i \in DOMAIN os : os[i].status = "filled" => \E f \in fs : f.order = i
    /\ \A f, g \in fs : f.order = g.order => f = g
    /\ \A f \in fs : /\ f.order \in DOMAIN os /\ os[f.order].status = "filled"
                     /\ f.day \in days /\ f.day > os[f.order].sig

\* Ids below n, orders of their type, sessions that were collected.
Formed(os, eq, n) ==
    /\ n \in Nat \ {0} /\ DOMAIN os \subseteq 1 .. n - 1
    /\ \A i \in DOMAIN os : os[i] \in Order
    /\ eq \subseteq 1 .. latest

\* An open transaction: the copy to roll back to, the session, and the orders
\* it has still to look at, which are pending and due.
OpenShape(x) ==
    DOMAIN x = {"phase", "day", "rerun", "saved", "id", "todo", "buys", "budget",
                "wanted", "signalled"}

Todo == IF tx.phase = "fill" THEN tx.todo \cup tx.buys
        ELSE IF tx.phase = "buy" THEN tx.buys ELSE {}

TxFormed ==
    \/ tx = Idle
    \/ /\ OpenShape(tx)
       /\ tx.phase \in {"dividends", "closeout", "fill", "buy", "generate"}
       /\ tx.day \in 1 .. latest
       /\ tx.id <= nextId
       /\ Formed(tx.saved.orders, tx.saved.equity, tx.id)

Shapes ==
    /\ latest \in 0 .. LastDay
    /\ Formed(orders, equity, nextId)
    /\ TxFormed

BookMatched ==
    IF tx = Idle THEN Matched(orders, fills, equity)
    ELSE /\ Matched(orders, fills, equity \cup {tx.day})
         /\ Matched(tx.saved.orders, tx.saved.fills, tx.saved.equity)
         /\ tx.phase = "generate" => tx.day \in equity

TodoDue ==
    /\ \A i \in Todo : i \in Pending(orders) /\ orders[i].sig < tx.day
    /\ tx.phase \in {"dividends", "closeout"} => tx.buys = {}
    /\ tx.phase = "fill" => tx.todo \cap tx.buys = {}

BooksInv == Shapes /\ BookMatched /\ TodoDue

-----------------------------------------------------------------------------
(* The same for orders that wait: a book whose owner never steps a session *)
(* older than a stepped one.                                               *)

\* No pending order is too old for the sessions that were stepped.
FreshIn(os, eq) ==
    \A i \in Pending(os), e \in eq : e - os[i].sig < PENDING_MAX_DAYS

SameLeg(os, i, j) ==
    /\ os[i].ticker = os[j].ticker /\ os[i].side = os[j].side
    /\ ~os[i].ticket /\ ~os[j].ticket

\* The orders that are pending or that a rerun of d returns to pending.
Alive(os, fs, d) ==
    {i \in DOMAIN os : os[i].status = "pending" \/ \E f \in fs : f.order = i /\ f.day = d}

\* One live order per leg, but for those the step of d generated itself.
LegsApart(os, fs, d) ==
    \A i, j \in Alive(os, fs, d) :
        SameLeg(os, i, j) /\ os[i].sig # d /\ os[j].sig # d => i = j
StrictlyApart(os, fs, d) ==
    \A i, j \in Alive(os, fs, d) : SameLeg(os, i, j) => i = j

Waiting(os, fs, eq) ==
    /\ FreshIn(os, eq)
    /\ \A i, j \in Pending(os) : SameLeg(os, i, j) => i = j
    /\ \A d \in eq : (\A e \in eq : e <= d) => LegsApart(os, fs, d)

\* Until the book is marked, the session of the transaction is later than
\* every stepped one; the orders that are still pending once they were looked
\* at are fresh.
WaitingInTx ==
    /\ Waiting(tx.saved.orders, tx.saved.fills, tx.saved.equity)
    /\ tx.phase # "generate" =>
          /\ \A e \in equity : e < tx.day
          /\ StrictlyApart(orders, fills, tx.day)
    /\ tx.phase \in {"fill", "buy"} =>
          \A i \in Pending(orders) \ Todo : tx.day - orders[i].sig < PENDING_MAX_DAYS
    /\ tx.phase = "generate" =>
          /\ \A e \in equity : e <= tx.day
          /\ Waiting(orders, fills, equity)

WaitingInv ==
    IF tx = Idle THEN Waiting(orders, fills, equity) ELSE WaitingInTx

-----------------------------------------------------------------------------
(* Orders.                                                                 *)

\* An order as it was but for its status and its reason.
Kept(o, p) ==
    /\ p \in Order
    /\ p.ticker = o.ticker /\ p.side = o.side /\ p.qty = o.qty /\ p.sig = o.sig
    /\ p.ticket <=> o.ticket

LEMMA OrderKept ==
  ASSUME NEW o \in Order, NEW st \in {"pending", "filled", "rejected", "cancelled"},
         NEW why \in {"none", "no_bar", "illiquid", "quarantine",
                      "no_position", "insufficient_cash"}
  PROVE  /\ Kept(o, Marked(o, st)) /\ Marked(o, st).status = st
         /\ Kept(o, Resolved(o, st, why)) /\ Resolved(o, st, why).status = st
BY DEF Order, Kept, Marked, Resolved

LEMMA OrderFields ==
  ASSUME NEW o \in Order
  PROVE  o.sig \in Nat /\ o.sig \in 1 .. LastDay + 1
         /\ o.status \in {"pending", "filled", "rejected", "cancelled"}
BY LeagueAssumption DEF Order

\* os with order i, and no other, in status st.
Restated(os, ot, i, st) ==
    /\ DOMAIN ot = DOMAIN os
    /\ \A j \in DOMAIN os : j # i => ot[j] = os[j]
    /\ Kept(os[i], ot[i]) /\ ot[i].status = st

LEMMA StatusMeans ==
  ASSUME NEW i \in DOMAIN orders, \A j \in DOMAIN orders : orders[j] \in Order,
         NEW st \in {"pending", "filled", "rejected", "cancelled"},
         NEW why \in {"none", "no_bar", "illiquid", "quarantine",
                      "no_position", "insufficient_cash"}
  PROVE  Restated(orders, Status(i, st, why), i, st)
<1> DEFINE ot == Status(i, st, why)
<1>1. ot = [orders EXCEPT ![i] = Resolved(orders[i], st, why)]
  BY DEF Status
<1>2. /\ DOMAIN ot = DOMAIN orders
      /\ \A j \in DOMAIN orders : j # i => ot[j] = orders[j]
      /\ ot[i] = Resolved(orders[i], st, why)
  BY <1>1
<1>3. QED
  BY <1>2, OrderKept DEF Restated

-----------------------------------------------------------------------------
(* Transactions.                                                           *)

\* The same transaction in phase p.
Onward(x, y, p) ==
    /\ OpenShape(y) /\ y.phase = p
    /\ y.day = x.day /\ y.saved = x.saved /\ y.id = x.id

-----------------------------------------------------------------------------
(* First and last.                                                         *)

LEMMA MinIn ==
  ASSUME NEW S \in SUBSET Nat, S # {}
  PROVE  Min(S) \in S
<1>1. \E x \in S : \A y \in S : x <= y
  BY Least
<1>2. QED
  BY <1>1 DEF Min

LEMMA MaxIn ==
  ASSUME NEW n \in Nat, NEW S \in SUBSET (1 .. n), S # {}
  PROVE  Max(S) \in S /\ \A x \in S : x <= Max(S)
<1> DEFINE T == {n - x : x \in S}
<1>1. T \in SUBSET Nat /\ T # {}
  <2>1. \A x \in S : x \in 1 .. n
    OBVIOUS
  <2>2. \A x \in S : n - x \in Nat
    BY <2>1
  <2>3. QED
    BY <2>2
<1>2. PICK t \in T : \A y \in T : t <= y
  <2> HIDE DEF T
  <2>1. QED
    BY <1>1, Least
<1>3. PICK m \in S : t = n - m
  BY <1>2
<1>4. \A x \in S : m >= x
  <2> TAKE x \in S
  <2>1. n - m <= n - x
    BY <1>2, <1>3
  <2>2. m \in 1 .. n /\ x \in 1 .. n
    OBVIOUS
  <2>3. QED
    BY <2>1, <2>2
<1>5. Max(S) \in S /\ \A x \in S : Max(S) >= x
  BY <1>4 DEF Max
<1>6. \A x \in S : x \in Nat
  OBVIOUS
<1>7. QED
  BY <1>5, <1>6

LEMMA LastStepMeans ==
  ASSUME latest \in Nat, equity \subseteq 1 .. latest
  PROVE  /\ LastStep \in Nat
         /\ equity = {} => LastStep = 0
         /\ equity # {} => LastStep \in equity
         /\ \A e \in equity : e <= LastStep
<1>1. CASE equity = {}
  BY <1>1 DEF LastStep
<1>2. CASE equity # {}
  <2>1. Max(equity) \in equity /\ \A e \in equity : e <= Max(equity)
    BY <1>2, MaxIn
  <2>2. LastStep = Max(equity)
    BY <1>2 DEF LastStep
  <2>3. \A e \in equity : e \in Nat
    OBVIOUS
  <2>4. QED
    BY <1>2, <2>1, <2>2, <2>3
<1>3. QED
  BY <1>1, <1>2

-----------------------------------------------------------------------------
(* The steps, as what they do to the orders, the fills and the sessions.   *)

Still == fills' = fills /\ equity' = equity

\* Pending orders are cancelled or rejected; nothing else changes.
Shrinks(os, ot) ==
    /\ DOMAIN ot = DOMAIN os
    /\ \A i \in DOMAIN os :
          \/ ot[i] = os[i]
          \/ /\ os[i].status = "pending" /\ Kept(os[i], ot[i])
             /\ ot[i].status \in {"cancelled", "rejected"}

\* An order of leg s with a new id.
Adds(os, ot, n, s, sig, st) ==
    /\ DOMAIN ot = DOMAIN os \cup {n}
    /\ \A i \in DOMAIN os : i # n => ot[i] = os[i]
    /\ ot[n] \in Order /\ ot[n].sig = sig /\ ot[n].status = st
    /\ ot[n].ticker = s.ticker /\ ot[n].side = s.side

\* The owner and the collector, between transactions.
Outside ==
    /\ tx = Idle /\ tx' = Idle /\ latest' \in latest .. LastDay /\ Still
    /\ \/ Shrinks(orders, orders') /\ nextId' = nextId
       \/ \E o \in Tickets, sig \in latest .. LastDay + 1 :
             /\ Adds(orders, orders', nextId, o, sig, "pending") /\ orders'[nextId].ticket
             /\ nextId' = nextId + 1

\* A transaction opens, on a new session or on the last one again.
Opens ==
    /\ tx = Idle /\ OpenShape(tx') /\ tx'.phase = "dividends" /\ tx'.buys = {}
    /\ tx'.saved.orders = orders /\ tx'.saved.fills = fills /\ tx'.saved.equity = equity
    /\ tx'.id = nextId /\ nextId' = nextId /\ latest' = latest
    /\ tx'.day \in 1 .. latest
    /\ \/ /\ tx'.day \notin equity /\ (Backdated \/ \A e \in equity : e < tx'.day)
          /\ orders' = orders /\ Still
       \/ /\ tx'.day \in equity /\ \A e \in equity : e <= tx'.day
          /\ equity' = equity \ {tx'.day}
          /\ fills' = {f \in fills : f.day # tx'.day}
          /\ orders' = Cleared(tx'.day, fills')

\* Dividends and close-outs.
Prepares ==
    /\ tx.phase \in {"dividends", "closeout"} /\ Onward(tx, tx', "closeout")
    /\ tx'.buys = tx.buys
    /\ Shrinks(orders, orders') /\ Still /\ nextId' = nextId

LooksUp ==
    /\ tx.phase = "closeout" /\ Onward(tx, tx', "fill")
    /\ tx'.buys = tx.buys /\ tx'.todo = {i \in PendingOrders : Due(i, tx.day)}
    /\ orders' = orders /\ Still /\ nextId' = nextId

\* Order i is left pending, rejected or filled.
Leaves(i) == orders' = orders /\ Still /\ tx.day - orders[i].sig < PENDING_MAX_DAYS
Rejects(i) == Restated(orders, orders', i, "rejected") /\ Still
Fills(i) ==
    /\ Restated(orders, orders', i, "filled")
    /\ \E f : f.order = i /\ f.day = tx.day /\ fills' = fills \cup {f}
    /\ equity' = equity

\* An order of the session is dealt with, or put off to the next phase.
Handles ==
    /\ tx.phase \in {"fill", "buy"} /\ nextId' = nextId
    /\ tx'.phase = "fill" => tx'.todo \cap tx'.buys = {}
    /\ \/ /\ tx'.phase \in {"fill", "buy"} /\ Onward(tx, tx', tx'.phase)
          /\ Todo' = Todo /\ orders' = orders /\ Still
       \/ /\ Onward(tx, tx', tx.phase)
          /\ \E i \in Todo : Todo' = Todo \ {i} /\ (Leaves(i) \/ Rejects(i) \/ Fills(i))

Marks ==
    /\ tx.phase = "buy" /\ Todo = {} /\ Onward(tx, tx', "generate")
    /\ equity' = equity \cup {tx.day} /\ fills' = fills /\ orders' = orders /\ nextId' = nextId

Generates ==
    /\ tx.phase = "generate" /\ Onward(tx, tx', "generate") /\ Still
    /\ \E s \in Signals, st \in {"pending", "rejected"} :
          Adds(orders, orders', nextId, s, tx.day, st) /\ ~PendingLeg(s)
    /\ ~orders'[nextId].ticket
    /\ nextId' = nextId + 1

Commits ==
    tx.phase = "generate" /\ tx' = Idle /\ orders' = orders /\ Still /\ nextId' = nextId

RollsBack ==
    /\ tx # Idle /\ tx' = Idle /\ nextId' \in {nextId, tx.id}
    /\ orders' = tx.saved.orders /\ fills' = tx.saved.fills /\ equity' = tx.saved.equity

InTx == latest' = latest /\ OpenShape(tx) /\ (Prepares \/ LooksUp \/ Handles \/ Marks
                                              \/ Generates \/ Commits \/ RollsBack)

LEMMA ShrinksSame ==
  ASSUME NEW os, \A i \in DOMAIN os : os[i] \in Order
  PROVE  Shrinks(os, os)
BY DEF Shrinks

LEMMA NewOrderAdds ==
  ASSUME NEW o \in Signals \cup Tickets, NEW sig \in 1 .. LastDay + 1,
         NEW st \in {"pending", "rejected"}, NEW why \in {"none", "quarantine"},
         NEW tk \in BOOLEAN
  PROVE  /\ Adds(orders, NewOrder(o, sig, st, why, tk), nextId, o, sig, st)
         /\ NewOrder(o, sig, st, why, tk)[nextId].ticket <=> tk
<1> DEFINE p == [ticker |-> o.ticker, side |-> o.side, qty |-> o.qty, sig |-> sig,
                 status |-> st, reason |-> why, ticket |-> tk]
           ot == NewOrder(o, sig, st, why, tk)
<1>1. o.ticker \in Tickers /\ o.side \in {"buy", "sell"} /\ o.qty \in Nat \ {0}
  BY LeagueAssumption
<1>2. p \in Order
  BY <1>1 DEF Order
<1>3. /\ p.ticker = o.ticker /\ p.side = o.side /\ p.sig = sig /\ p.status = st
      /\ p.ticket <=> tk
  OBVIOUS
<1>4. ot = [i \in DOMAIN orders \cup {nextId} |-> IF i = nextId THEN p ELSE orders[i]]
  BY DEF NewOrder
<1> HIDE DEF p, ot
<1>5. /\ DOMAIN ot = DOMAIN orders \cup {nextId} /\ ot[nextId] = p
      /\ \A i \in DOMAIN orders : i # nextId => ot[i] = orders[i]
  BY <1>4
<1>6. QED
  BY <1>2, <1>3, <1>5 DEF Adds, ot

LEMMA SettlementShrinks ==
  ASSUME NEW t, NEW term, NEW eff, NEW auto, ApplySettlement(t, term, eff, auto),
         \A i \in DOMAIN orders : orders[i] \in Order
  PROVE  Shrinks(orders, orders')
<1>1. orders' = [i \in DOMAIN orders |->
                    IF i \in PendingOrders /\ orders[i].ticker = t
                    THEN Marked(orders[i], "cancelled") ELSE orders[i]]
  BY DEF ApplySettlement
<1>2. DOMAIN orders' = DOMAIN orders
  BY <1>1
<1>3. ASSUME NEW i \in DOMAIN orders
      PROVE  \/ orders'[i] = orders[i]
             \/ /\ orders[i].status = "pending" /\ Kept(orders[i], orders'[i])
                /\ orders'[i].status \in {"cancelled", "rejected"}
  <2>1. CASE i \in PendingOrders /\ orders[i].ticker = t
    <3>1. orders'[i] = Marked(orders[i], "cancelled")
      BY <1>1, <2>1
    <3>2. Kept(orders[i], Marked(orders[i], "cancelled"))
          /\ Marked(orders[i], "cancelled").status = "cancelled"
      BY OrderKept
    <3>3. QED
      BY <2>1, <3>1, <3>2 DEF PendingOrders
  <2>2. CASE ~ (i \in PendingOrders /\ orders[i].ticker = t)
    BY <1>1, <2>2
  <2>3. QED
    BY <2>1, <2>2
<1>4. QED
  BY <1>2, <1>3 DEF Shrinks

\* What TxFormed says of the phases.
LEMMA TxPhases ==
  ASSUME Shapes
  PROVE  /\ tx.phase = "idle" <=> tx = Idle
         /\ tx # Idle =>
              /\ OpenShape(tx) /\ tx.day \in 1 .. latest /\ tx.day \in Nat
              /\ tx.phase \in {"dividends", "closeout", "fill", "buy", "generate"}
         /\ latest \in Nat /\ latest \in 0 .. LastDay /\ LastDay \in Nat
         /\ nextId \in Nat /\ DOMAIN orders \subseteq 1 .. nextId - 1
         /\ \A i \in DOMAIN orders : orders[i] \in Order /\ orders[i].sig \in Nat
         /\ equity \subseteq 1 .. latest
<1>1. latest \in 0 .. LastDay /\ LastDay \in Nat /\ latest \in Nat
  BY LeagueAssumption DEF Shapes
<1>2. /\ nextId \in Nat /\ DOMAIN orders \subseteq 1 .. nextId - 1
      /\ \A i \in DOMAIN orders : orders[i] \in Order
      /\ equity \subseteq 1 .. latest
  BY DEF Shapes, Formed
<1>3. \A i \in DOMAIN orders : orders[i].sig \in Nat
  BY <1>2, OrderFields
<1>4. Idle.phase = "idle"
  BY DEF Idle
<1>5. tx # Idle =>
        /\ OpenShape(tx) /\ tx.day \in 1 .. latest
        /\ tx.phase \in {"dividends", "closeout", "fill", "buy", "generate"}
  BY DEF Shapes, TxFormed
<1>6. tx.phase = "idle" <=> tx = Idle
  BY <1>4, <1>5
<1>7. tx # Idle => tx.day \in Nat
  BY <1>1, <1>5
<1>8. QED
  BY <1>1, <1>2, <1>3, <1>5, <1>6, <1>7

LEMMA OutsideSteps ==
  ASSUME Shapes, TodoDue,
         \/ Collect
         \/ \E x \in LateBars : LateBar(x)
         \/ \E x \in Dividends : Publish(x)
         \/ \E t \in Dropped : Drop(t)
         \/ \E t \in Quarantinable : Quarantine(t)
         \/ \E o \in Tickets, sig \in 1 .. LastDay + 1 : SubmitTicket(o, sig)
         \/ \E i \in DOMAIN orders : CancelTicket(i)
         \/ \E t \in Tickers, x \in Terms, e \in 1 .. LastDay + 1 : Settle(t, x, e)
  PROVE  Outside
<1>0. /\ tx.phase = "idle" <=> tx = Idle
      /\ latest \in Nat /\ latest \in 0 .. LastDay /\ LastDay \in Nat
      /\ \A i \in DOMAIN orders : orders[i] \in Order
      /\ Shrinks(orders, orders)
  BY TxPhases, ShrinksSame
<1>1. latest \in latest .. LastDay /\ (latest < LastDay => latest + 1 \in latest .. LastDay)
  BY <1>0
<1>2. CASE Collect
  BY <1>0, <1>1, <1>2 DEF Collect, Outside, Still, book
<1>3. CASE \E x \in LateBars : LateBar(x)
  BY <1>0, <1>1, <1>3 DEF LateBar, Outside, Still, book
<1>4. CASE \E x \in Dividends : Publish(x)
  BY <1>0, <1>1, <1>4 DEF Publish, Outside, Still, book
<1>5. CASE \E t \in Dropped : Drop(t)
  BY <1>0, <1>1, <1>5 DEF Drop, Outside, Still, book
<1>6. CASE \E t \in Quarantinable : Quarantine(t)
  BY <1>0, <1>1, <1>6 DEF Quarantine, Outside, Still, book
<1>7. ASSUME NEW o \in Tickets, NEW sig \in 1 .. LastDay + 1, SubmitTicket(o, sig)
      PROVE  Outside
  <2>1. sig \in latest .. LastDay + 1
    BY <1>0, <1>7 DEF SubmitTicket
  <2>2. orders' = NewOrder(o, sig, "pending", "none", TRUE)
    BY <1>7 DEF SubmitTicket
  <2>3. Adds(orders, orders', nextId, o, sig, "pending") /\ orders'[nextId].ticket
    BY <2>2, NewOrderAdds
  <2>4. /\ tx = Idle /\ tx' = tx /\ latest' = latest /\ Still /\ nextId' = nextId + 1
    BY <1>0, <1>7 DEF SubmitTicket, market, Still, TakeId
  <2>5. QED
    BY <1>1, <2>1, <2>3, <2>4 DEF Outside
<1>8. ASSUME NEW i \in DOMAIN orders, CancelTicket(i) PROVE Outside
  <2>1. Restated(orders, orders', i, "cancelled") /\ orders[i].status = "pending"
    BY <1>0, <1>8, StatusMeans DEF CancelTicket, PendingOrders
  <2>2. Shrinks(orders, orders')
    BY <2>1 DEF Restated, Shrinks
  <2>3. QED
    BY <1>0, <1>1, <1>8, <2>2 DEF CancelTicket, market, Still, Outside
<1>9. ASSUME NEW t \in Tickers, NEW x \in Terms, NEW e \in 1 .. LastDay + 1, Settle(t, x, e)
      PROVE  Outside
  <2>1. Shrinks(orders, orders')
    BY <1>0, <1>9, SettlementShrinks DEF Settle
  <2>2. QED
    BY <1>0, <1>1, <1>9, <2>1 DEF Settle, Still, Outside
<1>10. QED
  BY <1>2, <1>3, <1>4, <1>5, <1>6, <1>7, <1>8, <1>9

\* What a transaction starts with.
LEMMA OpenTxMeans ==
  ASSUME NEW d, NEW re
  PROVE  LET x == OpenTx(d, re) IN
         /\ OpenShape(x) /\ x.phase = "dividends" /\ x.buys = {} /\ x.day = d /\ x.id = nextId
         /\ x.saved.orders = orders /\ x.saved.fills = fills /\ x.saved.equity = equity
<1> DEFINE x == OpenTx(d, re)
<1>1. /\ OpenShape(x) /\ x.phase = "dividends" /\ x.buys = {} /\ x.day = d /\ x.id = nextId
      /\ x.saved = Book
  BY DEF OpenTx, OpenShape
<1>2. Book.orders = orders /\ Book.fills = fills /\ Book.equity = equity
  BY DEF Book
<1>3. QED
  BY <1>1, <1>2

LEMMA OpeningSteps ==
  ASSUME Shapes, NEW d \in Days, BeginNightly(d) \/ BeginManual(d) \/ BeginRerun(d)
  PROVE  Opens
<1>0. /\ tx.phase = "idle" <=> tx = Idle
      /\ latest \in Nat /\ equity \subseteq 1 .. latest
  BY TxPhases
<1>1. /\ LastStep \in Nat
      /\ equity = {} => LastStep = 0
      /\ \A e \in equity : e <= LastStep
  BY <1>0, LastStepMeans
<1>2. ASSUME NEW re, tx' = OpenTx(d, re)
      PROVE  /\ OpenShape(tx') /\ tx'.phase = "dividends" /\ tx'.buys = {} /\ tx'.day = d
             /\ tx'.saved.orders = orders /\ tx'.saved.fills = fills
             /\ tx'.saved.equity = equity /\ tx'.id = nextId
  BY <1>2, OpenTxMeans
<1>3. \A e \in equity : e \in Nat
  BY <1>0
<1>4. CASE BeginNightly(d)
  <2>1. tx' = OpenTx(d, FALSE) /\ tx = Idle /\ d \in 1 .. latest /\ d \notin equity
    BY <1>0, <1>4 DEF BeginNightly, Open
  <2>2. \A e \in equity : e < d
    BY <1>1, <1>3, <1>4 DEF BeginNightly
  <2>3. orders' = orders /\ Still /\ nextId' = nextId /\ latest' = latest
    BY <1>4 DEF BeginNightly, book, market, Still
  <2>4. QED
    BY <1>2, <2>1, <2>2, <2>3 DEF Opens
<1>5. CASE BeginManual(d)
  <2>1. tx' = OpenTx(d, FALSE) /\ tx = Idle /\ d \in 1 .. latest /\ d \notin equity
    BY <1>0, <1>5 DEF BeginManual, Open
  <2>2. Backdated \/ \A e \in equity : e < d
    <3>1. CASE Backdated
      BY <3>1
    <3>2. CASE d > LastStep
      BY <1>0, <1>1, <1>3, <2>1, <3>2
    <3>3. QED
      BY <1>5, <3>1, <3>2 DEF BeginManual
  <2>3. orders' = orders /\ Still /\ nextId' = nextId /\ latest' = latest
    BY <1>5 DEF BeginManual, book, market, Still
  <2>4. QED
    BY <1>2, <2>1, <2>2, <2>3 DEF Opens
<1>6. CASE BeginRerun(d)
  <2>1. /\ tx' = OpenTx(d, TRUE) /\ tx = Idle /\ d \in equity /\ d = LastStep
        /\ equity' = equity \ {d} /\ fills' = {f \in fills : f.day # d}
        /\ orders' = Cleared(d, fills')
        /\ nextId' = nextId /\ latest' = latest
    BY <1>0, <1>6 DEF BeginRerun, market
  <2>2. d \in 1 .. latest
    BY <1>0, <2>1
  <2>3. QED
    BY <1>1, <1>2, <2>1, <2>2 DEF Opens
<1>7. QED
  BY <1>4, <1>5, <1>6

\* Dividends, close-outs and the look at the pending orders.
LEMMA PreparingSteps ==
  ASSUME Shapes, CreditDividends \/ (\E t \in Tickers : CloseOut(t)) \/ CloseOutDone
  PROVE  InTx
<1>0. /\ tx.phase # "idle" => OpenShape(tx)
      /\ \A i \in DOMAIN orders : orders[i] \in Order
      /\ Shrinks(orders, orders)
  BY TxPhases, ShrinksSame
<1>1. CASE CreditDividends
  <2>1. tx.phase = "dividends" /\ tx' = [tx EXCEPT !.phase = "closeout"]
    BY <1>1 DEF CreditDividends, Phase, Enter
  <2>2. OpenShape(tx)
    BY <1>0, <2>1
  <2>3. Onward(tx, tx', "closeout") /\ tx'.buys = tx.buys
    BY <2>1, <2>2 DEF OpenShape, Onward
  <2>4. orders' = orders /\ Still /\ nextId' = nextId /\ latest' = latest
    BY <1>1 DEF CreditDividends, Still, market
  <2>5. QED
    BY <1>0, <2>1, <2>2, <2>3, <2>4 DEF InTx, Prepares
<1>2. ASSUME NEW t \in Tickers, CloseOut(t) PROVE InTx
  <2>1. tx.phase = "closeout" /\ tx' = tx
    BY <1>2 DEF CloseOut, Phase
  <2>2. Shrinks(orders, orders')
    BY <1>0, <1>2, SettlementShrinks DEF CloseOut
  <2>3. Still /\ nextId' = nextId /\ latest' = latest
    BY <1>2 DEF CloseOut, Still, market
  <2>4. OpenShape(tx) /\ Onward(tx, tx', "closeout")
    BY <1>0, <2>1 DEF Onward
  <2>5. QED
    BY <2>1, <2>2, <2>3, <2>4 DEF InTx, Prepares
<1>3. CASE CloseOutDone
  <2> DEFINE S == {i \in PendingOrders : Due(i, tx.day)}
  <2>1. tx.phase = "closeout" /\ tx' = [tx EXCEPT !.phase = "fill", !.todo = S]
    BY <1>3 DEF CloseOutDone, Phase
  <2>2. OpenShape(tx)
    BY <1>0, <2>1
  <2> HIDE DEF S
  <2>3. Onward(tx, tx', "fill") /\ tx'.todo = S /\ tx'.buys = tx.buys
    BY <2>1, <2>2 DEF OpenShape, Onward
  <2>4. orders' = orders /\ Still /\ nextId' = nextId /\ latest' = latest
    BY <1>3 DEF CloseOutDone, Still, market, book
  <2>5. QED
    BY <2>1, <2>2, <2>3, <2>4 DEF InTx, LooksUp, S
<1>4. QED
  BY <1>1, <1>2, <1>3

\* attempt_fill() leaves an order pending only while it may wait.
LEMMA AttemptMeans ==
  ASSUME NEW o, NEW q, NEW d \in Nat, o.sig \in Nat
  PROVE  /\ AttemptFill(o, q, d) \in {"no_bar", "pending", "illiquid", "filled"}
         /\ AttemptFill(o, q, d) = "pending" => d - o.sig < PENDING_MAX_DAYS
<1>1. CASE ~Traded(o.ticker, d)
  <2>1. AttemptFill(o, q, d) = IF d - o.sig >= PENDING_MAX_DAYS THEN "no_bar" ELSE "pending"
    BY <1>1 DEF AttemptFill
  <2>2. PENDING_MAX_DAYS \in Nat
    BY LeagueAssumption
  <2>3. QED
    BY <2>1, <2>2
<1>2. CASE Traded(o.ticker, d)
  BY <1>2 DEF AttemptFill
<1>3. QED
  BY <1>1, <1>2

LEMMA SellSteps ==
  ASSUME Shapes, TodoDue, NEW i \in DOMAIN orders, FillSell(i)
  PROVE  InTx
<1>0. /\ tx.phase # "idle" => OpenShape(tx) /\ tx.day \in Nat
      /\ \A j \in DOMAIN orders : orders[j] \in Order /\ orders[j].sig \in Nat
      /\ nextId \in Nat /\ DOMAIN orders \subseteq 1 .. nextId - 1
  BY TxPhases
<1> DEFINE qty == SellQty(i)
           outcome == IF qty <= 0 THEN "no_position" ELSE AttemptFill(orders[i], qty, tx.day)
           px == SellPx(bars[tx.day][orders[i].ticker])
<1>1. /\ tx.phase = "fill" /\ TodoSells # {} /\ i = Min(TodoSells)
      /\ tx' = Done(i)
      /\ equity' = equity /\ nextId' = nextId /\ latest' = latest
  BY DEF FillSell, Phase, market
<1>2. \/ /\ outcome = "filled" /\ fills' = fills \cup {FillRow(i, qty, px)}
         /\ orders' = Status(i, "filled", "none")
      \/ /\ outcome # "filled"
         /\ orders' = IF outcome = "pending" THEN orders ELSE Status(i, "rejected", outcome)
         /\ fills' = fills
  BY DEF FillSell
<1>3. OpenShape(tx) /\ tx.day \in Nat
  BY <1>0, <1>1
<1>4. /\ outcome \in {"no_position", "no_bar", "pending", "illiquid", "filled"}
      /\ outcome = "pending" => tx.day - orders[i].sig < PENDING_MAX_DAYS
  <2>1. CASE qty <= 0
    BY <2>1
  <2>2. CASE ~ (qty <= 0)
    BY <1>0, <1>3, <2>2, AttemptMeans
  <2>3. QED
    BY <2>1, <2>2
<1>5. i \in tx.todo /\ i \in Todo /\ i \notin tx.buys
  <2>1. TodoSells \subseteq DOMAIN orders
    BY <1>1 DEF TodoSells, TodoDue, Todo, Pending
  <2>2. TodoSells \in SUBSET Nat
    BY <1>0, <2>1
  <2>3. i \in TodoSells
    BY <1>1, <2>2, MinIn
  <2>4. QED
    BY <1>1, <2>3 DEF TodoSells, TodoDue, Todo
<1>6. Onward(tx, tx', "fill") /\ tx'.todo = tx.todo \ {i} /\ tx'.buys = tx.buys
  BY <1>1, <1>3 DEF Done, OpenShape, Onward
<1>7. Todo' = Todo \ {i} /\ tx'.todo \cap tx'.buys = {}
  BY <1>1, <1>5, <1>6 DEF Todo, Onward, TodoDue
<1>8. FillRow(i, qty, px).order = i /\ FillRow(i, qty, px).day = tx.day
  BY DEF FillRow
<1> HIDE DEF qty, px, outcome
<1>9. Leaves(i) \/ Rejects(i) \/ Fills(i)
  <2>1. CASE outcome = "filled"
    <3>1. Restated(orders, orders', i, "filled")
      BY <1>0, <1>2, <2>1, StatusMeans
    <3>2. QED
      BY <1>1, <1>2, <1>8, <2>1, <3>1 DEF Fills
  <2>2. CASE outcome = "pending"
    BY <1>1, <1>2, <1>4, <2>2 DEF Leaves, Still
  <2>3. CASE outcome \in {"no_position", "no_bar", "illiquid"}
    <3>1. Restated(orders, orders', i, "rejected")
      BY <1>0, <1>2, <2>3, StatusMeans
    <3>2. QED
      BY <1>1, <1>2, <2>3, <3>1 DEF Rejects, Still
  <2>4. QED
    BY <1>4, <2>1, <2>2, <2>3
<1>10. QED
  BY <1>1, <1>3, <1>5, <1>6, <1>7, <1>9 DEF InTx, Handles

LEMMA AttemptBuySteps ==
  ASSUME Shapes, TodoDue, NEW i \in DOMAIN orders, AttemptBuy(i)
  PROVE  InTx
<1>0. /\ tx.phase # "idle" => OpenShape(tx) /\ tx.day \in Nat
      /\ \A j \in DOMAIN orders : orders[j] \in Order /\ orders[j].sig \in Nat
      /\ nextId \in Nat /\ DOMAIN orders \subseteq 1 .. nextId - 1
  BY TxPhases
<1> DEFINE outcome == IF orders[i].ticker \in quarantined THEN "quarantine"
                      ELSE AttemptFill(orders[i], orders[i].qty, tx.day)
<1>1. /\ tx.phase = "fill" /\ tx.todo # {} /\ i = Min(tx.todo)
      /\ tx' = IF outcome = "filled" THEN [Done(i) EXCEPT !.buys = @ \cup {i}] ELSE Done(i)
      /\ orders' = IF outcome \in {"filled", "pending"} THEN orders
                   ELSE Status(i, "rejected", outcome)
      /\ Still /\ nextId' = nextId /\ latest' = latest
  BY DEF AttemptBuy, Phase, market, Still
<1>2. OpenShape(tx) /\ tx.day \in Nat
  BY <1>0, <1>1
<1>3. /\ outcome \in {"quarantine", "no_bar", "pending", "illiquid", "filled"}
      /\ outcome = "pending" => tx.day - orders[i].sig < PENDING_MAX_DAYS
  <2>1. CASE orders[i].ticker \in quarantined
    BY <2>1
  <2>2. CASE orders[i].ticker \notin quarantined
    BY <1>0, <1>2, <2>2, AttemptMeans
  <2>3. QED
    BY <2>1, <2>2
<1> HIDE DEF outcome
<1>4. i \in tx.todo /\ i \in Todo /\ i \notin tx.buys
  <2>1. tx.todo \subseteq DOMAIN orders
    BY <1>1 DEF TodoDue, Todo, Pending
  <2>2. tx.todo \in SUBSET Nat
    BY <1>0, <2>1
  <2>3. i \in tx.todo
    BY <1>1, <2>2, MinIn
  <2>4. QED
    BY <1>1, <2>3 DEF TodoDue, Todo
<1>5. LET y == Done(i) IN
        Onward(tx, y, "fill") /\ y.todo = tx.todo \ {i} /\ y.buys = tx.buys
  BY <1>1, <1>2 DEF Done, OpenShape, Onward
<1>6. CASE outcome = "filled"
  <2> DEFINE y == Done(i)
  <2>1. tx' = [y EXCEPT !.buys = y.buys \cup {i}]
    BY <1>1, <1>6
  <2>2. Onward(tx, y, "fill") /\ y.todo = tx.todo \ {i} /\ y.buys = tx.buys
    BY <1>5
  <2> HIDE DEF y
  <2>3. Onward(tx, tx', "fill") /\ tx'.todo = tx.todo \ {i} /\ tx'.buys = tx.buys \cup {i}
    BY <2>1, <2>2 DEF OpenShape, Onward
  <2>4. Todo' = Todo /\ tx'.todo \cap tx'.buys = {}
    BY <1>1, <1>4, <2>3 DEF Todo, Onward, TodoDue
  <2>5. orders' = orders /\ tx'.phase = "fill"
    BY <1>1, <1>6, <2>3 DEF Onward
  <2>6. QED
    BY <1>1, <1>2, <2>3, <2>4, <2>5 DEF InTx, Handles
<1>7. CASE outcome # "filled"
  <2>1. Onward(tx, tx', "fill") /\ tx'.todo = tx.todo \ {i} /\ tx'.buys = tx.buys
    BY <1>1, <1>5, <1>7
  <2>2. Todo' = Todo \ {i} /\ tx'.todo \cap tx'.buys = {}
    BY <1>1, <1>4, <2>1 DEF Todo, Onward, TodoDue
  <2>3. Leaves(i) \/ Rejects(i)
    <3>1. CASE outcome = "pending"
      BY <1>1, <1>3, <3>1 DEF Leaves
    <3>2. CASE outcome \in {"quarantine", "no_bar", "illiquid"}
      <4>1. Restated(orders, orders', i, "rejected")
        BY <1>0, <1>1, <3>2, StatusMeans
      <4>2. QED
        BY <1>1, <4>1 DEF Rejects
    <3>3. QED
      BY <1>3, <1>7, <3>1, <3>2
  <2>4. QED
    BY <1>1, <1>2, <1>4, <2>1, <2>2, <2>3 DEF InTx, Handles
<1>8. QED
  BY <1>6, <1>7

LEMMA BuySteps ==
  ASSUME Shapes, TodoDue, SizeBuys \/ \E i \in DOMAIN orders : FillBuy(i)
  PROVE  InTx
<1>0. /\ tx.phase # "idle" => OpenShape(tx) /\ tx.day \in Nat
      /\ \A j \in DOMAIN orders : orders[j] \in Order /\ orders[j].sig \in Nat
      /\ nextId \in Nat /\ DOMAIN orders \subseteq 1 .. nextId - 1
  BY TxPhases
<1>1. CASE SizeBuys
  <2> DEFINE c == Sum(tx.buys, Cost)
  <2>1. /\ tx.phase = "fill" /\ tx.todo = {}
        /\ tx' = [tx EXCEPT !.phase = "buy", !.budget = cash, !.wanted = c]
        /\ orders' = orders /\ Still /\ nextId' = nextId /\ latest' = latest
    BY <1>1 DEF SizeBuys, Phase, Still, market, book
  <2> HIDE DEF c
  <2>2. OpenShape(tx)
    BY <1>0, <2>1
  <2>3. Onward(tx, tx', "buy") /\ tx'.buys = tx.buys
    BY <2>1, <2>2 DEF OpenShape, Onward
  <2>4. Todo' = Todo /\ tx'.phase = "buy"
    BY <2>1, <2>3 DEF Todo, Onward
  <2>5. QED
    BY <2>1, <2>2, <2>3, <2>4 DEF InTx, Handles
<1>2. ASSUME NEW i \in DOMAIN orders, FillBuy(i) PROVE InTx
  <2> DEFINE px == BuyPx(bars[tx.day][orders[i].ticker])
             qty == Min({Scaled(orders[i].qty), cash \div px})
  <2>1. /\ tx.phase = "buy" /\ tx.buys # {} /\ i = Min(tx.buys)
        /\ tx' = [tx EXCEPT !.buys = @ \ {i}]
        /\ equity' = equity /\ nextId' = nextId /\ latest' = latest
    BY <1>2 DEF FillBuy, Phase, market
  <2>2. \/ orders' = Status(i, "rejected", "insufficient_cash") /\ fills' = fills
        \/ orders' = Status(i, "filled", "none") /\ fills' = fills \cup {FillRow(i, qty, px)}
    BY <1>2 DEF FillBuy
  <2>3. OpenShape(tx) /\ tx.day \in Nat
    BY <1>0, <2>1
  <2>4. i \in tx.buys /\ Todo = tx.buys
    <3>1. tx.buys \subseteq DOMAIN orders
      BY <2>1 DEF TodoDue, Todo, Pending
    <3>2. tx.buys \in SUBSET Nat
      BY <1>0, <3>1
    <3>3. QED
      BY <2>1, <3>2, MinIn DEF Todo
  <2>5. Onward(tx, tx', "buy") /\ tx'.buys = tx.buys \ {i}
    BY <2>1, <2>3 DEF OpenShape, Onward
  <2>6. Todo' = Todo \ {i} /\ tx'.phase = "buy"
    BY <2>4, <2>5 DEF Todo, Onward
  <2>7. FillRow(i, qty, px).order = i /\ FillRow(i, qty, px).day = tx.day
    BY DEF FillRow
  <2> HIDE DEF px, qty
  <2>8. Rejects(i) \/ Fills(i)
    <3>1. CASE orders' = Status(i, "rejected", "insufficient_cash") /\ fills' = fills
      <4>1. Restated(orders, orders', i, "rejected")
        BY <1>0, <3>1, StatusMeans
      <4>2. QED
        BY <2>1, <3>1, <4>1 DEF Rejects, Still
    <3>2. CASE orders' = Status(i, "filled", "none") /\ fills' = fills \cup {FillRow(i, qty, px)}
      <4>1. Restated(orders, orders', i, "filled")
        BY <1>0, <3>2, StatusMeans
      <4>2. QED
        BY <2>1, <2>7, <3>2, <4>1 DEF Fills
    <3>3. QED
      BY <2>2, <3>1, <3>2
  <2>9. QED
    BY <2>1, <2>3, <2>4, <2>5, <2>6, <2>8 DEF InTx, Handles
<1>3. QED
  BY <1>1, <1>2

LEMMA EndingSteps ==
  ASSUME Shapes, MarkToMarket \/ (\E s \in Signals : GenerateOrder(s)) \/ Commit \/ Rollback
  PROVE  InTx
<1>0. /\ tx.phase # "idle" => OpenShape(tx) /\ tx.day \in 1 .. latest
      /\ latest \in 0 .. LastDay /\ LastDay \in Nat
      /\ tx.phase = "idle" <=> tx = Idle
  BY TxPhases
<1>1. CASE MarkToMarket
  <2>1. /\ tx.phase = "buy" /\ tx.buys = {} /\ tx' = [tx EXCEPT !.phase = "generate"]
        /\ equity' = equity \cup {tx.day}
        /\ orders' = orders /\ fills' = fills /\ nextId' = nextId /\ latest' = latest
    BY <1>1 DEF MarkToMarket, Phase, Enter, market
  <2>2. OpenShape(tx) /\ Onward(tx, tx', "generate")
    BY <1>0, <2>1 DEF OpenShape, Onward
  <2>3. QED
    BY <2>1, <2>2 DEF InTx, Marks, Todo
<1>2. ASSUME NEW s \in Signals, GenerateOrder(s) PROVE InTx
  <2> DEFINE R == tx.signalled \cup {s}
  <2>1. /\ tx.phase = "generate" /\ tx' = [tx EXCEPT !.signalled = R] /\ ~PendingLeg(s)
        /\ nextId' = nextId + 1 /\ Still /\ latest' = latest
    BY <1>2 DEF GenerateOrder, Phase, TakeId, Still, market
  <2> HIDE DEF R
  <2>2. OpenShape(tx) /\ Onward(tx, tx', "generate")
    BY <1>0, <2>1 DEF OpenShape, Onward
  <2>3. tx.day \in 1 .. LastDay + 1
    BY <1>0, <2>1
  <2>4. PICK st \in {"pending", "rejected"}, why \in {"none", "quarantine"} :
          orders' = NewOrder(s, tx.day, st, why, FALSE)
    BY <1>2 DEF GenerateOrder
  <2>5. Adds(orders, orders', nextId, s, tx.day, st) /\ ~orders'[nextId].ticket
    BY <2>3, <2>4, NewOrderAdds
  <2>6. QED
    BY <2>1, <2>2, <2>5 DEF InTx, Generates
<1>3. CASE Commit
  BY <1>0, <1>3 DEF Commit, Phase, book, Still, InTx, Commits
<1>4. CASE Rollback
  BY <1>0, <1>4 DEF Rollback, Phase, market, InTx, RollsBack
<1>5. QED
  BY <1>1, <1>2, <1>3, <1>4

\* Every step is one of these.
LEMMA LeagueSteps ==
  ASSUME Shapes, TodoDue, [Next]_vars
  PROVE  \/ Outside \/ Opens \/ InTx
         \/ UNCHANGED <<latest, orders, fills, equity, nextId, tx>>
<1>1. CASE Next
  BY <1>1, OutsideSteps, OpeningSteps, PreparingSteps, SellSteps, AttemptBuySteps, BuySteps,
     EndingSteps DEF Next
<1>2. CASE UNCHANGED vars
  BY <1>2 DEF vars, market, book
<1>3. QED
  BY <1>1, <1>2

-----------------------------------------------------------------------------
(* Matched orders and fills, through the kinds of change an order table    *)
(* sees.                                                                   *)

LEMMA MatchedShrinks ==
  ASSUME NEW os, NEW ot, NEW fs, NEW days, Matched(os, fs, days), Shrinks(os, ot)
  PROVE  Matched(ot, fs, days)
<1>1. ASSUME NEW i \in DOMAIN ot, ot[i].status = "filled" PROVE \E f \in fs : f.order = i
  <2>1. i \in DOMAIN os /\ ot[i] = os[i]
    BY <1>1 DEF Shrinks
  <2>2. QED
    BY <1>1, <2>1 DEF Matched
<1>2. ASSUME NEW f \in fs
      PROVE  /\ f.order \in DOMAIN ot /\ ot[f.order].status = "filled"
             /\ f.day \in days /\ f.day > ot[f.order].sig
  <2>1. /\ f.order \in DOMAIN os /\ os[f.order].status = "filled"
        /\ f.day \in days /\ f.day > os[f.order].sig
    BY DEF Matched
  <2>2. f.order \in DOMAIN ot /\ ot[f.order] = os[f.order]
    BY <2>1 DEF Shrinks
  <2>3. QED
    BY <2>1, <2>2
<1>3. QED
  BY <1>1, <1>2 DEF Matched

LEMMA RejectShrinks ==
  ASSUME NEW os, NEW ot, NEW i, os[i].status = "pending", Restated(os, ot, i, "rejected")
  PROVE  Shrinks(os, ot)
BY DEF Restated, Shrinks

LEMMA MatchedFills ==
  ASSUME NEW os, NEW ot, NEW fs, NEW days, Matched(os, fs, days),
         NEW i \in DOMAIN os, os[i].status = "pending", Restated(os, ot, i, "filled"),
         NEW f, f.order = i, f.day \in days, f.day > os[i].sig
  PROVE  Matched(ot, fs \cup {f}, days)
<1>0. /\ DOMAIN ot = DOMAIN os /\ \A j \in DOMAIN os : j # i => ot[j] = os[j]
      /\ ot[i].sig = os[i].sig /\ ot[i].status = "filled"
  BY DEF Restated, Kept
<1>1. \A g \in fs : g.order \in DOMAIN os /\ g.order # i
  BY DEF Matched
<1>2. \A j \in DOMAIN ot : ot[j].status = "filled" => \E g \in fs \cup {f} : g.order = j
  BY <1>0 DEF Matched
<1>3. \A g, h \in fs \cup {f} : g.order = h.order => g = h
  BY <1>1 DEF Matched
<1>4. ASSUME NEW g \in fs \cup {f}
      PROVE  /\ g.order \in DOMAIN ot /\ ot[g.order].status = "filled"
             /\ g.day \in days /\ g.day > ot[g.order].sig
  <2>1. CASE g = f
    BY <1>0, <2>1
  <2>2. CASE g \in fs
    BY <1>0, <1>1, <2>2 DEF Matched
  <2>3. QED
    BY <2>1, <2>2
<1>5. QED
  BY <1>2, <1>3, <1>4 DEF Matched

LEMMA MatchedAdds ==
  ASSUME NEW os, NEW ot, NEW fs, NEW days, Matched(os, fs, days),
         NEW n, n \notin DOMAIN os, NEW s, NEW sig, NEW st \in {"pending", "rejected"},
         Adds(os, ot, n, s, sig, st)
  PROVE  Matched(ot, fs, days)
<1>0. /\ DOMAIN ot = DOMAIN os \cup {n} /\ \A i \in DOMAIN os : ot[i] = os[i]
      /\ ot[n].status # "filled"
  BY DEF Adds
<1>1. \A i \in DOMAIN ot : ot[i].status = "filled" => \E f \in fs : f.order = i
  BY <1>0 DEF Matched
<1>2. \A f \in fs : /\ f.order \in DOMAIN ot /\ ot[f.order].status = "filled"
                    /\ f.day \in days /\ f.day > ot[f.order].sig
  BY <1>0 DEF Matched
<1>3. QED
  BY <1>1, <1>2 DEF Matched

LEMMA MatchedWider ==
  ASSUME NEW os, NEW fs, NEW days, NEW more, Matched(os, fs, days), days \subseteq more
  PROVE  Matched(os, fs, more)
BY DEF Matched

\* What a rerun leaves of the order table.
LEMMA ClearedMeans ==
  ASSUME NEW d, NEW fs, \A i \in DOMAIN orders : orders[i] \in Order
  PROVE  /\ DOMAIN Cleared(d, fs) \subseteq DOMAIN orders
         /\ \A i \in DOMAIN orders :
              i \in DOMAIN Cleared(d, fs) <=> orders[i].sig # d \/ orders[i].ticket
         /\ \A i \in DOMAIN Cleared(d, fs) :
              /\ Kept(orders[i], Cleared(d, fs)[i])
              /\ orders[i].status = "filled" /\ ~ (\E f \in fs : f.order = i) =>
                   Cleared(d, fs)[i].status = "pending"
              /\ ~ (orders[i].status = "filled" /\ ~ (\E f \in fs : f.order = i)) =>
                   Cleared(d, fs)[i].status = orders[i].status
<1> DEFINE D == {j \in DOMAIN orders : orders[j].sig # d \/ orders[j].ticket}
           ot == Cleared(d, fs)
<1>1. ot = [i \in D |-> IF orders[i].status = "filled" /\ ~ \E f \in fs : f.order = i
                        THEN Marked(orders[i], "pending") ELSE orders[i]]
  BY DEF Cleared
<1>2. DOMAIN ot = D
  BY <1>1
<1>3. ASSUME NEW i \in D
      PROVE  /\ Kept(orders[i], ot[i])
             /\ orders[i].status = "filled" /\ ~ (\E f \in fs : f.order = i) =>
                  ot[i].status = "pending"
             /\ ~ (orders[i].status = "filled" /\ ~ (\E f \in fs : f.order = i)) =>
                  ot[i].status = orders[i].status
  <2>1. CASE orders[i].status = "filled" /\ ~ (\E f \in fs : f.order = i)
    <3>1. ot[i] = Marked(orders[i], "pending")
      BY <1>1, <2>1
    <3>2. QED
      BY <2>1, <3>1, OrderKept
  <2>2. CASE ~ (orders[i].status = "filled" /\ ~ (\E f \in fs : f.order = i))
    <3>1. ot[i] = orders[i]
      BY <1>1, <2>2
    <3>2. QED
      BY <2>2, <3>1 DEF Kept
  <2>3. QED
    BY <2>1, <2>2
<1> HIDE DEF ot
<1>4. QED
  BY <1>2, <1>3 DEF ot

LEMMA MatchedCleared ==
  ASSUME \A i \in DOMAIN orders : orders[i] \in Order /\ orders[i].sig \in Nat,
         Matched(orders, fills, equity), NEW d \in equity,
         \A e \in equity : e \in Nat /\ e <= d
  PROVE  LET fs == {f \in fills : f.day # d} IN
         Matched(Cleared(d, fs), fs, equity \ {d})
<1> DEFINE fs == {f \in fills : f.day # d}
           ot == Cleared(d, fs)
<1>1. /\ DOMAIN ot \subseteq DOMAIN orders
      /\ \A i \in DOMAIN orders : i \in DOMAIN ot <=> orders[i].sig # d \/ orders[i].ticket
      /\ \A i \in DOMAIN ot :
           /\ Kept(orders[i], ot[i])
           /\ orders[i].status = "filled" /\ ~ (\E f \in fs : f.order = i) =>
                ot[i].status = "pending"
           /\ ~ (orders[i].status = "filled" /\ ~ (\E f \in fs : f.order = i)) =>
                ot[i].status = orders[i].status
  BY ClearedMeans
<1> HIDE DEF ot
<1>2. ASSUME NEW i \in DOMAIN ot, ot[i].status = "filled" PROVE \E f \in fs : f.order = i
  BY <1>1, <1>2
<1>3. ASSUME NEW f \in fs
      PROVE  /\ f.order \in DOMAIN ot /\ ot[f.order].status = "filled"
             /\ f.day \in equity \ {d} /\ f.day > ot[f.order].sig
  <2>1. /\ f.order \in DOMAIN orders /\ orders[f.order].status = "filled"
        /\ f.day \in equity /\ f.day > orders[f.order].sig /\ f.day # d
    BY DEF Matched
  <2>2. orders[f.order].sig # d
    <3>1. f.day \in Nat /\ d \in Nat /\ f.day <= d /\ orders[f.order].sig \in Nat
      BY <2>1
    <3>2. QED
      BY <2>1, <3>1
  <2>3. f.order \in DOMAIN ot
    BY <1>1, <2>1, <2>2
  <2>4. ot[f.order].status = "filled" /\ ot[f.order].sig = orders[f.order].sig
    BY <1>1, <2>1, <2>3 DEF Kept
  <2>5. QED
    BY <2>1, <2>3, <2>4
<1>4. \A f, g \in fs : f.order = g.order => f = g
  BY DEF Matched
<1>5. QED
  BY <1>2, <1>3, <1>4 DEF Matched, ot

-----------------------------------------------------------------------------
(* The books stay closed.                                                  *)

LEMMA LeagueInit == ASSUME Init PROVE BooksInv /\ WaitingInv
<1>1. orders = << >> /\ DOMAIN orders = {} /\ fills = {} /\ equity = {} /\ tx = Idle
  BY DEF Init
<1>2. latest = 0 /\ nextId = 1
  BY DEF Init
<1>3. Shapes
  BY <1>1, <1>2, LeagueAssumption DEF Shapes, Formed, TxFormed
<1>4. BookMatched
  BY <1>1 DEF BookMatched, Matched
<1>5. TodoDue
  BY <1>1 DEF TodoDue, Todo, Idle
<1>6. WaitingInv
  BY <1>1 DEF WaitingInv, Waiting, FreshIn, Pending
<1>7. QED
  BY <1>3, <1>4, <1>5, <1>6 DEF BooksInv

\* The tables stay well formed.
LEMMA FormedKept ==
  ASSUME NEW os, NEW ot, NEW eq, NEW n, Formed(os, eq, n)
  PROVE  /\ Shrinks(os, ot) => Formed(ot, eq, n)
         /\ \A i \in DOMAIN os : \A st : Restated(os, ot, i, st) => Formed(ot, eq, n)
         /\ \A s, sig, st : Adds(os, ot, n, s, sig, st) => Formed(ot, eq, n + 1)
<1>0. n \in Nat \ {0} /\ DOMAIN os \subseteq 1 .. n - 1 /\ \A i \in DOMAIN os : os[i] \in Order
  BY DEF Formed
<1>1. Shrinks(os, ot) => Formed(ot, eq, n)
  BY <1>0 DEF Formed, Shrinks, Kept
<1>2. \A i \in DOMAIN os : \A st : Restated(os, ot, i, st) => Formed(ot, eq, n)
  BY <1>0 DEF Formed, Restated, Kept
<1>3. ASSUME NEW s, NEW sig, NEW st, Adds(os, ot, n, s, sig, st)
      PROVE  Formed(ot, eq, n + 1)
  <2>1. n + 1 \in Nat /\ n + 1 - 1 = n /\ n \in 1 .. n /\ \A i \in 1 .. n - 1 : i \in 1 .. n
    BY <1>0, <1>3
  <2>2. DOMAIN ot \subseteq 1 .. n + 1 - 1
    BY <1>0, <1>3, <2>1 DEF Adds
  <2>3. \A i \in DOMAIN ot : ot[i] \in Order
    BY <1>0, <1>3 DEF Adds
  <2>4. QED
    BY <2>1, <2>2, <2>3 DEF Formed
<1>4. QED
  BY <1>1, <1>2, <1>3

LEMMA ShapesStep ==
  ASSUME Shapes, TodoDue, [Next]_vars
  PROVE  Shapes'
<1>0. /\ Formed(orders, equity, nextId) /\ TxFormed /\ latest \in 0 .. LastDay
      /\ latest \in Nat /\ LastDay \in Nat /\ nextId \in Nat \ {0}
      /\ \A i \in DOMAIN orders : orders[i] \in Order
      /\ equity \subseteq 1 .. latest /\ DOMAIN orders \subseteq 1 .. nextId - 1
  BY TxPhases DEF Shapes, Formed
<1>1. CASE Outside
  <2>1. /\ tx' = Idle /\ equity' = equity /\ latest' \in latest .. LastDay
        /\ equity \subseteq 1 .. latest' /\ latest' \in 0 .. LastDay
    BY <1>0, <1>1 DEF Outside, Still
  <2>2. Formed(orders', equity, nextId')
    <3>1. CASE Shrinks(orders, orders') /\ nextId' = nextId
      BY <1>0, <3>1, FormedKept
    <3>2. ASSUME NEW o \in Tickets, NEW sig, Adds(orders, orders', nextId, o, sig, "pending"),
                 nextId' = nextId + 1
          PROVE  Formed(orders', equity, nextId')
      BY <1>0, <3>2, FormedKept
    <3>3. QED
      BY <1>1, <3>1, <3>2 DEF Outside
  <2>3. Formed(orders, equity, nextId)'
    BY <2>1, <2>2 DEF Formed
  <2>4. QED
    BY <2>1, <2>3 DEF Shapes, TxFormed, Formed
<1>2. CASE Opens
  <2>1. /\ OpenShape(tx') /\ tx'.phase = "dividends" /\ tx'.day \in 1 .. latest
        /\ tx'.saved.orders = orders /\ tx'.saved.equity = equity
        /\ tx'.id = nextId /\ nextId' = nextId /\ latest' = latest
    BY <1>2 DEF Opens
  <2>2. equity' \subseteq equity
    BY <1>2 DEF Opens, Still
  <2>3. DOMAIN orders' \subseteq DOMAIN orders /\ \A i \in DOMAIN orders' : orders'[i] \in Order
    <3>1. CASE orders' = orders
      BY <1>0, <3>1
    <3>2. CASE orders' = Cleared(tx'.day, fills')
      BY <1>0, <3>2, ClearedMeans DEF Kept
    <3>3. QED
      BY <1>2, <3>1, <3>2 DEF Opens
  <2>4. TxFormed'
    BY <1>0, <2>1 DEF TxFormed, Formed
  <2>5. QED
    BY <1>0, <2>1, <2>2, <2>3, <2>4 DEF Shapes, Formed
<1>3. CASE InTx
  <2>0. latest' = latest
    BY <1>3 DEF InTx
  <2>1. CASE tx' = Idle /\ orders' = orders /\ equity' = equity /\ nextId' = nextId
    BY <1>0, <2>0, <2>1 DEF Shapes, TxFormed, Formed
  <2>2. CASE RollsBack
    <3>1. tx # Idle /\ tx' = Idle /\ nextId' \in {nextId, tx.id}
          /\ orders' = tx.saved.orders /\ equity' = tx.saved.equity
      BY <2>2 DEF RollsBack
    <3>2. Formed(tx.saved.orders, tx.saved.equity, tx.id) /\ tx.id <= nextId
      BY <1>0, <3>1 DEF TxFormed
    <3>3. tx.id \in Nat \ {0} /\ DOMAIN tx.saved.orders \subseteq 1 .. tx.id - 1
      BY <3>2 DEF Formed
    <3>4. DOMAIN tx.saved.orders \subseteq 1 .. nextId - 1
      <4>1. \A i \in 1 .. tx.id - 1 : i \in 1 .. nextId - 1
        BY <1>0, <3>2, <3>3
      <4>2. QED
        BY <3>3, <4>1
    <3>5. nextId' \in Nat \ {0} /\ DOMAIN orders' \subseteq 1 .. nextId' - 1
      BY <1>0, <3>1, <3>3, <3>4
    <3>6. (\A i \in DOMAIN orders' : orders'[i] \in Order) /\ equity' \subseteq 1 .. latest
      BY <3>1, <3>2 DEF Formed
    <3>7. QED
      BY <1>0, <2>0, <3>1, <3>5, <3>6 DEF Shapes, TxFormed, Formed
  <2>3. ASSUME tx # Idle, NEW p \in {"dividends", "closeout", "fill", "buy", "generate"},
               Onward(tx, tx', p), nextId' \in {nextId, nextId + 1},
               Formed(orders', equity', nextId')
        PROVE  Shapes'
    <3>1. /\ Formed(tx.saved.orders, tx.saved.equity, tx.id) /\ tx.id <= nextId
          /\ tx.day \in 1 .. latest
      BY <1>0, <2>3 DEF TxFormed
    <3>2. tx.id \in Nat
      BY <3>1 DEF Formed
    <3>3. tx.id <= nextId'
      BY <1>0, <2>3, <3>1, <3>2
    <3>4. TxFormed'
      BY <2>0, <2>3, <3>1, <3>3 DEF TxFormed, Formed, Onward
    <3>5. QED
      BY <1>0, <2>0, <2>3, <3>4 DEF Shapes, Formed
  <2>4. tx.phase # "idle" => tx # Idle
    BY DEF Idle
  <2>5. CASE Prepares
    <3>1. Formed(orders', equity', nextId')
      BY <1>0, <2>5, FormedKept DEF Prepares, Still
    <3>2. PICK p \in {"closeout"} : Onward(tx, tx', p)
      BY <2>5 DEF Prepares
    <3>3. QED
      BY <2>3, <2>4, <2>5, <3>1, <3>2 DEF Prepares, Still
  <2>6. CASE LooksUp
    <3>1. Formed(orders', equity', nextId')
      BY <1>0, <2>6 DEF LooksUp, Still
    <3>2. PICK p \in {"fill"} : Onward(tx, tx', p)
      BY <2>6 DEF LooksUp
    <3>3. QED
      BY <2>3, <2>4, <2>6, <3>1, <3>2 DEF LooksUp, Still
  <2>7. CASE Handles
    <3>1. Formed(orders', equity', nextId')
      <4>1. CASE orders' = orders /\ Still
        BY <1>0, <2>7, <4>1 DEF Handles, Still
      <4>2. ASSUME NEW i \in Todo, Rejects(i) \/ Fills(i)
            PROVE  Formed(orders', equity', nextId')
        <5>1. i \in DOMAIN orders
          BY DEF TodoDue, Pending
        <5>2. PICK st : Restated(orders, orders', i, st)
          BY <4>2 DEF Rejects, Fills
        <5>3. equity' = equity /\ nextId' = nextId
          BY <2>7, <4>2 DEF Rejects, Fills, Still, Handles
        <5>4. QED
          BY <1>0, <5>1, <5>2, <5>3, FormedKept
      <4>3. QED
        BY <2>7, <4>1, <4>2 DEF Handles, Leaves
    <3>2. PICK p \in {"fill", "buy"} : Onward(tx, tx', p)
      BY <2>7 DEF Handles
    <3>3. QED
      BY <2>3, <2>4, <2>7, <3>1, <3>2 DEF Handles
  <2>8. CASE Marks
    <3>1. tx.day \in 1 .. latest
      BY <1>0, <2>4, <2>8 DEF TxFormed, Marks
    <3>2. Formed(orders', equity', nextId')
      BY <1>0, <2>8, <3>1 DEF Marks, Formed
    <3>3. QED
      BY <2>3, <2>4, <2>8, <3>2 DEF Marks
  <2>9. CASE Generates
    <3>1. Formed(orders', equity', nextId')
      BY <1>0, <2>9, FormedKept DEF Generates, Still
    <3>2. QED
      BY <2>3, <2>4, <2>9, <3>1 DEF Generates
  <2>10. CASE Commits
    BY <2>1, <2>10 DEF Commits, Still
  <2>11. QED
    BY <1>3, <2>2, <2>5, <2>6, <2>7, <2>8, <2>9, <2>10 DEF InTx
<1>4. CASE UNCHANGED <<latest, orders, fills, equity, nextId, tx>>
  BY <1>4 DEF Shapes, TxFormed, Formed
<1>5. QED
  BY <1>1, <1>2, <1>3, <1>4, LeagueSteps

LEMMA TodoStep ==
  ASSUME Shapes, TodoDue, [Next]_vars
  PROVE  TodoDue'
<1>0. \A i \in DOMAIN orders : orders[i] \in Order
  BY TxPhases
<1>1. ASSUME tx' = Idle PROVE TodoDue'
  BY <1>1 DEF TodoDue, Todo, Idle
<1>2. CASE Outside
  BY <1>1, <1>2 DEF Outside
<1>3. CASE Opens
  BY <1>3 DEF Opens, TodoDue, Todo
<1>4. CASE InTx
  <2>1. CASE Prepares
    BY <2>1 DEF Prepares, Onward, TodoDue, Todo
  <2>2. CASE LooksUp
    <3>1. /\ tx'.phase = "fill" /\ tx'.day = tx.day /\ orders' = orders
          /\ tx'.todo = {i \in PendingOrders : Due(i, tx.day)} /\ tx'.buys = {}
      BY <2>2 DEF LooksUp, Onward, TodoDue
    <3>2. Todo' = {i \in PendingOrders : Due(i, tx.day)}
      BY <3>1 DEF Todo
    <3>3. \A i \in Todo' : i \in Pending(orders) /\ orders[i].sig < tx.day
      BY <3>2 DEF PendingOrders, Pending, Due
    <3>4. QED
      BY <3>1, <3>3 DEF TodoDue
  <2>3. CASE Handles
    <3>0. /\ tx'.phase \in {"fill", "buy"} /\ tx'.day = tx.day
          /\ tx'.phase = "fill" => tx'.todo \cap tx'.buys = {}
      BY <2>3 DEF Handles, Onward
    <3>1. \A j \in Todo' : j \in Pending(orders') /\ orders'[j].sig < tx.day
      <4>1. CASE orders' = orders /\ Todo' \subseteq Todo
        BY <4>1 DEF TodoDue
      <4>2. ASSUME NEW i \in Todo, Todo' = Todo \ {i}, Rejects(i) \/ Fills(i), NEW j \in Todo'
            PROVE  j \in Pending(orders') /\ orders'[j].sig < tx.day
        <5>1. j \in Todo /\ j # i /\ j \in Pending(orders) /\ orders[j].sig < tx.day
          BY <4>2 DEF TodoDue
        <5>2. DOMAIN orders' = DOMAIN orders /\ orders'[j] = orders[j]
          BY <4>2, <5>1 DEF Rejects, Fills, Restated, Pending
        <5>3. QED
          BY <5>1, <5>2 DEF Pending
      <4>3. QED
        BY <2>3, <4>1, <4>2 DEF Handles, Leaves
    <3>2. QED
      BY <3>0, <3>1 DEF TodoDue
  <2>4. CASE tx'.phase = "generate"
    BY <2>4 DEF TodoDue, Todo
  <2>5. QED
    BY <1>1, <1>4, <2>1, <2>2, <2>3, <2>4
       DEF InTx, Marks, Generates, Commits, RollsBack, Onward
<1>5. CASE UNCHANGED <<latest, orders, fills, equity, nextId, tx>>
  BY <1>5 DEF TodoDue, Todo, Pending
<1>6. QED
  BY <1>2, <1>3, <1>4, <1>5, LeagueSteps

LEMMA MatchedStep ==
  ASSUME Shapes, BookMatched, TodoDue, [Next]_vars
  PROVE  BookMatched'
<1>0. /\ \A i \in DOMAIN orders : orders[i] \in Order /\ orders[i].sig \in Nat
      /\ nextId \in Nat /\ DOMAIN orders \subseteq 1 .. nextId - 1
      /\ equity \subseteq 1 .. latest /\ latest \in Nat
      /\ nextId \notin DOMAIN orders
  BY TxPhases
<1>1. CASE Outside
  <2>1. Matched(orders, fills, equity) /\ tx' = Idle /\ fills' = fills /\ equity' = equity
    BY <1>1 DEF Outside, BookMatched, Still
  <2>2. Matched(orders', fills, equity)
    <3>1. CASE Shrinks(orders, orders')
      BY <2>1, <3>1, MatchedShrinks
    <3>2. ASSUME NEW o, NEW sig, Adds(orders, orders', nextId, o, sig, "pending")
          PROVE  Matched(orders', fills, equity)
      BY <1>0, <2>1, <3>2, MatchedAdds
    <3>3. QED
      BY <1>1, <3>1, <3>2 DEF Outside
  <2>3. QED
    BY <2>1, <2>2 DEF BookMatched
<1>2. CASE Opens
  <2>1. /\ tx' # Idle /\ tx'.phase = "dividends" /\ Matched(orders, fills, equity)
        /\ tx'.saved.orders = orders /\ tx'.saved.fills = fills /\ tx'.saved.equity = equity
    BY <1>2 DEF Opens, BookMatched, Idle
  <2>2. Matched(orders', fills', equity' \cup {tx'.day})
    <3>1. CASE orders' = orders /\ Still
      <4>1. Matched(orders, fills, equity \cup {tx'.day})
        BY <2>1, MatchedWider
      <4>2. QED
        BY <3>1, <4>1 DEF Still
    <3>2. CASE /\ tx'.day \in equity /\ \A e \in equity : e <= tx'.day
               /\ equity' = equity \ {tx'.day}
               /\ fills' = {f \in fills : f.day # tx'.day}
               /\ orders' = Cleared(tx'.day, fills')
      <4>1. \A e \in equity : e \in Nat
        BY <1>0
      <4>2. Matched(orders', fills', equity')
        BY <1>0, <2>1, <3>2, <4>1, MatchedCleared
      <4>3. QED
        BY <4>2, MatchedWider
    <3>3. QED
      BY <1>2, <3>1, <3>2 DEF Opens
  <2>3. QED
    BY <2>1, <2>2 DEF BookMatched
<1>3. CASE InTx
  <2>0. tx.phase # "idle" => tx # Idle
    BY DEF Idle
  <2>1. tx # Idle
    BY <1>3, <2>0 DEF InTx, Prepares, LooksUp, Handles, Marks, Generates, Commits, RollsBack
  <2>2. /\ Matched(orders, fills, equity \cup {tx.day})
        /\ Matched(tx.saved.orders, tx.saved.fills, tx.saved.equity)
        /\ tx.phase = "generate" => tx.day \in equity
    BY <2>1 DEF BookMatched
  <2>3. ASSUME NEW p, p # "idle", Onward(tx, tx', p), p = "generate" => tx.day \in equity',
               Matched(orders', fills', equity' \cup {tx.day})
        PROVE  BookMatched'
    <3>1. tx' # Idle /\ tx'.phase = p /\ tx'.day = tx.day /\ tx'.saved = tx.saved
      BY <2>3 DEF Onward, Idle
    <3>2. QED
      BY <2>2, <2>3, <3>1 DEF BookMatched
  <2>4. CASE Prepares
    <3>1. Matched(orders', fills, equity \cup {tx.day})
      BY <2>2, <2>4, MatchedShrinks DEF Prepares
    <3>2. QED
      BY <2>3, <2>4, <3>1 DEF Prepares, Still
  <2>5. CASE LooksUp
    BY <2>2, <2>3, <2>5 DEF LooksUp, Still
  <2>6. CASE Handles
    <3>1. Matched(orders', fills', equity' \cup {tx.day})
      <4>1. CASE orders' = orders /\ Still
        BY <2>2, <4>1 DEF Still
      <4>2. ASSUME NEW i \in Todo, Rejects(i) PROVE Matched(orders', fills', equity' \cup {tx.day})
        <5>1. orders[i].status = "pending"
          BY DEF TodoDue, Pending
        <5>2. Shrinks(orders, orders') /\ fills' = fills /\ equity' = equity
          BY <4>2, <5>1, RejectShrinks DEF Rejects, Still
        <5>3. QED
          BY <2>2, <5>2, MatchedShrinks
      <4>3. ASSUME NEW i \in Todo, Fills(i) PROVE Matched(orders', fills', equity' \cup {tx.day})
        <5>1. i \in DOMAIN orders /\ orders[i].status = "pending" /\ orders[i].sig < tx.day
          BY DEF TodoDue, Pending
        <5>2. PICK f : f.order = i /\ f.day = tx.day /\ fills' = fills \cup {f}
          BY <4>3 DEF Fills
        <5>3. Restated(orders, orders', i, "filled") /\ equity' = equity
          BY <4>3 DEF Fills
        <5>4. tx.day \in Nat /\ orders[i].sig \in Nat
          BY <1>0, <2>1, <5>1, TxPhases
        <5>5. f.day \in equity \cup {tx.day} /\ f.day > orders[i].sig
          BY <5>1, <5>2, <5>4
        <5>6. Matched(orders', fills \cup {f}, equity \cup {tx.day})
          BY <2>2, <5>1, <5>2, <5>3, <5>5, MatchedFills
        <5>7. QED
          BY <5>2, <5>3, <5>6
      <4>4. QED
        BY <2>6, <4>1, <4>2, <4>3 DEF Handles, Leaves
    <3>2. PICK p \in {"fill", "buy"} : Onward(tx, tx', p)
      BY <2>6 DEF Handles
    <3>3. QED
      BY <2>3, <3>1, <3>2
  <2>7. CASE Marks
    <3>1. equity' \cup {tx.day} = equity \cup {tx.day} /\ tx.day \in equity'
      BY <2>7 DEF Marks
    <3>2. QED
      BY <2>2, <2>3, <2>7, <3>1 DEF Marks
  <2>8. CASE Generates
    <3>1. Matched(orders', fills, equity \cup {tx.day})
      BY <1>0, <2>2, <2>8, MatchedAdds DEF Generates
    <3>2. QED
      BY <2>2, <2>3, <2>8, <3>1 DEF Generates, Still
  <2>9. CASE Commits
    <3>1. equity \cup {tx.day} = equity
      BY <2>2, <2>9 DEF Commits
    <3>2. QED
      BY <2>2, <2>9, <3>1 DEF Commits, Still, BookMatched
  <2>10. CASE RollsBack
    BY <2>2, <2>10 DEF RollsBack, BookMatched
  <2>11. QED
    BY <1>3, <2>4, <2>5, <2>6, <2>7, <2>8, <2>9, <2>10 DEF InTx
<1>4. CASE UNCHANGED <<latest, orders, fills, equity, nextId, tx>>
  BY <1>4 DEF BookMatched, Matched
<1>5. QED
  BY <1>1, <1>2, <1>3, <1>4, LeagueSteps

\* The invariant of the books holds in every reachable state: tables well
\* formed, orders and fills matched in the book and in the copy a rollback
\* returns to, and only pending orders still to be filled.
THEOREM BooksSound == Spec => []BooksInv
<1>1. Init => BooksInv
  BY LeagueInit
<1>2. BooksInv /\ [Next]_vars => BooksInv'
  BY ShapesStep, TodoStep, MatchedStep DEF BooksInv
<1>3. QED
  BY <1>1, <1>2, PTL DEF Spec

\* No rollback, rerun or deletion of orders leaves a filled order without its
\* one fill, a fill without its order, or, between transactions, a fill on a
\* session the book has not been marked for.
THEOREM BooksStayClosed == Spec => []BooksClosed
<1>1. BooksInv => BooksClosed
  <2> SUFFICES ASSUME BooksInv PROVE BooksClosed
    OBVIOUS
  <2>1. PICK days : /\ Matched(orders, fills, days)
                    /\ tx.phase = "idle" => days = equity
    <3>1. CASE tx = Idle
      BY <3>1 DEF BooksInv, BookMatched
    <3>2. CASE tx # Idle
      BY <3>2, TxPhases DEF BooksInv, BookMatched
    <3>3. QED
      BY <3>1, <3>2
  <2>2. QED
    BY <2>1 DEF BooksClosed, Matched
<1>2. QED
  BY <1>1, BooksSound, PTL

-----------------------------------------------------------------------------
(* Orders that wait.                                                       *)

\* ot holds orders of os, as they were but for their status and their reason.
SameOrders(os, ot) ==
    /\ DOMAIN ot \subseteq DOMAIN os
    /\ \A i \in DOMAIN ot :
          /\ ot[i].ticker = os[i].ticker /\ ot[i].side = os[i].side /\ ot[i].sig = os[i].sig
          /\ ot[i].ticket <=> os[i].ticket

LEMMA ShrinksThins ==
  ASSUME NEW os, NEW ot, NEW fs, Shrinks(os, ot)
  PROVE  /\ SameOrders(os, ot) /\ Pending(ot) \subseteq Pending(os)
         /\ \A d : Alive(ot, fs, d) \subseteq Alive(os, fs, d)
<1>1. SameOrders(os, ot)
  BY DEF Shrinks, SameOrders, Kept
<1>2. Pending(ot) \subseteq Pending(os)
  BY DEF Shrinks, Pending
<1>3. \A d : Alive(ot, fs, d) \subseteq Alive(os, fs, d)
  BY DEF Shrinks, Alive
<1>4. QED
  BY <1>1, <1>2, <1>3

LEMMA LegsThin ==
  ASSUME NEW os, NEW ot, SameOrders(os, ot), NEW i \in DOMAIN ot, NEW j \in DOMAIN ot,
         SameLeg(ot, i, j)
  PROVE  SameLeg(os, i, j)
BY DEF SameOrders, SameLeg

LEMMA StrictThin ==
  ASSUME NEW os, NEW ot, NEW fs, NEW ft, NEW d, SameOrders(os, ot),
         StrictlyApart(os, fs, d), Alive(ot, ft, d) \subseteq Alive(os, fs, d)
  PROVE  StrictlyApart(ot, ft, d)
<1> SUFFICES ASSUME NEW i \in Alive(ot, ft, d), NEW j \in Alive(ot, ft, d), SameLeg(ot, i, j)
             PROVE  i = j
  BY DEF StrictlyApart
<1>1. i \in DOMAIN ot /\ j \in DOMAIN ot
  BY DEF Alive
<1>2. SameLeg(os, i, j)
  BY <1>1, LegsThin
<1>3. QED
  BY <1>2 DEF StrictlyApart

LEMMA WaitingShrinks ==
  ASSUME NEW os, NEW ot, NEW fs, NEW eq, Waiting(os, fs, eq), Shrinks(os, ot)
  PROVE  Waiting(ot, fs, eq)
<1>0. /\ SameOrders(os, ot) /\ Pending(ot) \subseteq Pending(os)
      /\ \A d : Alive(ot, fs, d) \subseteq Alive(os, fs, d)
  BY ShrinksThins
<1>1. FreshIn(ot, eq)
  <2> SUFFICES ASSUME NEW i \in Pending(ot), NEW e \in eq
               PROVE  e - ot[i].sig < PENDING_MAX_DAYS
    BY DEF FreshIn
  <2>1. i \in DOMAIN ot /\ i \in Pending(os)
    BY <1>0 DEF Pending
  <2>2. ot[i].sig = os[i].sig
    BY <1>0, <2>1 DEF SameOrders
  <2>3. QED
    BY <2>1, <2>2 DEF Waiting, FreshIn
<1>2. ASSUME NEW i \in Pending(ot), NEW j \in Pending(ot), SameLeg(ot, i, j) PROVE i = j
  <2>1. i \in DOMAIN ot /\ j \in DOMAIN ot
    BY DEF Pending
  <2>2. SameLeg(os, i, j)
    BY <1>0, <1>2, <2>1, LegsThin
  <2>3. QED
    BY <1>0, <2>2 DEF Waiting
<1>3. ASSUME NEW d \in eq, \A e \in eq : e <= d PROVE LegsApart(ot, fs, d)
  <2> SUFFICES ASSUME NEW i \in Alive(ot, fs, d), NEW j \in Alive(ot, fs, d),
                      SameLeg(ot, i, j), ot[i].sig # d, ot[j].sig # d
               PROVE  i = j
    BY DEF LegsApart
  <2>1. i \in DOMAIN ot /\ j \in DOMAIN ot
    BY DEF Alive
  <2>2. SameLeg(os, i, j) /\ os[i].sig # d /\ os[j].sig # d
    <3>1. SameLeg(os, i, j)
      BY <1>0, <2>1, LegsThin
    <3>2. QED
      BY <1>0, <2>1, <3>1 DEF SameOrders
  <2>3. i \in Alive(os, fs, d) /\ j \in Alive(os, fs, d)
    BY <1>0
  <2>4. LegsApart(os, fs, d)
    BY <1>3 DEF Waiting
  <2>5. QED
    BY <2>2, <2>3, <2>4 DEF LegsApart
<1>4. QED
  BY <1>1, <1>2, <1>3 DEF Waiting

\* A new order that is late enough to be fresh and that shares its leg with no
\* waiting order, nor with one the last session filled unless it is its own.
LEMMA WaitingAdds ==
  ASSUME NEW os, NEW ot, NEW fs, NEW eq, NEW n, NEW s, NEW sig, NEW st,
         Waiting(os, fs, eq), Adds(os, ot, n, s, sig, st), n \notin DOMAIN os,
         \A f \in fs : f.order \in DOMAIN os,
         \A e \in eq : e - sig < PENDING_MAX_DAYS,
         st = "pending" => \A i \in Pending(os) : ~SameLeg(ot, i, n) /\ ~SameLeg(ot, n, i),
         \A d \in eq, i \in DOMAIN os :
            (\A e \in eq : e <= d) => sig = d \/ (~SameLeg(ot, i, n) /\ ~SameLeg(ot, n, i))
  PROVE  Waiting(ot, fs, eq)
<1>0. /\ DOMAIN ot = DOMAIN os \cup {n} /\ \A i \in DOMAIN os : ot[i] = os[i]
      /\ ot[n].sig = sig /\ ot[n].status = st
  BY DEF Adds
<1>1. \A i \in DOMAIN os, j \in DOMAIN os : SameLeg(ot, i, j) => SameLeg(os, i, j)
  BY <1>0 DEF SameLeg
<1>2. \A i \in Pending(ot) : i \in Pending(os) \/ (i = n /\ st = "pending")
  BY <1>0 DEF Pending
<1>3. Pending(os) \subseteq DOMAIN os
  BY DEF Pending
<1>4. FreshIn(ot, eq)
  <2> SUFFICES ASSUME NEW i \in Pending(ot), NEW e \in eq
               PROVE  e - ot[i].sig < PENDING_MAX_DAYS
    BY DEF FreshIn
  <2>1. CASE i = n
    BY <1>0, <2>1
  <2>2. CASE i \in Pending(os)
    BY <1>0, <1>3, <2>2 DEF Waiting, FreshIn
  <2>3. QED
    BY <1>2, <2>1, <2>2
<1>5. ASSUME NEW i \in Pending(ot), NEW j \in Pending(ot), SameLeg(ot, i, j) PROVE i = j
  <2>1. CASE i \in Pending(os) /\ j \in Pending(os)
    BY <1>1, <1>3, <1>5, <2>1 DEF Waiting
  <2>2. CASE i = n \/ j = n
    BY <1>2, <1>3, <1>5, <2>2
  <2>3. QED
    BY <1>2, <2>1, <2>2
<1>6. ASSUME NEW d \in eq, \A e \in eq : e <= d PROVE LegsApart(ot, fs, d)
  <2> SUFFICES ASSUME NEW i \in Alive(ot, fs, d), NEW j \in Alive(ot, fs, d),
                      SameLeg(ot, i, j), ot[i].sig # d, ot[j].sig # d
               PROVE  i = j
    BY DEF LegsApart
  <2>1. \A k \in Alive(ot, fs, d) : k \in Alive(os, fs, d) \/ k = n
    BY <1>0 DEF Alive
  <2>2. Alive(os, fs, d) \subseteq DOMAIN os
    BY DEF Alive
  <2>3. CASE i \in Alive(os, fs, d) /\ j \in Alive(os, fs, d)
    <3>1. SameLeg(os, i, j) /\ os[i].sig # d /\ os[j].sig # d
      BY <1>0, <1>1, <2>2, <2>3
    <3>2. LegsApart(os, fs, d)
      BY <1>6 DEF Waiting
    <3>3. QED
      BY <2>3, <3>1, <3>2 DEF LegsApart
  <2>4. CASE i = n /\ j \in Alive(os, fs, d)
    BY <1>0, <1>6, <2>2, <2>4
  <2>5. CASE j = n /\ i \in Alive(os, fs, d)
    BY <1>0, <1>6, <2>2, <2>5
  <2>6. QED
    BY <2>1, <2>3, <2>4, <2>5
<1>7. QED
  BY <1>4, <1>5, <1>6 DEF Waiting

LEMMA WaitingStep ==
  ASSUME ~Backdated, BooksInv, WaitingInv, [Next]_vars
  PROVE  WaitingInv'
<1>0. /\ \A i \in DOMAIN orders : orders[i] \in Order /\ orders[i].sig \in Nat
      /\ nextId \in Nat /\ nextId \notin DOMAIN orders
      /\ equity \subseteq 1 .. latest /\ latest \in Nat /\ \A e \in equity : e \in Nat
      /\ tx # Idle => tx.day \in Nat
      /\ PENDING_MAX_DAYS \in Nat \ {0}
  <2>1. Shapes
    BY DEF BooksInv
  <2>2. /\ \A i \in DOMAIN orders : orders[i] \in Order /\ orders[i].sig \in Nat
        /\ nextId \in Nat /\ DOMAIN orders \subseteq 1 .. nextId - 1
        /\ equity \subseteq 1 .. latest /\ latest \in Nat
        /\ tx # Idle => tx.day \in Nat
    BY <2>1, TxPhases
  <2>3. nextId \notin DOMAIN orders /\ \A e \in equity : e \in Nat
    BY <2>2
  <2>4. QED
    BY <2>2, <2>3, LeagueAssumption
<1>1. CASE Outside
  <2>1. /\ Waiting(orders, fills, equity) /\ Matched(orders, fills, equity)
        /\ tx' = Idle /\ fills' = fills /\ equity' = equity
    BY <1>1 DEF Outside, BooksInv, BookMatched, WaitingInv, Still
  <2>2. Waiting(orders', fills, equity)
    <3>1. CASE Shrinks(orders, orders')
      BY <2>1, <3>1, WaitingShrinks
    <3>2. ASSUME NEW o, NEW sig \in latest .. LastDay + 1,
                 Adds(orders, orders', nextId, o, sig, "pending"), orders'[nextId].ticket
          PROVE  Waiting(orders', fills, equity)
      <4>1. sig \in Nat /\ sig >= latest
        BY <1>0, <3>2, LeagueAssumption
      <4>2. \A e \in equity : e - sig < PENDING_MAX_DAYS
        BY <1>0, <4>1
      <4>3. \A i : ~SameLeg(orders', i, nextId) /\ ~SameLeg(orders', nextId, i)
        BY <3>2 DEF SameLeg
      <4>4. \A f \in fills : f.order \in DOMAIN orders
        BY <2>1 DEF Matched
      <4>5. QED
        BY <1>0, <2>1, <3>2, <4>2, <4>3, <4>4, WaitingAdds
    <3>3. QED
      BY <1>1, <3>1, <3>2 DEF Outside
  <2>3. QED
    BY <2>1, <2>2 DEF WaitingInv
<1>2. CASE Opens
  <2>0. /\ Waiting(orders, fills, equity) /\ Matched(orders, fills, equity)
    BY <1>2 DEF Opens, BooksInv, BookMatched, WaitingInv
  <2>1. /\ tx' # Idle /\ tx'.phase = "dividends" /\ tx'.day \in 1 .. latest
        /\ tx'.saved.orders = orders /\ tx'.saved.fills = fills /\ tx'.saved.equity = equity
    BY <1>2 DEF Opens, Idle
  <2>2. (\A e \in equity' : e < tx'.day) /\ StrictlyApart(orders', fills', tx'.day)
    <3>1. CASE tx'.day \notin equity /\ (\A e \in equity : e < tx'.day) /\ orders' = orders /\ Still
      <4>1. \A f \in fills : f.day # tx'.day
        BY <2>0, <3>1 DEF Matched
      <4>2. Alive(orders, fills, tx'.day) \subseteq Pending(orders)
        BY <4>1 DEF Alive, Pending
      <4>3. StrictlyApart(orders, fills, tx'.day)
        BY <2>0, <4>2 DEF StrictlyApart, Waiting
      <4>4. QED
        BY <3>1, <4>3 DEF Still
    <3>2. CASE /\ tx'.day \in equity /\ \A e \in equity : e <= tx'.day
               /\ equity' = equity \ {tx'.day}
               /\ fills' = {f \in fills : f.day # tx'.day}
               /\ orders' = Cleared(tx'.day, fills')
      <4> DEFINE d == tx'.day
      <4>1. ASSUME NEW e \in equity' PROVE e < d
        <5>1. e \in Nat /\ d \in Nat /\ e <= d /\ e # d
          BY <1>0, <3>2
        <5>2. QED
          BY <5>1
      <4>2. LegsApart(orders, fills, d)
        BY <2>0, <3>2 DEF Waiting
      <4>3. /\ DOMAIN orders' \subseteq DOMAIN orders
            /\ \A i \in DOMAIN orders : i \in DOMAIN orders' <=> orders[i].sig # d \/ orders[i].ticket
            /\ \A i \in DOMAIN orders' :
                 /\ Kept(orders[i], orders'[i])
                 /\ ~ (orders[i].status = "filled" /\ ~ (\E f \in fills' : f.order = i)) =>
                      orders'[i].status = orders[i].status
        BY <1>0, <3>2, ClearedMeans
      <4>4. ASSUME NEW i \in Alive(orders', fills', d)
            PROVE  i \in DOMAIN orders' /\ i \in Alive(orders, fills, d)
        <5>1. i \in DOMAIN orders' /\ i \in DOMAIN orders /\ orders'[i].status = "pending"
          BY <3>2, <4>3 DEF Alive
        <5>2. CASE orders[i].status = "filled" /\ ~ (\E f \in fills' : f.order = i)
          <6>1. PICK f \in fills : f.order = i
            BY <2>0, <5>1, <5>2 DEF Matched
          <6>2. f.day = d
            BY <3>2, <5>2, <6>1
          <6>3. QED
            BY <5>1, <6>1, <6>2 DEF Alive
        <5>3. CASE orders'[i].status = orders[i].status
          BY <5>1, <5>3 DEF Alive
        <5>4. QED
          BY <4>3, <5>1, <5>2, <5>3
      <4>5. StrictlyApart(orders', fills', d)
        <5> SUFFICES ASSUME NEW i \in Alive(orders', fills', d), NEW j \in Alive(orders', fills', d),
                            SameLeg(orders', i, j)
                     PROVE  i = j
          BY DEF StrictlyApart
        <5>1. /\ i \in DOMAIN orders' /\ i \in Alive(orders, fills, d)
              /\ j \in DOMAIN orders' /\ j \in Alive(orders, fills, d)
          BY <4>4
        <5>2. SameOrders(orders, orders')
          BY <4>3 DEF SameOrders, Kept
        <5>3. SameLeg(orders, i, j)
          BY <5>1, <5>2, LegsThin
        <5>4. orders[i].sig # d /\ orders[j].sig # d
          BY <4>3, <5>1, <5>3 DEF SameLeg
        <5>5. QED
          BY <4>2, <5>1, <5>3, <5>4 DEF LegsApart
      <4>6. QED
        BY <4>1, <4>5
    <3>3. QED
      BY <1>2, <3>1, <3>2 DEF Opens
  <2>3. QED
    BY <2>0, <2>1, <2>2 DEF WaitingInv, WaitingInTx
<1>3. CASE InTx
  <2>0. tx # Idle /\ WaitingInTx
    BY <1>3 DEF InTx, Idle, Prepares, LooksUp, Handles, Marks, Generates, Commits, RollsBack,
                WaitingInv
  <2>1. /\ Matched(orders, fills, equity \cup {tx.day})
        /\ tx.phase = "generate" => tx.day \in equity
        /\ tx.phase = "closeout" => tx.buys = {}
        /\ \A i \in Todo : i \in Pending(orders) /\ orders[i].sig < tx.day
    BY <2>0 DEF BooksInv, BookMatched, TodoDue
  <2>2. CASE Commits
    BY <2>0, <2>2 DEF Commits, WaitingInv, WaitingInTx, Still
  <2>3. CASE RollsBack
    BY <2>0, <2>3 DEF RollsBack, WaitingInv, WaitingInTx
  <2>4. ASSUME NEW p \in {"closeout", "fill", "buy", "generate"}, Onward(tx, tx', p),
               p # "generate" =>
                  (\A e \in equity' : e < tx.day) /\ StrictlyApart(orders', fills', tx.day),
               p \in {"fill", "buy"} =>
                  \A i \in Pending(orders') \ Todo' : tx.day - orders'[i].sig < PENDING_MAX_DAYS,
               p = "generate" =>
                  (\A e \in equity' : e <= tx.day) /\ Waiting(orders', fills', equity')
        PROVE  WaitingInv'
    <3>1. tx' # Idle /\ tx'.phase = p /\ tx'.day = tx.day /\ tx'.saved = tx.saved
      BY <2>4 DEF Onward, Idle
    <3>2. WaitingInTx'
      BY <2>0, <2>4, <3>1 DEF WaitingInTx
    <3>3. QED
      BY <3>1, <3>2 DEF WaitingInv
  <2>5. CASE Prepares
    <3>1. (\A e \in equity : e < tx.day) /\ StrictlyApart(orders, fills, tx.day)
      BY <2>0, <2>5 DEF Prepares, WaitingInTx
    <3>2. /\ Onward(tx, tx', "closeout") /\ Shrinks(orders, orders')
          /\ fills' = fills /\ equity' = equity
      BY <2>5 DEF Prepares, Still
    <3>3. StrictlyApart(orders', fills', tx.day)
      BY <3>1, <3>2, ShrinksThins, StrictThin
    <3>4. QED
      BY <2>4, <3>1, <3>2, <3>3
  <2>6. CASE LooksUp
    <3>1. (\A e \in equity : e < tx.day) /\ StrictlyApart(orders, fills, tx.day)
      BY <2>0, <2>6 DEF LooksUp, WaitingInTx
    <3>2. /\ Onward(tx, tx', "fill") /\ tx'.buys = {}
          /\ tx'.todo = {i \in PendingOrders : Due(i, tx.day)}
          /\ orders' = orders /\ fills' = fills /\ equity' = equity
      BY <2>1, <2>6 DEF LooksUp, Still
    <3>3. \A i \in Pending(orders) \ Todo' : tx.day - orders[i].sig < PENDING_MAX_DAYS
      <4>1. Todo' = {i \in PendingOrders : Due(i, tx.day)}
        BY <3>2 DEF Todo, Onward
      <4>2. \A i \in Pending(orders) \ Todo' : i \in DOMAIN orders /\ ~ (orders[i].sig < tx.day)
        BY <4>1 DEF Pending, PendingOrders, Due
      <4>3. QED
        BY <1>0, <2>0, <4>2
    <3>4. QED
      BY <2>4, <3>1, <3>2, <3>3
  <2>7. CASE Handles
    <3>1. /\ \A e \in equity : e < tx.day
          /\ StrictlyApart(orders, fills, tx.day)
          /\ \A i \in Pending(orders) \ Todo : tx.day - orders[i].sig < PENDING_MAX_DAYS
      BY <2>0, <2>7 DEF Handles, WaitingInTx
    <3>2. PICK p \in {"fill", "buy"} : Onward(tx, tx', p)
      BY <2>7 DEF Handles
    <3>3. /\ \A e \in equity' : e < tx.day
          /\ StrictlyApart(orders', fills', tx.day)
          /\ \A i \in Pending(orders') \ Todo' : tx.day - orders'[i].sig < PENDING_MAX_DAYS
      <4>1. CASE Todo' = Todo /\ orders' = orders /\ Still
        BY <3>1, <4>1 DEF Still
      <4>2. ASSUME NEW i \in Todo, Todo' = Todo \ {i}, Leaves(i) \/ Rejects(i) \/ Fills(i)
            PROVE  /\ equity' = equity
                   /\ StrictlyApart(orders', fills', tx.day)
                   /\ \A j \in Pending(orders') \ Todo' : tx.day - orders'[j].sig < PENDING_MAX_DAYS
        <5>0. i \in DOMAIN orders /\ orders[i].status = "pending"
          BY <2>1 DEF Pending
        <5>1. CASE Leaves(i)
          BY <3>1, <4>2, <5>1 DEF Leaves, Still
        <5>2. ASSUME NEW st \in {"rejected", "filled"}, Restated(orders, orders', i, st)
              PROVE  /\ SameOrders(orders, orders')
                     /\ \A j \in Pending(orders') \ Todo' :
                           tx.day - orders'[j].sig < PENDING_MAX_DAYS
          <6>1. SameOrders(orders, orders')
            BY <5>0, <5>2 DEF Restated, Kept, SameOrders
          <6>2. ASSUME NEW j \in Pending(orders') \ Todo'
                PROVE  j \in Pending(orders) \ Todo /\ orders'[j] = orders[j]
            BY <4>2, <5>2 DEF Pending, Restated
          <6>3. QED
            BY <3>1, <6>1, <6>2
        <5>3. CASE Rejects(i)
          <6>1. Restated(orders, orders', i, "rejected") /\ fills' = fills /\ equity' = equity
            BY <5>3 DEF Rejects, Still
          <6>2. Shrinks(orders, orders')
            BY <5>0, <6>1, RejectShrinks
          <6>3. StrictlyApart(orders', fills, tx.day)
            BY <3>1, <6>2, ShrinksThins, StrictThin
          <6>4. QED
            BY <5>2, <6>1, <6>3
        <5>4. CASE Fills(i)
          <6>1. Restated(orders, orders', i, "filled") /\ equity' = equity
            BY <5>4 DEF Fills
          <6>2. PICK f : f.order = i /\ fills' = fills \cup {f}
            BY <5>4 DEF Fills
          <6>3. Alive(orders', fills', tx.day) \subseteq Alive(orders, fills, tx.day)
            BY <5>0, <6>1, <6>2 DEF Alive, Restated
          <6>4. StrictlyApart(orders', fills', tx.day)
            BY <3>1, <5>2, <6>1, <6>3, StrictThin
          <6>5. QED
            BY <5>2, <6>1, <6>4
        <5>5. QED
          BY <4>2, <5>1, <5>3, <5>4
      <4>3. QED
        BY <2>7, <3>1, <4>1, <4>2 DEF Handles
    <3>4. QED
      BY <2>4, <3>2, <3>3
  <2>8. CASE Marks
    <3>1. /\ \A e \in equity : e < tx.day
          /\ StrictlyApart(orders, fills, tx.day)
          /\ \A i \in Pending(orders) : tx.day - orders[i].sig < PENDING_MAX_DAYS
      BY <2>0, <2>8 DEF Marks, WaitingInTx
    <3>2. /\ Onward(tx, tx', "generate") /\ orders' = orders /\ fills' = fills
          /\ equity' = equity \cup {tx.day}
      BY <2>8 DEF Marks
    <3>3. (\A e \in equity' : e <= tx.day) /\ \A e \in equity' : e \in Nat
      BY <1>0, <2>0, <3>1, <3>2
    <3>4. FreshIn(orders, equity')
      <4> SUFFICES ASSUME NEW i \in Pending(orders), NEW e \in equity'
                   PROVE  e - orders[i].sig < PENDING_MAX_DAYS
        BY DEF FreshIn
      <4>1. orders[i].sig \in Nat /\ tx.day \in Nat /\ e \in Nat /\ e <= tx.day
        BY <1>0, <2>0, <3>3 DEF Pending
      <4>2. tx.day - orders[i].sig < PENDING_MAX_DAYS
        BY <3>1
      <4>3. QED
        BY <1>0, <4>1, <4>2
    <3>5. \A i, j \in Pending(orders) : SameLeg(orders, i, j) => i = j
      BY <3>1 DEF StrictlyApart, Alive, Pending
    <3>6. ASSUME NEW d \in equity', \A e \in equity' : e <= d PROVE LegsApart(orders, fills, d)
      <4>1. tx.day <= d /\ d <= tx.day /\ d \in Nat /\ tx.day \in Nat
        BY <2>0, <1>0, <3>2, <3>3, <3>6
      <4>2. d = tx.day
        BY <4>1
      <4>3. QED
        BY <3>1, <4>2 DEF StrictlyApart, LegsApart
    <3>7. Waiting(orders, fills, equity')
      BY <3>4, <3>5, <3>6 DEF Waiting
    <3>8. QED
      BY <2>4, <3>2, <3>3, <3>7
  <2>9. CASE Generates
    <3>1. /\ \A e \in equity : e <= tx.day
          /\ Waiting(orders, fills, equity) /\ tx.day \in equity
      BY <2>0, <2>1, <2>9 DEF Generates, WaitingInTx
    <3>2. PICK s \in Signals, st \in {"pending", "rejected"} :
            Adds(orders, orders', nextId, s, tx.day, st) /\ ~PendingLeg(s)
      BY <2>9 DEF Generates
    <3>3. Onward(tx, tx', "generate") /\ fills' = fills /\ equity' = equity
      BY <2>9 DEF Generates, Still
    <3>4. \A e \in equity : e - tx.day < PENDING_MAX_DAYS
      BY <1>0, <2>0, <3>1
    <3>5. \A i \in Pending(orders) : ~SameLeg(orders', i, nextId) /\ ~SameLeg(orders', nextId, i)
      BY <1>0, <3>2 DEF SameLeg, Adds, PendingLeg, PendingOrders, Pending
    <3>6. ASSUME NEW d \in equity, \A e \in equity : e <= d PROVE tx.day = d
      <4>1. d \in Nat /\ tx.day \in Nat /\ d <= tx.day /\ tx.day <= d
        BY <1>0, <3>1, <3>6
      <4>2. QED
        BY <4>1
    <3>7. \A f \in fills : f.order \in DOMAIN orders
      BY <2>1 DEF Matched
    <3>8. Waiting(orders', fills, equity)
      BY <1>0, <3>1, <3>2, <3>4, <3>5, <3>6, <3>7, WaitingAdds
    <3>9. QED
      BY <2>4, <3>1, <3>3, <3>8
  <2>10. QED
    BY <1>3, <2>2, <2>3, <2>5, <2>6, <2>7, <2>8, <2>9 DEF InTx
<1>4. CASE UNCHANGED <<latest, orders, fills, equity, nextId, tx>>
  <2>1. CASE tx = Idle
    BY <1>4, <2>1 DEF WaitingInv
  <2>2. CASE tx # Idle
    <3>1. WaitingInTx' <=> WaitingInTx
      BY <1>4 DEF WaitingInTx, Todo
    <3>2. QED
      BY <1>4, <2>2, <3>1 DEF WaitingInv
  <2>3. QED
    BY <2>1, <2>2
<1>5. QED
  BY <1>1, <1>2, <1>3, <1>4, LeagueSteps DEF BooksInv

\* In a book whose owner never steps a session older than a stepped one, the
\* orders that wait are fresh and apart, in the book and in the saved copy.
THEOREM WaitingSound == ASSUME ~Backdated PROVE Spec => [](BooksInv /\ WaitingInv)
<1>1. Init => BooksInv /\ WaitingInv
  BY LeagueInit
<1>2. BooksInv /\ WaitingInv /\ [Next]_vars => BooksInv' /\ WaitingInv'
  BY ShapesStep, TodoStep, MatchedStep, WaitingStep DEF BooksInv
<1>3. QED
  BY <1>1, <1>2, PTL DEF Spec

\* In such a book, once a session is stepped no order of an earlier signal has
\* been waiting PENDING_MAX_DAYS for a bar.
THEOREM NoneStale == ASSUME ~Backdated PROVE Spec => []NothingStale
<1>1. BooksInv /\ WaitingInv => NothingStale
  <2> SUFFICES ASSUME BooksInv, WaitingInv, tx.phase = "idle", NEW i \in PendingOrders
               PROVE  LastStep - orders[i].sig < PENDING_MAX_DAYS
    BY DEF NothingStale
  <2>1. Shapes
    BY DEF BooksInv
  <2>2. /\ latest \in Nat /\ equity \subseteq 1 .. latest /\ tx = Idle
        /\ orders[i] \in Order
    BY <2>1, TxPhases DEF PendingOrders
  <2>3. /\ orders[i].sig \in Nat /\ orders[i].sig \in 1 .. LastDay + 1
        /\ PENDING_MAX_DAYS \in Nat \ {0}
    BY <2>2, OrderFields, LeagueAssumption
  <2>4. FreshIn(orders, equity)
    BY <2>2 DEF WaitingInv, Waiting
  <2>5. /\ LastStep \in Nat
        /\ equity = {} => LastStep = 0
        /\ equity # {} => LastStep \in equity
    BY <2>2, LastStepMeans
  <2>6. CASE equity = {}
    BY <2>3, <2>5, <2>6
  <2>7. CASE equity # {}
    BY <2>4, <2>5, <2>7 DEF FreshIn, Pending, PendingOrders
  <2>8. QED
    BY <2>6, <2>7
<1>2. QED
  BY <1>1, WaitingSound, PTL

\* In such a book two pending strategy orders never want the same leg, although
\* reruns return filled orders to pending.
THEOREM LegsStayApart == ASSUME ~Backdated PROVE Spec => []OneOrderPerLeg
<1>1. BooksInv /\ WaitingInv => OneOrderPerLeg
  <2> SUFFICES ASSUME BooksInv, WaitingInv,
                      NEW i \in Pending(orders), NEW j \in Pending(orders), SameLeg(orders, i, j)
               PROVE  i = j
    BY DEF OneOrderPerLeg, PendingOrders, Pending, SameLeg
  <2>1. CASE tx = Idle \/ tx.phase = "generate"
    BY <2>1 DEF WaitingInv, WaitingInTx, Waiting, Idle
  <2>2. CASE tx # Idle /\ tx.phase # "generate"
    <3>1. StrictlyApart(orders, fills, tx.day)
      BY <2>2 DEF WaitingInv, WaitingInTx
    <3>2. i \in Alive(orders, fills, tx.day) /\ j \in Alive(orders, fills, tx.day)
      BY DEF Alive, Pending
    <3>3. QED
      BY <3>1, <3>2 DEF StrictlyApart
  <2>3. QED
    BY <2>1, <2>2
<1>2. QED
  BY <1>1, WaitingSound, PTL
=============================================================================

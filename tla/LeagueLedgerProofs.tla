--------------------------- MODULE LeagueLedgerProofs ---------------------------
(***************************************************************************)
(* Proofs about the money of PaperLeague: for every set of names, bars,    *)
(* orders, dividends and terms, a book that steps its sessions in order    *)
(* and settles names up to its last step is never overdrawn, replays to    *)
(* the cash and the positions it shows, is paid each dividend once, and a  *)
(* rerun of its last session over unchanged data gives back that session.  *)
(***************************************************************************)
EXTENDS PaperLeagueProofs

-----------------------------------------------------------------------------
(* What each recorded event leaves by the close of session d: the replay,  *)
(* day by day, comes to these sums over all the events.                    *)

Way(f) == IF f.side = "buy" THEN 1 ELSE -1

\* The shares of t by the close, and before the buys of that session.
FillShares(f, t, d) == IF f.ticker = t /\ f.day <= d THEN Way(f) * f.qty ELSE 0
FillOpen(f, t, d) ==
    IF f.ticker = t /\ (f.day < d \/ (f.day = d /\ f.side # "buy")) THEN Way(f) * f.qty ELSE 0
SettledShares(x, t, d) ==
    IF x.eff <= d
    THEN (IF x.into = t THEN x.qty * x.ratio ELSE 0) - (IF x.ticker = t THEN x.qty ELSE 0)
    ELSE 0

FillCash(f, d) == IF f.day <= d THEN -(Way(f) * (f.qty * f.px)) ELSE 0
SettledCash(x, d) == IF x.eff <= d THEN x.qty * x.price ELSE 0
CreditCash(c, d) == IF c.ex <= d THEN c.qty ELSE 0

Shares(fs, ss, t, d) ==
    SumOver([f \in fs |-> FillShares(f, t, d)], fs)
    + SumOver([x \in ss |-> SettledShares(x, t, d)], ss)
OpenShares(fs, ss, t, d) ==
    SumOver([f \in fs |-> FillOpen(f, t, d)], fs)
    + SumOver([x \in ss |-> SettledShares(x, t, d)], ss)
Money(fs, cs, ss, d) ==
    InitialCash + SumOver([c \in cs |-> CreditCash(c, d)], cs)
    + SumOver([x \in ss |-> SettledCash(x, d)], ss)
    + SumOver([f \in fs |-> FillCash(f, d)], fs)

\* The names with a position row by the close of d.
Rows(fs, ss, d) ==
    {f.ticker : f \in {g \in fs : g.side = "buy" /\ g.day <= d}}
    \cup {x.into : x \in {y \in ss : y.ratio > 0 /\ y.eff <= d}}

-----------------------------------------------------------------------------
(* The inductive invariant.                                                *)

Fill == [order : Nat, ticker : Tickers, side : {"buy", "sell"},
         qty : Nat \ {0}, px : Nat \ {0}, day : Days]
Credit == [ticker : Tickers, ex : Days, qty : Nat]
Settlement == [ticker : Tickers, qty : Nat, price : Nat, into : Tickers,
               ratio : Nat, eff : 1 .. LastDay + 1, auto : BOOLEAN]

Records(fs, cs, ss) ==
    /\ IsFiniteSet(fs) /\ fs \subseteq Fill
    /\ IsFiniteSet(cs) /\ cs \subseteq Credit
    /\ IsFiniteSet(ss) /\ ss \subseteq Settlement

Printed(bs, t, d) == bs[d][t].px > 0

\* No event is later than session n; a fill is on a bar; a settled name had a
\* row before, and an acquirer traded since.
Placed(bs, fs, cs, ss, n) ==
    /\ \A f \in fs : f.day <= n /\ Printed(bs, f.ticker, f.day)
    /\ \A c \in cs : c.ex <= n
    /\ \A x \in ss : /\ x.eff <= n /\ x.ticker \in Rows(fs, ss, x.eff - 1)
                     /\ x.ratio > 0 => /\ x.into # x.ticker
                                       /\ \E d \in Days : d >= x.eff /\ Printed(bs, x.into, d)

\* On no session does the replay run out of cash or of shares to sell.
Solvent(fs, cs, ss) ==
    \A d \in 0 .. LastDay + 1 :
        /\ Money(fs, cs, ss, d) >= 0
        /\ \A t \in Tickers : OpenShares(fs, ss, t, d) >= 0

\* The book shows what the events add up to.
Balanced(fs, cs, ss, c, p) ==
    /\ c = Money(fs, cs, ss, LastDay + 1)
    /\ p = [t \in Tickers |-> Shares(fs, ss, t, LastDay + 1)]

\* A dividend is credited once, for what the fills left before its ex-date.
PaidOnce(fs, cs, ss) ==
    /\ \A c, e \in cs : c.ticker = e.ticker /\ c.ex = e.ex => c = e
    /\ ss = {} => \A c \in cs : c.qty = Shares(fs, ss, c.ticker, c.ex - 1)

Ledger(bs, fs, cs, ss, c, p, n) ==
    /\ Records(fs, cs, ss) /\ Placed(bs, fs, cs, ss, n)
    /\ Solvent(fs, cs, ss) /\ Balanced(fs, cs, ss, c, p) /\ PaidOnce(fs, cs, ss)

LastOf(eq) == IF eq = {} THEN 0 ELSE Max(eq)

Market ==
    /\ bars \in [Days -> [Tickers -> BarChoices \cup {NoBar}]]
    /\ \A d \in Days, t \in Tickers : d > latest => bars[d][t] = NoBar
    /\ published \subseteq Dividends /\ IsFiniteSet(published)

\* The buys put off to the last phase can all be executed.
BuysReady ==
    /\ \A i \in tx.buys : /\ orders[i].side = "buy" /\ Traded(orders[i].ticker, tx.day)
                          /\ orders[i].qty * bars[tx.day][orders[i].ticker].px
                                <= bars[tx.day][orders[i].ticker].cap
    /\ tx.phase = "buy" => tx.budget \in Nat /\ (tx.buys # {} => tx.wanted \in Nat \ {0})

LedgerInTx ==
    /\ Ledger(bars, tx.saved.fills, tx.saved.credits, tx.saved.settlements,
              tx.saved.cash, tx.saved.pos, LastOf(tx.saved.equity))
    /\ Ledger(bars, fills, credits, settlements, cash, pos, tx.day)
    /\ tx.phase \in {"dividends", "closeout"} => \A f \in fills : f.day < tx.day
    /\ tx.phase = "fill" => \A f \in fills : f.side = "buy" => f.day < tx.day
    /\ tx.phase \in {"fill", "buy"} => BuysReady
    /\ tx.phase \in {"closeout", "fill"} =>
          \A x \in Unpaid : Shares(fills, settlements, x[1], x[2] - 1) = 0

LedgerInv ==
    /\ Market
    /\ IF tx = Idle THEN Ledger(bars, fills, credits, settlements, cash, pos, LastStep)
       ELSE LedgerInTx

\* What is honest of the fills of a book.
HonestIn(bs, os, fs) ==
    \A f \in fs :
        LET b == bs[f.day][f.ticker]
        IN /\ f.ticker = os[f.order].ticker /\ f.side = os[f.order].side
           /\ f.day > os[f.order].sig
           /\ f.px = IF f.side = "buy" THEN BuyPx(b) ELSE SellPx(b)
           /\ f.qty <= os[f.order].qty /\ f.qty * b.px <= b.cap

HonestInv ==
    /\ HonestIn(bars, orders, fills)
    /\ tx # Idle => HonestIn(bars, tx.saved.orders, tx.saved.fills)

-----------------------------------------------------------------------------
(* The sums over the records.                                              *)

LEMMA DaysNat == LastDay \in Nat /\ Days \subseteq Nat /\ InitialCash \in Nat
BY LeagueAssumption DEF Days

LEMMA FillInts ==
  ASSUME NEW f \in Fill, NEW t, NEW d \in Int
  PROVE  /\ f.qty \in Nat \ {0} /\ f.px \in Nat \ {0} /\ f.day \in Nat /\ f.ticker \in Tickers
         /\ f.side \in {"buy", "sell"} /\ f.qty * f.px \in Nat
         /\ FillShares(f, t, d) \in Int /\ FillOpen(f, t, d) \in Int /\ FillCash(f, d) \in Int
<1>1. /\ f.qty \in Nat \ {0} /\ f.px \in Nat \ {0} /\ f.day \in Nat /\ f.ticker \in Tickers
      /\ f.side \in {"buy", "sell"}
  BY DaysNat DEF Fill
<1>2. f.qty * f.px \in Nat
  BY <1>1
<1>3. Way(f) \in {1, -1}
  BY DEF Way
<1>4. Way(f) * f.qty \in Int /\ -(Way(f) * (f.qty * f.px)) \in Int
  BY <1>1, <1>2, <1>3
<1>5. QED
  BY <1>1, <1>2, <1>4 DEF FillShares, FillOpen, FillCash

LEMMA SettledInts ==
  ASSUME NEW x \in Settlement, NEW t, NEW d \in Int
  PROVE  /\ x.qty \in Nat /\ x.price \in Nat /\ x.ratio \in Nat /\ x.eff \in Nat /\ x.eff > 0
         /\ x.ticker \in Tickers /\ x.into \in Tickers
         /\ x.qty * x.ratio \in Nat /\ x.qty * x.price \in Nat
         /\ SettledShares(x, t, d) \in Int /\ SettledCash(x, d) \in Nat
<1>1. /\ x.qty \in Nat /\ x.price \in Nat /\ x.ratio \in Nat /\ x.eff \in Nat /\ x.eff > 0
      /\ x.ticker \in Tickers /\ x.into \in Tickers
  BY DaysNat DEF Settlement
<1>2. x.qty * x.ratio \in Nat /\ x.qty * x.price \in Nat
  BY <1>1
<1>3. QED
  BY <1>1, <1>2 DEF SettledShares, SettledCash

LEMMA CreditInts ==
  ASSUME NEW c \in Credit, NEW d \in Int
  PROVE  /\ c.qty \in Nat /\ c.ex \in Nat /\ c.ex > 0 /\ c.ex \in Days /\ c.ticker \in Tickers
         /\ CreditCash(c, d) \in Nat
<1>1. c.qty \in Nat /\ c.ex \in Days /\ c.ticker \in Tickers
  BY DEF Credit
<1>2. c.ex \in Nat /\ c.ex > 0
  BY <1>1, DaysNat DEF Days
<1>3. QED
  BY <1>1, <1>2 DEF CreditCash

LEMMA SumsTyped ==
  ASSUME NEW fs, NEW cs, NEW ss, Records(fs, cs, ss), NEW t, NEW d \in Int
  PROVE  /\ SumOver([f \in fs |-> FillShares(f, t, d)], fs) \in Int
         /\ SumOver([f \in fs |-> FillOpen(f, t, d)], fs) \in Int
         /\ SumOver([f \in fs |-> FillCash(f, d)], fs) \in Int
         /\ SumOver([x \in ss |-> SettledShares(x, t, d)], ss) \in Int
         /\ SumOver([x \in ss |-> SettledCash(x, d)], ss) \in Nat
         /\ SumOver([c \in cs |-> CreditCash(c, d)], cs) \in Nat
         /\ Shares(fs, ss, t, d) \in Int /\ OpenShares(fs, ss, t, d) \in Int
         /\ Money(fs, cs, ss, d) \in Int
<1>1. IsFiniteSet(fs) /\ IsFiniteSet(cs) /\ IsFiniteSet(ss)
      /\ (\A f \in fs : f \in Fill) /\ (\A x \in ss : x \in Settlement) /\ \A c \in cs : c \in Credit
  BY DEF Records
<1> DEFINE a == [f \in fs |-> FillShares(f, t, d)]
           b == [f \in fs |-> FillOpen(f, t, d)]
           m == [f \in fs |-> FillCash(f, d)]
           s == [x \in ss |-> SettledShares(x, t, d)]
           q == [x \in ss |-> SettledCash(x, d)]
           e == [c \in cs |-> CreditCash(c, d)]
<1>2. \A f \in fs : a[f] \in Int /\ b[f] \in Int /\ m[f] \in Int
  BY <1>1, FillInts
<1>3. \A x \in ss : s[x] \in Int /\ q[x] \in Nat
  BY <1>1, SettledInts
<1>4. \A c \in cs : e[c] \in Nat
  BY <1>1, CreditInts
<1> HIDE DEF a, b, m, s, q, e
<1>5. /\ SumOver(a, fs) \in Int /\ SumOver(b, fs) \in Int /\ SumOver(m, fs) \in Int
      /\ SumOver(s, ss) \in Int
  BY <1>1, <1>2, <1>3, SumInt
<1>6. SumOver(q, ss) \in Nat /\ SumOver(e, cs) \in Nat
  BY <1>1, <1>3, <1>4, SumNat
<1>7. InitialCash \in Nat
  BY DaysNat
<1>8. QED
  BY <1>5, <1>6, <1>7 DEF a, b, m, s, q, e, Shares, OpenShares, Money

\* A fill more, a settlement more, more credits.
LEMMA FillAdds ==
  ASSUME NEW fs, NEW cs, NEW ss, Records(fs, cs, ss), NEW f \in Fill, f \notin fs,
         NEW t, NEW d \in Int
  PROVE  /\ Shares(fs \cup {f}, ss, t, d) = Shares(fs, ss, t, d) + FillShares(f, t, d)
         /\ OpenShares(fs \cup {f}, ss, t, d) = OpenShares(fs, ss, t, d) + FillOpen(f, t, d)
         /\ Money(fs \cup {f}, cs, ss, d) = Money(fs, cs, ss, d) + FillCash(f, d)
<1> DEFINE R == fs \cup {f}
           aR == [g \in R |-> FillShares(g, t, d)]
           aF == [g \in fs |-> FillShares(g, t, d)]
           bR == [g \in R |-> FillOpen(g, t, d)]
           bF == [g \in fs |-> FillOpen(g, t, d)]
           mR == [g \in R |-> FillCash(g, d)]
           mF == [g \in fs |-> FillCash(g, d)]
<1>1. IsFiniteSet(fs) /\ \A g \in R : g \in Fill
  BY DEF Records
<1>2. \A g \in R : aR[g] \in Int /\ bR[g] \in Int /\ mR[g] \in Int
  BY <1>1, FillInts
<1>3. \A g \in fs : aF[g] = aR[g] /\ bF[g] = bR[g] /\ mF[g] = mR[g]
  OBVIOUS
<1>4. aR[f] = FillShares(f, t, d) /\ bR[f] = FillOpen(f, t, d) /\ mR[f] = FillCash(f, d)
  OBVIOUS
<1>5. /\ SumOver(aR, R) = SumOver(aF, fs) + aR[f]
      /\ SumOver(bR, R) = SumOver(bF, fs) + bR[f]
      /\ SumOver(mR, R) = SumOver(mF, fs) + mR[f]
  <2> HIDE DEF aR, aF, bR, bF, mR, mF, R
  <2>0. R = fs \cup {f}
    BY DEF R
  <2>1. /\ \A g \in fs \cup {f} : aR[g] \in Int /\ bR[g] \in Int /\ mR[g] \in Int
        /\ \A g \in fs : aF[g] = aR[g] /\ bF[g] = bR[g] /\ mF[g] = mR[g]
    BY <1>2, <1>3, <2>0
  <2>2. SumOver(aR, fs \cup {f}) = SumOver(aF, fs) + aR[f]
    <3>1. \A g \in fs \cup {f} : aR[g] \in Int
      BY <2>1
    <3>2. \A g \in fs : aF[g] = aR[g]
      BY <2>1
    <3>3. IsFiniteSet(fs) /\ f \notin fs
      BY <1>1
    <3>4. QED
      BY <3>1, <3>2, <3>3, SumGrows
  <2>3. SumOver(bR, fs \cup {f}) = SumOver(bF, fs) + bR[f]
    <3>1. \A g \in fs \cup {f} : bR[g] \in Int
      BY <2>1
    <3>2. \A g \in fs : bF[g] = bR[g]
      BY <2>1
    <3>3. IsFiniteSet(fs) /\ f \notin fs
      BY <1>1
    <3>4. QED
      BY <3>1, <3>2, <3>3, SumGrows
  <2>4. SumOver(mR, fs \cup {f}) = SumOver(mF, fs) + mR[f]
    <3>1. \A g \in fs \cup {f} : mR[g] \in Int
      BY <2>1
    <3>2. \A g \in fs : mF[g] = mR[g]
      BY <2>1
    <3>3. IsFiniteSet(fs) /\ f \notin fs
      BY <1>1
    <3>4. QED
      BY <3>1, <3>2, <3>3, SumGrows
  <2>5. QED
    BY <2>0, <2>2, <2>3, <2>4
<1>6. /\ SumOver(aF, fs) \in Int /\ SumOver(bF, fs) \in Int /\ SumOver(mF, fs) \in Int
      /\ SumOver([x \in ss |-> SettledShares(x, t, d)], ss) \in Int
      /\ SumOver([x \in ss |-> SettledCash(x, d)], ss) \in Int
      /\ SumOver([c \in cs |-> CreditCash(c, d)], cs) \in Int /\ InitialCash \in Int
  BY SumsTyped, DaysNat
<1>7. FillShares(f, t, d) \in Int /\ FillOpen(f, t, d) \in Int /\ FillCash(f, d) \in Int
  BY FillInts
<1>8. Shares(R, ss, t, d) = Shares(fs, ss, t, d) + FillShares(f, t, d)
  BY <1>4, <1>5, <1>6, <1>7 DEF Shares
<1>9. OpenShares(R, ss, t, d) = OpenShares(fs, ss, t, d) + FillOpen(f, t, d)
  BY <1>4, <1>5, <1>6, <1>7 DEF OpenShares
<1>10. Money(R, cs, ss, d) = Money(fs, cs, ss, d) + FillCash(f, d)
  BY <1>4, <1>5, <1>6, <1>7 DEF Money
<1>11. QED
  BY <1>8, <1>9, <1>10

LEMMA SettlementAdds ==
  ASSUME NEW fs, NEW cs, NEW ss, Records(fs, cs, ss), NEW x \in Settlement, x \notin ss,
         NEW t, NEW d \in Int
  PROVE  /\ Shares(fs, ss \cup {x}, t, d) = Shares(fs, ss, t, d) + SettledShares(x, t, d)
         /\ OpenShares(fs, ss \cup {x}, t, d) = OpenShares(fs, ss, t, d) + SettledShares(x, t, d)
         /\ Money(fs, cs, ss \cup {x}, d) = Money(fs, cs, ss, d) + SettledCash(x, d)
<1> DEFINE R == ss \cup {x}
           aR == [g \in R |-> SettledShares(g, t, d)]
           aF == [g \in ss |-> SettledShares(g, t, d)]
           mR == [g \in R |-> SettledCash(g, d)]
           mF == [g \in ss |-> SettledCash(g, d)]
<1>1. IsFiniteSet(ss) /\ \A g \in R : g \in Settlement
  BY DEF Records
<1>2. \A g \in R : aR[g] \in Int /\ mR[g] \in Int
  <2>1. ASSUME NEW g \in R PROVE SettledShares(g, t, d) \in Int /\ SettledCash(g, d) \in Int
    <3>1. g \in Settlement
      BY <1>1
    <3>2. SettledShares(g, t, d) \in Int /\ SettledCash(g, d) \in Nat
      BY <3>1, SettledInts
    <3>3. QED
      BY <3>2
  <2>2. QED
    BY <2>1
<1>3. \A g \in ss : aF[g] = aR[g] /\ mF[g] = mR[g]
  OBVIOUS
<1>4. aR[x] = SettledShares(x, t, d) /\ mR[x] = SettledCash(x, d)
  OBVIOUS
<1>5. /\ SumOver(aR, R) = SumOver(aF, ss) + aR[x]
      /\ SumOver(mR, R) = SumOver(mF, ss) + mR[x]
  <2> HIDE DEF aR, aF, mR, mF, R
  <2>0. R = ss \cup {x}
    BY DEF R
  <2>1. /\ \A g \in ss \cup {x} : aR[g] \in Int /\ mR[g] \in Int
        /\ \A g \in ss : aF[g] = aR[g] /\ mF[g] = mR[g]
    BY <1>2, <1>3, <2>0
  <2>2. SumOver(aR, ss \cup {x}) = SumOver(aF, ss) + aR[x]
    <3>1. \A g \in ss \cup {x} : aR[g] \in Int
      BY <2>1
    <3>2. \A g \in ss : aF[g] = aR[g]
      BY <2>1
    <3>3. IsFiniteSet(ss) /\ x \notin ss
      BY <1>1
    <3>4. QED
      BY <3>1, <3>2, <3>3, SumGrows
  <2>4. SumOver(mR, ss \cup {x}) = SumOver(mF, ss) + mR[x]
    <3>1. \A g \in ss \cup {x} : mR[g] \in Int
      BY <2>1
    <3>2. \A g \in ss : mF[g] = mR[g]
      BY <2>1
    <3>3. IsFiniteSet(ss) /\ x \notin ss
      BY <1>1
    <3>4. QED
      BY <3>1, <3>2, <3>3, SumGrows
  <2>5. QED
    BY <2>0, <2>2, <2>4
<1>6. /\ SumOver(aF, ss) \in Int /\ SumOver(mF, ss) \in Int
      /\ SumOver([f \in fs |-> FillShares(f, t, d)], fs) \in Int
      /\ SumOver([f \in fs |-> FillOpen(f, t, d)], fs) \in Int
      /\ SumOver([f \in fs |-> FillCash(f, d)], fs) \in Int
      /\ SumOver([c \in cs |-> CreditCash(c, d)], cs) \in Int /\ InitialCash \in Int
  BY SumsTyped, DaysNat
<1>7. SettledShares(x, t, d) \in Int /\ SettledCash(x, d) \in Int
  BY SettledInts
<1>8. Shares(fs, R, t, d) = Shares(fs, ss, t, d) + SettledShares(x, t, d)
  BY <1>4, <1>5, <1>6, <1>7 DEF Shares
<1>9. OpenShares(fs, R, t, d) = OpenShares(fs, ss, t, d) + SettledShares(x, t, d)
  BY <1>4, <1>5, <1>6, <1>7 DEF OpenShares
<1>10. Money(fs, cs, R, d) = Money(fs, cs, ss, d) + SettledCash(x, d)
  BY <1>4, <1>5, <1>6, <1>7 DEF Money
<1>11. QED
  BY <1>8, <1>9, <1>10

LEMMA CreditsAdd ==
  ASSUME NEW fs, NEW cs, NEW ss, Records(fs, cs, ss), NEW new, IsFiniteSet(new),
         \A c \in new : c \in Credit, cs \cap new = {}, NEW d \in Int
  PROVE  /\ SumOver([c \in new |-> CreditCash(c, d)], new) \in Nat
         /\ Money(fs, cs \cup new, ss, d)
              = Money(fs, cs, ss, d) + SumOver([c \in new |-> CreditCash(c, d)], new)
<1> DEFINE R == cs \cup new
           m(F) == [c \in F |-> CreditCash(c, d)]
<1>1. IsFiniteSet(cs) /\ IsFiniteSet(new) /\ \A c \in R : c \in Credit
  BY DEF Records
<1>2. \A c \in R : m(R)[c] \in Int /\ m(R)[c] \in Nat
  BY <1>1, CreditInts
<1>3. (\A c \in cs : m(cs)[c] = m(R)[c]) /\ (\A c \in new : m(new)[c] = m(R)[c])
  OBVIOUS
<1>4. SumOver(m(R), R) = SumOver(m(cs), cs) + SumOver(m(new), new) /\ SumOver(m(new), new) \in Nat
  <2> HIDE DEF m
  <2>1. \A c \in cs \cup new : m(R)[c] \in Int /\ m(R)[c] \in Nat
    BY <1>2
  <2>2. SumOver(m(R), cs \cup new) = SumOver(m(R), cs) + SumOver(m(R), new)
    BY <1>1, <2>1, SumUnion
  <2>3. SumOver(m(R), cs) = SumOver(m(cs), cs)
    <3>1. \A c \in cs : m(R)[c] \in Int /\ m(R)[c] = m(cs)[c]
      BY <1>3, <2>1
    <3>2. QED
      BY <1>1, <3>1, SumSame
  <2>4. SumOver(m(R), new) = SumOver(m(new), new)
    <3>1. \A c \in new : m(R)[c] \in Int /\ m(R)[c] = m(new)[c]
      BY <1>3, <2>1
    <3>2. QED
      BY <1>1, <3>1, SumSame
  <2>5. \A c \in new : m(new)[c] \in Nat
    BY <1>3, <2>1
  <2>6. SumOver(m(new), new) \in Nat
    BY <1>1, <2>5, SumNat
  <2>7. QED
    BY <2>2, <2>3, <2>4, <2>6
<1>5. /\ SumOver(m(cs), cs) \in Int
      /\ SumOver([f \in fs |-> FillCash(f, d)], fs) \in Int
      /\ SumOver([x \in ss |-> SettledCash(x, d)], ss) \in Int /\ InitialCash \in Int
  <2>1. /\ SumOver([f \in fs |-> FillCash(f, d)], fs) \in Int
        /\ SumOver([x \in ss |-> SettledCash(x, d)], ss) \in Nat
        /\ SumOver([c \in cs |-> CreditCash(c, d)], cs) \in Nat
    BY SumsTyped
  <2>2. QED
    BY <2>1, DaysNat
<1>6. QED
  BY <1>4, <1>5 DEF Money

\* Sessions, fills and settlements that make no difference.
LEMMA SharesSame ==
  ASSUME NEW fs, NEW cs, NEW ss, Records(fs, cs, ss), NEW t, NEW d \in Int, NEW e \in Int
  PROVE  /\ (/\ \A f \in fs : FillShares(f, t, d) = FillShares(f, t, e)
             /\ \A x \in ss : SettledShares(x, t, d) = SettledShares(x, t, e))
            => Shares(fs, ss, t, d) = Shares(fs, ss, t, e)
         /\ (/\ \A f \in fs : FillOpen(f, t, d) = FillShares(f, t, e)
             /\ \A x \in ss : SettledShares(x, t, d) = SettledShares(x, t, e))
            => OpenShares(fs, ss, t, d) = Shares(fs, ss, t, e)
         /\ (/\ \A f \in fs : FillOpen(f, t, d) = FillShares(f, t, e)
             /\ \A x \in ss : SettledShares(x, t, d) >= SettledShares(x, t, e))
            => OpenShares(fs, ss, t, d) >= Shares(fs, ss, t, e)
         /\ (/\ \A f \in fs : FillOpen(f, t, d) <= FillShares(f, t, d))
            => OpenShares(fs, ss, t, d) <= Shares(fs, ss, t, d)
         /\ (/\ \A f \in fs : FillCash(f, d) = FillCash(f, e)
             /\ \A x \in ss : SettledCash(x, d) = SettledCash(x, e)
             /\ \A c \in cs : CreditCash(c, d) = CreditCash(c, e))
            => Money(fs, cs, ss, d) = Money(fs, cs, ss, e)
<1> DEFINE a(k) == [f \in fs |-> FillShares(f, t, k)]
           b(k) == [f \in fs |-> FillOpen(f, t, k)]
           m(k) == [f \in fs |-> FillCash(f, k)]
           s(k) == [x \in ss |-> SettledShares(x, t, k)]
           q(k) == [x \in ss |-> SettledCash(x, k)]
           u(k) == [c \in cs |-> CreditCash(c, k)]
<1>0. IsFiniteSet(fs) /\ IsFiniteSet(cs) /\ IsFiniteSet(ss)
      /\ (\A f \in fs : f \in Fill) /\ (\A x \in ss : x \in Settlement) /\ \A c \in cs : c \in Credit
  BY DEF Records
<1>1. /\ \A f \in fs : a(d)[f] \in Int /\ b(d)[f] \in Int /\ m(d)[f] \in Int
                       /\ a(e)[f] \in Int /\ m(e)[f] \in Int
      /\ \A x \in ss : s(d)[x] \in Int /\ q(d)[x] \in Int /\ s(e)[x] \in Int /\ q(e)[x] \in Int
      /\ \A c \in cs : u(d)[c] \in Int /\ u(e)[c] \in Int
  <2>1. \A f \in fs : a(d)[f] \in Int /\ b(d)[f] \in Int /\ m(d)[f] \in Int
                       /\ a(e)[f] \in Int /\ m(e)[f] \in Int
    BY <1>0, FillInts
  <2>2. \A x \in ss : s(d)[x] \in Int /\ q(d)[x] \in Int /\ s(e)[x] \in Int /\ q(e)[x] \in Int
    BY <1>0, SettledInts
  <2>3. \A c \in cs : u(d)[c] \in Int /\ u(e)[c] \in Int
    BY <1>0, CreditInts
  <2>4. QED
    BY <2>1, <2>2, <2>3
<1>2. /\ SumOver(a(d), fs) \in Int /\ SumOver(b(d), fs) \in Int /\ SumOver(a(e), fs) \in Int
      /\ SumOver(s(d), ss) \in Int /\ SumOver(s(e), ss) \in Int
  BY SumsTyped
<1>3. ASSUME \A f \in fs : FillShares(f, t, d) = FillShares(f, t, e)
      PROVE  SumOver(a(d), fs) = SumOver(a(e), fs)
  <2>1. \A f \in fs : a(d)[f] \in Int /\ a(d)[f] = a(e)[f]
    BY <1>1, <1>3
  <2> HIDE DEF a
  <2>2. QED
    BY <1>0, <2>1, SumSame
<1>4. ASSUME \A f \in fs : FillOpen(f, t, d) = FillShares(f, t, e)
      PROVE  SumOver(b(d), fs) = SumOver(a(e), fs)
  <2>1. \A f \in fs : b(d)[f] \in Int /\ b(d)[f] = a(e)[f]
    BY <1>1, <1>4
  <2> HIDE DEF a, b
  <2>2. QED
    BY <1>0, <2>1, SumSame
<1>5. ASSUME \A x \in ss : SettledShares(x, t, d) = SettledShares(x, t, e)
      PROVE  SumOver(s(d), ss) = SumOver(s(e), ss)
  <2>1. \A x \in ss : s(d)[x] \in Int /\ s(d)[x] = s(e)[x]
    BY <1>1, <1>5
  <2> HIDE DEF s
  <2>2. QED
    BY <1>0, <2>1, SumSame
<1>6. ASSUME \A x \in ss : SettledShares(x, t, d) >= SettledShares(x, t, e)
      PROVE  SumOver(s(d), ss) >= SumOver(s(e), ss)
  <2>1. \A x \in ss : s(e)[x] \in Int /\ s(d)[x] \in Int /\ s(e)[x] <= s(d)[x]
    BY <1>1, <1>6
  <2>2. SumOver(s(e), ss) <= SumOver(s(d), ss)
    <3> HIDE DEF s
    <3>1. QED
      BY <1>0, <2>1, SumLeq
  <2>3. QED
    BY <1>2, <2>2
<1>7. ASSUME \A f \in fs : FillOpen(f, t, d) <= FillShares(f, t, d)
      PROVE  SumOver(b(d), fs) <= SumOver(a(d), fs)
  <2>1. \A f \in fs : b(d)[f] \in Int /\ a(d)[f] \in Int /\ b(d)[f] <= a(d)[f]
    BY <1>1, <1>7
  <2> HIDE DEF a, b
  <2>2. QED
    BY <1>0, <2>1, SumLeq
<1>8. ASSUME \A f \in fs : FillCash(f, d) = FillCash(f, e),
             \A x \in ss : SettledCash(x, d) = SettledCash(x, e),
             \A c \in cs : CreditCash(c, d) = CreditCash(c, e)
      PROVE  Money(fs, cs, ss, d) = Money(fs, cs, ss, e)
  <2>1. /\ \A f \in fs : m(d)[f] \in Int /\ m(d)[f] = m(e)[f]
        /\ \A x \in ss : q(d)[x] \in Int /\ q(d)[x] = q(e)[x]
        /\ \A c \in cs : u(d)[c] \in Int /\ u(d)[c] = u(e)[c]
    BY <1>1, <1>8
  <2>2. SumOver(m(d), fs) = SumOver(m(e), fs) /\ SumOver(q(d), ss) = SumOver(q(e), ss)
        /\ SumOver(u(d), cs) = SumOver(u(e), cs)
    <3> HIDE DEF m, q, u
    <3>1. QED
      BY <1>0, <2>1, SumSame
  <2>3. QED
    BY <2>2 DEF Money
<1>9. QED
  <2>1. /\ Shares(fs, ss, t, d) = SumOver(a(d), fs) + SumOver(s(d), ss)
        /\ Shares(fs, ss, t, e) = SumOver(a(e), fs) + SumOver(s(e), ss)
        /\ OpenShares(fs, ss, t, d) = SumOver(b(d), fs) + SumOver(s(d), ss)
    BY DEF Shares, OpenShares
  <2> HIDE DEF a, b, s
  <2>2. QED
    BY <1>2, <1>3, <1>4, <1>5, <1>6, <1>7, <1>8, <2>1

-----------------------------------------------------------------------------
(* The replay.                                                             *)

Start == [ok |-> TRUE, cash |-> InitialCash, rows |-> {}, pos |-> [t \in Tickers |-> 0]]
ClosesUpTo(g, n, fs, cs, ss) ==
    g = [d \in 0 .. n |-> IF d = 0 THEN Start ELSE ReplayDay(g[d - 1], d, fs, cs, ss)]

LEMMA ClosesExist ==
  ASSUME NEW fs, NEW cs, NEW ss
  PROVE  \A n \in 0 .. LastDay + 1 : \E g : ClosesUpTo(g, n, fs, cs, ss)
<1> DEFINE N == LastDay + 1
           S == {n \in 0 .. N : \E g : ClosesUpTo(g, n, fs, cs, ss)}
           Day(s, d) == ReplayDay(s, d, fs, cs, ss)
<1>0. N \in Nat
  BY DaysNat
<1>1. 0 \in S
  <2> DEFINE g == [d \in 0 .. 0 |-> Start]
  <2>1. ClosesUpTo(g, 0, fs, cs, ss)
    <3>1. \A d \in 0 .. 0 : d = 0
      OBVIOUS
    <3>2. QED
      BY <3>1 DEF ClosesUpTo
  <2>2. QED
    BY <1>0, <2>1
<1>2. ASSUME NEW n \in 1 .. N, n - 1 \in S PROVE n \in S
  <2>0. n \in Nat /\ n - 1 \in Nat /\ n # 0 /\ n - 1 # n /\ n - 1 \in 0 .. n
        /\ n \in 0 .. N /\ n \in 0 .. n
    BY <1>0
  <2>1. PICK f : ClosesUpTo(f, n - 1, fs, cs, ss)
    BY <1>2
  <2> DEFINE g == [d \in 0 .. n |-> IF d = n THEN Day(f[n - 1], n) ELSE f[d]]
  <2>2. ASSUME NEW d \in 0 .. n
        PROVE  g[d] = IF d = 0 THEN Start ELSE Day(g[d - 1], d)
    <3>1. CASE d = n
      <4>1. g[n] = Day(f[n - 1], n) /\ g[n - 1] = f[n - 1]
        BY <2>0
      <4>2. QED
        BY <2>0, <3>1, <4>1
    <3>2. CASE d # n
      <4>1. d \in 0 .. n - 1 /\ (d # 0 => d - 1 \in 0 .. n /\ d - 1 # n)
        BY <2>0, <3>2
      <4>2. f[d] = IF d = 0 THEN Start ELSE Day(f[d - 1], d)
        BY <2>1, <4>1 DEF ClosesUpTo
      <4>3. g[d] = f[d] /\ (d # 0 => g[d - 1] = f[d - 1])
        BY <3>2, <4>1
      <4> HIDE DEF Day, g
      <4>4. QED
        BY <4>2, <4>3
    <3>3. QED
      BY <3>1, <3>2
  <2>3. ClosesUpTo(g, n, fs, cs, ss)
    <3> DEFINE h == [d \in 0 .. n |-> IF d = 0 THEN Start ELSE Day(g[d - 1], d)]
    <3>1. g = h
      <4>1. g = [d \in 0 .. n |-> g[d]] /\ h = [d \in 0 .. n |-> h[d]]
        OBVIOUS
      <4>2. \A d \in 0 .. n : g[d] = h[d]
        <5> HIDE DEF g, Day
        <5>1. QED
          BY <2>2
      <4>3. QED
        BY <4>1, <4>2
    <3>2. QED
      BY <3>1 DEF ClosesUpTo
  <2>4. QED
    <3> HIDE DEF g
    <3>1. QED
      BY <2>0, <2>3
<1>3. S = 0 .. N
  <2> HIDE DEF S, N
  <2>1. S \in SUBSET (0 .. N)
    BY DEF S
  <2>2. QED
    BY <1>0, <1>1, <1>2, <2>1, Positions
<1>4. QED
  BY <1>3

LEMMA ReplaySteps ==
  ASSUME NEW fs, NEW cs, NEW ss
  PROVE  /\ Replay(fs, cs, ss, 0) = Start
         /\ \A d \in 1 .. LastDay + 1 :
              Replay(fs, cs, ss, d) = ReplayDay(Replay(fs, cs, ss, d - 1), d, fs, cs, ss)
<1> DEFINE N == LastDay + 1
           h == CHOOSE g : ClosesUpTo(g, N, fs, cs, ss)
<1>0. N \in Nat /\ N \in 0 .. N
  BY DaysNat
<1>1. \E g : ClosesUpTo(g, N, fs, cs, ss)
  BY <1>0, ClosesExist
<1>2. ClosesUpTo(h, N, fs, cs, ss)
  BY <1>1
<1>3. \A d : Replay(fs, cs, ss, d) = h[d]
  BY DEF Replay, ClosesUpTo, Start
<1> HIDE DEF h
<1>4. h = [d \in 0 .. N |-> IF d = 0 THEN Start ELSE ReplayDay(h[d - 1], d, fs, cs, ss)]
  BY <1>2 DEF ClosesUpTo
<1>5. h[0] = Start
  BY <1>0, <1>4
<1>6. ASSUME NEW d \in 1 .. N PROVE h[d] = ReplayDay(h[d - 1], d, fs, cs, ss)
  <2>1. d \in 0 .. N /\ d # 0
    BY <1>0
  <2>2. QED
    BY <1>4, <2>1
<1>7. QED
  BY <1>3, <1>5, <1>6

\* The events of one session.
SoldOn(fs, d) == {f \in fs : f.day = d /\ f.side = "sell"}
BoughtOn(fs, d) == {f \in fs : f.day = d /\ f.side = "buy"}
BookedOn(ss, d) == {x \in ss : x.eff = d}
PaidOn(cs, d) == {c \in cs : c.ex = d}
Named(S, t) == {x \in S : x.ticker = t}
QtySum(S) == SumOver([x \in S |-> x.qty], S)
GrossSum(S) == SumOver([x \in S |-> x.qty * x.px], S)
Got(S, t) == {x \in S : x.into = t}
InSum(S) == SumOver([x \in S |-> x.qty * x.ratio], S)
PriceSum(S) == SumOver([x \in S |-> x.qty * x.price], S)

LEMMA FillDay ==
  ASSUME NEW fs, IsFiniteSet(fs), \A f \in fs : f \in Fill, NEW t, NEW d \in Int
  PROVE  /\ QtySum(Named(SoldOn(fs, d), t)) \in Nat /\ QtySum(Named(BoughtOn(fs, d), t)) \in Nat
         /\ SumOver([f \in fs |-> FillOpen(f, t, d)], fs)
              = SumOver([f \in fs |-> FillShares(f, t, d - 1)], fs) - QtySum(Named(SoldOn(fs, d), t))
         /\ SumOver([f \in fs |-> FillShares(f, t, d)], fs)
              = SumOver([f \in fs |-> FillOpen(f, t, d)], fs) + QtySum(Named(BoughtOn(fs, d), t))
<1> DEFINE S == Named(SoldOn(fs, d), t)
           B == Named(BoughtOn(fs, d), t)
           s == [f \in S |-> f.qty]
           b == [f \in B |-> f.qty]
           sa == [f \in fs |-> IF f \in S THEN f.qty ELSE 0]
           ba == [f \in fs |-> IF f \in B THEN f.qty ELSE 0]
           y == [f \in fs |-> FillShares(f, t, d - 1)]
           o == [f \in fs |-> FillOpen(f, t, d)]
           z == [f \in fs |-> FillShares(f, t, d)]
<1>0. d - 1 \in Int /\ S \in SUBSET fs /\ B \in SUBSET fs
  BY DEF Named, SoldOn, BoughtOn
<1>1. ASSUME NEW f \in fs
      PROVE  /\ y[f] \in Int /\ o[f] \in Int /\ z[f] \in Int /\ sa[f] \in Int /\ ba[f] \in Int
             /\ o[f] = y[f] - sa[f] /\ z[f] = o[f] + ba[f]
  <2>1. /\ f.qty \in Nat /\ f.day \in Nat /\ f.side \in {"buy", "sell"}
        /\ FillShares(f, t, d) \in Int /\ FillOpen(f, t, d) \in Int
    BY FillInts
  <2>2. FillShares(f, t, d - 1) \in Int
    BY <1>0, FillInts
  <2>3. f \in S <=> f.day = d /\ f.side = "sell" /\ f.ticker = t
    BY DEF Named, SoldOn
  <2>4. f \in B <=> f.day = d /\ f.side = "buy" /\ f.ticker = t
    BY DEF Named, BoughtOn
  <2>5. FillOpen(f, t, d) = FillShares(f, t, d - 1) - (IF f \in S THEN f.qty ELSE 0)
    <3> HIDE DEF S
    <3>1. QED
      BY <2>1, <2>3 DEF FillOpen, FillShares, Way
  <2>6. FillShares(f, t, d) = FillOpen(f, t, d) + (IF f \in B THEN f.qty ELSE 0)
    <3> HIDE DEF B
    <3>1. QED
      BY <2>1, <2>4 DEF FillOpen, FillShares, Way
  <2>7. QED
    BY <2>1, <2>2, <2>5, <2>6
<1>2. (\A f \in S : s[f] \in Int /\ s[f] \in Nat /\ sa[f] = s[f]) /\ \A f \in fs \ S : sa[f] = 0
  BY <1>0, FillInts
<1>3. (\A f \in B : b[f] \in Int /\ b[f] \in Nat /\ ba[f] = b[f]) /\ \A f \in fs \ B : ba[f] = 0
  BY <1>0, FillInts
<1>4. SumOver(s, S) = QtySum(Named(SoldOn(fs, d), t)) /\ SumOver(b, B) = QtySum(Named(BoughtOn(fs, d), t))
  BY DEF QtySum
<1> HIDE DEF S, B, s, b, sa, ba, y, o, z
<1>5. SumOver(s, S) = SumOver(sa, fs) /\ SumOver(b, B) = SumOver(ba, fs)
  BY <1>0, <1>2, <1>3, SumPart
<1>6. SumOver(o, fs) = SumOver(y, fs) - SumOver(sa, fs)
  BY <1>1, SumMinus
<1>7. SumOver(z, fs) = SumOver(o, fs) + SumOver(ba, fs)
  BY <1>1, SumPlus
<1>8. SumOver(s, S) \in Nat /\ SumOver(b, B) \in Nat
  <2>1. IsFiniteSet(S) /\ IsFiniteSet(B)
    BY <1>0, FS_Subset
  <2>2. QED
    BY <1>2, <1>3, <2>1, SumNat
<1>9. QED
  BY <1>4, <1>5, <1>6, <1>7, <1>8 DEF y, o, z

LEMMA CashDay ==
  ASSUME NEW fs, IsFiniteSet(fs), \A f \in fs : f \in Fill, NEW d \in Int
  PROVE  /\ GrossSum(SoldOn(fs, d)) \in Int /\ GrossSum(BoughtOn(fs, d)) \in Int
         /\ SumOver([f \in fs |-> FillCash(f, d)], fs)
              = (SumOver([f \in fs |-> FillCash(f, d - 1)], fs) + GrossSum(SoldOn(fs, d)))
                - GrossSum(BoughtOn(fs, d))
<1> DEFINE S == SoldOn(fs, d)
           B == BoughtOn(fs, d)
           s == [f \in S |-> f.qty * f.px]
           b == [f \in B |-> f.qty * f.px]
           sa == [f \in fs |-> IF f \in S THEN f.qty * f.px ELSE 0]
           ba == [f \in fs |-> IF f \in B THEN f.qty * f.px ELSE 0]
           y == [f \in fs |-> FillCash(f, d - 1)]
           o == [f \in fs |-> y[f] + sa[f]]
           z == [f \in fs |-> FillCash(f, d)]
<1>0. d - 1 \in Int /\ S \in SUBSET fs /\ B \in SUBSET fs
  BY DEF SoldOn, BoughtOn
<1>1. ASSUME NEW f \in fs
      PROVE  /\ y[f] \in Int /\ sa[f] \in Int /\ ba[f] \in Int
             /\ o[f] = y[f] + sa[f] /\ o[f] \in Int /\ z[f] = o[f] - ba[f]
  <2>1. f.qty * f.px \in Nat /\ f.day \in Nat /\ f.side \in {"buy", "sell"}
    BY FillInts
  <2>2. FillCash(f, d - 1) \in Int
    BY <1>0, FillInts
  <2>3. f \in S <=> f.day = d /\ f.side = "sell"
    BY DEF SoldOn
  <2>4. f \in B <=> f.day = d /\ f.side = "buy"
    BY DEF BoughtOn
  <2>5. FillCash(f, d) = (FillCash(f, d - 1) + (IF f \in S THEN f.qty * f.px ELSE 0))
                          - (IF f \in B THEN f.qty * f.px ELSE 0)
    <3> HIDE DEF S, B
    <3>1. PICK g \in Nat : g = f.qty * f.px
      BY <2>1
    <3>2. QED
      BY <2>1, <2>3, <2>4, <3>1 DEF FillCash, Way
  <2>6. QED
    BY <2>1, <2>2, <2>5
<1>2. (\A f \in S : s[f] \in Int /\ sa[f] = s[f]) /\ \A f \in fs \ S : sa[f] = 0
  BY <1>0, FillInts
<1>3. (\A f \in B : b[f] \in Int /\ ba[f] = b[f]) /\ \A f \in fs \ B : ba[f] = 0
  BY <1>0, FillInts
<1>4. SumOver(s, S) = GrossSum(SoldOn(fs, d)) /\ SumOver(b, B) = GrossSum(BoughtOn(fs, d))
  BY DEF GrossSum
<1> HIDE DEF S, B, s, b, sa, ba, y, o, z
<1>5. SumOver(s, S) = SumOver(sa, fs) /\ SumOver(b, B) = SumOver(ba, fs)
  BY <1>0, <1>2, <1>3, SumPart
<1>6. SumOver(o, fs) = SumOver(y, fs) + SumOver(sa, fs)
  BY <1>1, SumPlus
<1>7. SumOver(z, fs) = SumOver(o, fs) - SumOver(ba, fs)
  BY <1>1, SumMinus
<1>8. SumOver(sa, fs) \in Int /\ SumOver(ba, fs) \in Int
  BY <1>1, SumInt
<1>9. QED
  BY <1>4, <1>5, <1>6, <1>7, <1>8 DEF y, z

LEMMA SettledDay ==
  ASSUME NEW ss, IsFiniteSet(ss), \A x \in ss : x \in Settlement, NEW t, NEW d \in Int
  PROVE  /\ InSum(Got(BookedOn(ss, d), t)) \in Int
         /\ QtySum(Named(BookedOn(ss, d), t)) \in Int /\ PriceSum(BookedOn(ss, d)) \in Int
         /\ SumOver([x \in ss |-> SettledShares(x, t, d)], ss)
              = (SumOver([x \in ss |-> SettledShares(x, t, d - 1)], ss)
                 - QtySum(Named(BookedOn(ss, d), t))) + InSum(Got(BookedOn(ss, d), t))
         /\ SumOver([x \in ss |-> SettledCash(x, d)], ss)
              = SumOver([x \in ss |-> SettledCash(x, d - 1)], ss) + PriceSum(BookedOn(ss, d))
<1> DEFINE K == BookedOn(ss, d)
           S == Named(K, t)
           B == Got(K, t)
           s == [x \in S |-> x.qty]
           b == [x \in B |-> x.qty * x.ratio]
           k == [x \in K |-> x.qty * x.price]
           sa == [x \in ss |-> IF x \in S THEN x.qty ELSE 0]
           ba == [x \in ss |-> IF x \in B THEN x.qty * x.ratio ELSE 0]
           ka == [x \in ss |-> IF x \in K THEN x.qty * x.price ELSE 0]
           y == [x \in ss |-> SettledShares(x, t, d - 1)]
           o == [x \in ss |-> y[x] - sa[x]]
           z == [x \in ss |-> SettledShares(x, t, d)]
           v == [x \in ss |-> SettledCash(x, d - 1)]
           w == [x \in ss |-> SettledCash(x, d)]
<1>0. d - 1 \in Int /\ S \in SUBSET ss /\ B \in SUBSET ss /\ K \in SUBSET ss
  BY DEF Named, BookedOn, Got
<1>1. ASSUME NEW x \in ss
      PROVE  /\ y[x] \in Int /\ sa[x] \in Int /\ ba[x] \in Int /\ ka[x] \in Int /\ v[x] \in Int
             /\ o[x] = y[x] - sa[x] /\ o[x] \in Int /\ z[x] = o[x] + ba[x] /\ w[x] = v[x] + ka[x]
  <2>1. x.qty \in Nat /\ x.qty * x.ratio \in Nat /\ x.qty * x.price \in Nat /\ x.eff \in Nat
    BY SettledInts
  <2>2. SettledShares(x, t, d - 1) \in Int /\ SettledCash(x, d - 1) \in Nat
    BY <1>0, SettledInts
  <2>3. (x \in S <=> x.eff = d /\ x.ticker = t) /\ (x \in B <=> x.eff = d /\ x.into = t)
        /\ (x \in K <=> x.eff = d)
    BY DEF Named, BookedOn, Got
  <2>4. PICK g \in Nat, h \in Nat, q \in Nat : g = x.qty * x.ratio /\ h = x.qty * x.price /\ q = x.qty
    BY <2>1
  <2>5. SettledShares(x, t, d) = (SettledShares(x, t, d - 1) - (IF x \in S THEN x.qty ELSE 0))
                                 + (IF x \in B THEN x.qty * x.ratio ELSE 0)
    <3> HIDE DEF S, B, K
    <3>1. QED
      BY <2>1, <2>3, <2>4 DEF SettledShares
  <2>6. SettledCash(x, d) = SettledCash(x, d - 1) + (IF x \in K THEN x.qty * x.price ELSE 0)
    <3> HIDE DEF S, B, K
    <3>1. QED
      BY <2>1, <2>3, <2>4 DEF SettledCash
  <2>7. QED
    BY <2>1, <2>2, <2>5, <2>6
<1>2. (\A x \in S : s[x] \in Int /\ sa[x] = s[x]) /\ \A x \in ss \ S : sa[x] = 0
  BY <1>0, SettledInts
<1>3. (\A x \in B : b[x] \in Int /\ ba[x] = b[x]) /\ \A x \in ss \ B : ba[x] = 0
  <2>1. \A x \in ss : x.qty * x.ratio \in Nat
    BY SettledInts
  <2>2. QED
    BY <1>0, <2>1
<1>4. (\A x \in K : k[x] \in Int /\ ka[x] = k[x]) /\ \A x \in ss \ K : ka[x] = 0
  BY <1>0, SettledInts
<1>5. /\ SumOver(s, S) = QtySum(Named(K, t)) /\ SumOver(b, B) = InSum(Got(K, t))
      /\ SumOver(k, K) = PriceSum(K)
  BY DEF QtySum, InSum, PriceSum
<1> HIDE DEF K, S, B, s, b, k, sa, ba, ka, y, o, z, v, w
<1>6. SumOver(s, S) = SumOver(sa, ss) /\ SumOver(b, B) = SumOver(ba, ss)
      /\ SumOver(k, K) = SumOver(ka, ss)
  BY <1>0, <1>2, <1>3, <1>4, SumPart
<1>7. SumOver(o, ss) = SumOver(y, ss) - SumOver(sa, ss)
  BY <1>1, SumMinus
<1>8. SumOver(z, ss) = SumOver(o, ss) + SumOver(ba, ss)
  BY <1>1, SumPlus
<1>9. SumOver(w, ss) = SumOver(v, ss) + SumOver(ka, ss)
  BY <1>1, SumPlus
<1>10. SumOver(sa, ss) \in Int /\ SumOver(ba, ss) \in Int /\ SumOver(ka, ss) \in Int
  BY <1>1, SumInt
<1>11. QED
  BY <1>5, <1>6, <1>7, <1>8, <1>9, <1>10 DEF K, y, z, v, w

LEMMA CreditDay ==
  ASSUME NEW cs, IsFiniteSet(cs), \A c \in cs : c \in Credit, NEW d \in Int
  PROVE  /\ QtySum(PaidOn(cs, d)) \in Int
         /\ SumOver([c \in cs |-> CreditCash(c, d)], cs)
              = SumOver([c \in cs |-> CreditCash(c, d - 1)], cs) + QtySum(PaidOn(cs, d))
<1> DEFINE K == PaidOn(cs, d)
           k == [x \in K |-> x.qty]
           ka == [x \in cs |-> IF x \in K THEN x.qty ELSE 0]
           v == [x \in cs |-> CreditCash(x, d - 1)]
           w == [x \in cs |-> CreditCash(x, d)]
<1>0. d - 1 \in Int /\ K \in SUBSET cs
  BY DEF PaidOn
<1>1. ASSUME NEW x \in cs
      PROVE  ka[x] \in Int /\ v[x] \in Int /\ w[x] = v[x] + ka[x]
  <2>1. x.qty \in Nat /\ x.ex \in Nat
    BY CreditInts
  <2>2. CreditCash(x, d - 1) \in Nat
    BY <1>0, CreditInts
  <2>3. x \in K <=> x.ex = d
    BY DEF PaidOn
  <2>4. CreditCash(x, d) = CreditCash(x, d - 1) + (IF x \in K THEN x.qty ELSE 0)
    <3> HIDE DEF K
    <3>1. QED
      BY <2>1, <2>3 DEF CreditCash
  <2>5. QED
    BY <2>1, <2>2, <2>4
<1>2. (\A x \in K : k[x] \in Int /\ ka[x] = k[x]) /\ \A x \in cs \ K : ka[x] = 0
  BY <1>0, CreditInts
<1>3. SumOver(k, K) = QtySum(PaidOn(cs, d))
  BY DEF QtySum
<1> HIDE DEF K, k, ka, v, w
<1>4. SumOver(k, K) = SumOver(ka, cs)
  BY <1>0, <1>2, SumPart
<1>5. SumOver(w, cs) = SumOver(v, cs) + SumOver(ka, cs)
  BY <1>1, SumPlus
<1>6. SumOver(ka, cs) \in Int
  BY <1>1, SumInt
<1>7. QED
  BY <1>3, <1>4, <1>5, <1>6 DEF v, w

\* One day of the replay, as sums over its events.
LEMMA ReplayDayIs ==
  ASSUME NEW s, NEW d, NEW fs, NEW cs, NEW ss
  PROVE  LET r == ReplayDay(s, d, fs, cs, ss)
             booked == BookedOn(ss, d)
             In(t) == InSum(Got(booked, t))
             Opened(t) == (s.pos[t] - (IF t \in s.rows THEN QtySum(Named(booked, t)) ELSE 0)) + In(t)
             rich == ((s.cash + QtySum(PaidOn(cs, d))) + PriceSum(booked))
                     + GrossSum(SoldOn(fs, d))
             cost == GrossSum(BoughtOn(fs, d))
         IN /\ r.cash = rich - cost
            /\ r.rows = s.rows \cup {f.ticker : f \in BoughtOn(fs, d)}
                               \cup {x.into : x \in {y \in booked : y.ratio > 0}}
            /\ r.pos = [t \in Tickers |->
                          (Opened(t) - QtySum(Named(SoldOn(fs, d), t)))
                          + QtySum(Named(BoughtOn(fs, d), t))]
            /\ (/\ s.ok
                /\ \A f \in SoldOn(fs, d) :
                     f.ticker \in Tickers
                     /\ QtySum(Named(SoldOn(fs, d), f.ticker)) <= Opened(f.ticker)
                /\ \A f \in BoughtOn(fs, d) :
                     f.ticker \in Tickers
                     /\ Opened(f.ticker) - QtySum(Named(SoldOn(fs, d), f.ticker)) >= 0
                /\ cost <= rich) => r.ok
<1> DEFINE paid == {c \in cs : c.ex = d}
           booked == {x \in ss : x.eff = d}
           sold == {f \in fs : f.day = d /\ f.side = "sell"}
           bought == {f \in fs : f.day = d /\ f.side = "buy"}
           Qty(S, t) == SumOver([x \in {y \in S : y.ticker = t} |-> x.qty], {y \in S : y.ticker = t})
           into(t) == {x \in booked : x.into = t}
           In(t) == SumOver([x \in into(t) |-> x.qty * x.ratio], into(t))
           open == [t \in Tickers |->
                     s.pos[t] - (IF t \in s.rows THEN Qty(booked, t) ELSE 0) + In(t)]
           rich == s.cash + SumOver([c \in paid |-> c.qty], paid)
                   + SumOver([x \in booked |-> x.qty * x.price], booked)
                   + SumOver([f \in sold |-> f.qty * f.px], sold)
           cost == SumOver([f \in bought |-> f.qty * f.px], bought)
           r == ReplayDay(s, d, fs, cs, ss)
<1>1. r = [ok |-> /\ s.ok
                  /\ \A f \in sold : Qty(sold, f.ticker) <= open[f.ticker]
                  /\ \A f \in bought : open[f.ticker] - Qty(sold, f.ticker) >= 0
                  /\ bought # {} => cost <= rich,
           cash |-> rich - cost,
           rows |-> s.rows \cup {f.ticker : f \in bought}
                           \cup {x.into : x \in {y \in booked : y.ratio > 0}},
           pos |-> [t \in Tickers |-> open[t] - Qty(sold, t) + Qty(bought, t)]]
  BY DEF ReplayDay, Sum, Conversions
<1>2. /\ paid = PaidOn(cs, d) /\ booked = BookedOn(ss, d)
      /\ sold = SoldOn(fs, d) /\ bought = BoughtOn(fs, d)
  BY DEF PaidOn, BookedOn, SoldOn, BoughtOn
<1>3. \A S, t : Qty(S, t) = QtySum(Named(S, t))
  BY DEF QtySum, Named
<1>4. /\ SumOver([c \in paid |-> c.qty], paid) = QtySum(paid)
      /\ SumOver([f \in sold |-> f.qty * f.px], sold) = GrossSum(sold)
      /\ cost = GrossSum(bought)
      /\ SumOver([x \in booked |-> x.qty * x.price], booked) = PriceSum(booked)
      /\ \A t : In(t) = InSum(Got(booked, t))
  BY DEF QtySum, GrossSum, PriceSum, InSum, Got
<1> HIDE DEF r, paid, sold, bought, Qty, In, booked, cost
<1>5. /\ r.cash = rich - cost
      /\ r.rows = s.rows \cup {f.ticker : f \in bought}
                         \cup {x.into : x \in {y \in booked : y.ratio > 0}}
      /\ r.pos = [t \in Tickers |-> open[t] - Qty(sold, t) + Qty(bought, t)]
      /\ (/\ s.ok /\ (\A f \in sold : Qty(sold, f.ticker) <= open[f.ticker])
          /\ (\A f \in bought : open[f.ticker] - Qty(sold, f.ticker) >= 0)
          /\ cost <= rich) => r.ok
  BY <1>1
<1>6. /\ \A t \in Tickers : open[t] =
            (s.pos[t] - (IF t \in s.rows THEN QtySum(Named(booked, t)) ELSE 0)) + In(t)
      /\ rich = ((s.cash + QtySum(paid)) + PriceSum(booked)) + GrossSum(sold)
  BY <1>3, <1>4
<1> HIDE DEF open, rich
<1>7. r.pos = [t \in Tickers |-> (open[t] - QtySum(Named(sold, t))) + QtySum(Named(bought, t))]
  BY <1>3, <1>5
<1>8. (/\ s.ok /\ (\A f \in sold : QtySum(Named(sold, f.ticker)) <= open[f.ticker])
       /\ (\A f \in bought : open[f.ticker] - QtySum(Named(sold, f.ticker)) >= 0)
       /\ cost <= rich) => r.ok
  BY <1>3, <1>5
<1> DEFINE Opened(t) == (s.pos[t] - (IF t \in s.rows THEN QtySum(Named(booked, t)) ELSE 0)) + InSum(Got(booked, t))
<1>9. /\ r.pos = [t \in Tickers |-> (Opened(t) - QtySum(Named(sold, t))) + QtySum(Named(bought, t))]
      /\ (/\ s.ok
          /\ (\A f \in sold : f.ticker \in Tickers /\ QtySum(Named(sold, f.ticker)) <= Opened(f.ticker))
          /\ (\A f \in bought : f.ticker \in Tickers
                                /\ Opened(f.ticker) - QtySum(Named(sold, f.ticker)) >= 0)
          /\ cost <= rich) => r.ok
  <2>1. \A t \in Tickers : open[t] = Opened(t)
    BY <1>4, <1>6
  <2> HIDE DEF Opened
  <2>2. QED
    BY <1>7, <1>8, <2>1
<1>10. QED
  BY <1>2, <1>4, <1>5, <1>6, <1>9 DEF r

PartsInt(fs, ss, t, d) ==
    /\ SumOver([f \in fs |-> FillShares(f, t, d)], fs) \in Int
    /\ SumOver([f \in fs |-> FillOpen(f, t, d)], fs) \in Int
    /\ SumOver([x \in ss |-> SettledShares(x, t, d)], ss) \in Int

LEMMA PartsTyped ==
  ASSUME NEW fs, NEW cs, NEW ss, Records(fs, cs, ss), NEW t, NEW d \in Int
  PROVE  PartsInt(fs, ss, t, d)
BY SumsTyped DEF PartsInt

\* The positions the events leave at the close of d.
HeldAt(fs, ss, d) == [t \in Tickers |-> Shares(fs, ss, t, d)]

LEMMA ReplayDayMeans ==
  ASSUME NEW fs, NEW cs, NEW ss, Records(fs, cs, ss), NEW d \in 1 .. LastDay + 1, NEW s,
         \A x \in ss : x.ticker \in Rows(fs, ss, x.eff - 1),
         s.cash = Money(fs, cs, ss, d - 1), s.rows = Rows(fs, ss, d - 1),
         s.pos = HeldAt(fs, ss, d - 1)
  PROVE  LET r == ReplayDay(s, d, fs, cs, ss)
         IN /\ r.cash = Money(fs, cs, ss, d) /\ r.rows = Rows(fs, ss, d)
            /\ r.pos = HeldAt(fs, ss, d)
            /\ (/\ s.ok /\ Money(fs, cs, ss, d) >= 0
                /\ \A t \in Tickers : OpenShares(fs, ss, t, d) >= 0) => r.ok
<1> DEFINE booked == BookedOn(ss, d)
           In(t) == InSum(Got(booked, t))
           Opened(t) == (s.pos[t] - (IF t \in s.rows THEN QtySum(Named(booked, t)) ELSE 0)) + In(t)
           price == PriceSum(booked)
           rich == ((s.cash + QtySum(PaidOn(cs, d))) + price) + GrossSum(SoldOn(fs, d))
           cost == GrossSum(BoughtOn(fs, d))
           r == ReplayDay(s, d, fs, cs, ss)
<1>0. /\ IsFiniteSet(fs) /\ IsFiniteSet(cs) /\ IsFiniteSet(ss)
      /\ (\A f \in fs : f \in Fill) /\ (\A x \in ss : x \in Settlement) /\ (\A c \in cs : c \in Credit)
      /\ d \in Int /\ d - 1 \in Int
  BY DaysNat DEF Records
<1>1. /\ r.cash = rich - cost
      /\ r.rows = s.rows \cup {f.ticker : f \in BoughtOn(fs, d)}
                         \cup {x.into : x \in {y \in booked : y.ratio > 0}}
      /\ r.pos = [t \in Tickers |->
                    (Opened(t) - QtySum(Named(SoldOn(fs, d), t))) + QtySum(Named(BoughtOn(fs, d), t))]
      /\ (/\ s.ok
          /\ \A f \in SoldOn(fs, d) :
               f.ticker \in Tickers /\ QtySum(Named(SoldOn(fs, d), f.ticker)) <= Opened(f.ticker)
          /\ \A f \in BoughtOn(fs, d) :
               f.ticker \in Tickers
               /\ Opened(f.ticker) - QtySum(Named(SoldOn(fs, d), f.ticker)) >= 0
          /\ cost <= rich) => r.ok
  BY ReplayDayIs
<1>2. ASSUME NEW t \in Tickers
      PROVE  /\ Opened(t) - QtySum(Named(SoldOn(fs, d), t)) = OpenShares(fs, ss, t, d)
             /\ OpenShares(fs, ss, t, d) + QtySum(Named(BoughtOn(fs, d), t)) = Shares(fs, ss, t, d)
             /\ Opened(t) \in Int /\ QtySum(Named(SoldOn(fs, d), t)) \in Int
             /\ OpenShares(fs, ss, t, d) \in Int
  <2> DEFINE a == SumOver([f \in fs |-> FillShares(f, t, d - 1)], fs)
             b == SumOver([f \in fs |-> FillOpen(f, t, d)], fs)
             c == SumOver([f \in fs |-> FillShares(f, t, d)], fs)
             y == SumOver([x \in ss |-> SettledShares(x, t, d - 1)], ss)
             z == SumOver([x \in ss |-> SettledShares(x, t, d)], ss)
             so == QtySum(Named(SoldOn(fs, d), t))
             bo == QtySum(Named(BoughtOn(fs, d), t))
             qt == QtySum(Named(booked, t))
             nt == In(t)
  <2>1. so \in Nat /\ bo \in Nat /\ b = a - so /\ c = b + bo
    BY <1>0, FillDay
  <2>2. nt \in Int /\ qt \in Int /\ z = (y - qt) + nt
    BY <1>0, SettledDay
  <2>3. a \in Int /\ b \in Int /\ y \in Int /\ z \in Int
    <3> HIDE DEF a, b, c, y, z
    <3>1. PartsInt(fs, ss, t, d - 1) /\ PartsInt(fs, ss, t, d)
      BY <1>0, PartsTyped
    <3>2. QED
      BY <3>1 DEF PartsInt, a, b, y, z
  <2>4. t \notin s.rows => qt = 0
    <3> SUFFICES ASSUME t \notin Rows(fs, ss, d - 1) PROVE qt = 0
      OBVIOUS
    <3>1. Named(booked, t) = {}
      <4> SUFFICES ASSUME NEW x \in Named(booked, t) PROVE FALSE
        OBVIOUS
      <4>1. x \in ss /\ x.eff = d /\ x.ticker = t
        BY DEF Named, BookedOn
      <4>2. QED
        BY <4>1
    <3>2. QED
      BY <3>1, SumNone DEF QtySum
  <2>5. s.pos[t] = a + y
    BY DEF Shares, HeldAt
  <2>6. OpenShares(fs, ss, t, d) = b + z /\ Shares(fs, ss, t, d) = c + z
    BY DEF OpenShares, Shares
  <2>7. Opened(t) = (s.pos[t] - (IF t \in s.rows THEN qt ELSE 0)) + nt
    OBVIOUS
  <2> HIDE DEF a, b, c, y, z, so, bo, qt, nt, Opened
  <2>8. Opened(t) = ((a + y) - qt) + nt
    BY <2>2, <2>3, <2>4, <2>5, <2>7
  <2>9. so \in Int /\ Opened(t) \in Int /\ Opened(t) - so = b + z /\ (b + z) + bo = c + z
    BY <2>1, <2>2, <2>3, <2>8
  <2>10. QED
    BY <2>3, <2>6, <2>9 DEF so, bo
<1>3. rich - cost = Money(fs, cs, ss, d) /\ rich \in Int /\ cost \in Int
  <2> DEFINE f1 == SumOver([f \in fs |-> FillCash(f, d - 1)], fs)
             f2 == SumOver([f \in fs |-> FillCash(f, d)], fs)
             x1 == SumOver([x \in ss |-> SettledCash(x, d - 1)], ss)
             x2 == SumOver([x \in ss |-> SettledCash(x, d)], ss)
             c1 == SumOver([c \in cs |-> CreditCash(c, d - 1)], cs)
             c2 == SumOver([c \in cs |-> CreditCash(c, d)], cs)
             so == GrossSum(SoldOn(fs, d))
             pd == QtySum(PaidOn(cs, d))
  <2>1. so \in Int /\ cost \in Int /\ f2 = (f1 + so) - cost
    BY <1>0, CashDay
  <2>2. price \in Int /\ x2 = x1 + price
    BY <1>0, SettledDay
  <2>3. pd \in Int /\ c2 = c1 + pd
    BY <1>0, CreditDay
  <2>4. f1 \in Int /\ x1 \in Nat /\ c1 \in Nat /\ InitialCash \in Nat
    BY <1>0, SumsTyped, DaysNat
  <2>5. s.cash = ((InitialCash + c1) + x1) + f1 /\ Money(fs, cs, ss, d) = ((InitialCash + c2) + x2) + f2
    BY DEF Money
  <2>6. rich = ((s.cash + pd) + price) + so
    OBVIOUS
  <2> HIDE DEF f1, f2, x1, x2, c1, c2, so, pd, rich, cost, price
  <2>7. QED
    BY <2>1, <2>2, <2>3, <2>4, <2>5, <2>6
<1>4. r.rows = Rows(fs, ss, d)
  <2>1. {f.ticker : f \in {g \in fs : g.side = "buy" /\ g.day <= d}}
          = {f.ticker : f \in {g \in fs : g.side = "buy" /\ g.day <= d - 1}}
            \cup {f.ticker : f \in BoughtOn(fs, d)}
    <3>1. \A f \in fs : f.day \in Nat
      BY <1>0, FillInts
    <3>2. {g \in fs : g.side = "buy" /\ g.day <= d}
            = {g \in fs : g.side = "buy" /\ g.day <= d - 1} \cup BoughtOn(fs, d)
      BY <1>0, <3>1 DEF BoughtOn
    <3>3. QED
      BY <3>2
  <2>2. {x.into : x \in {y \in ss : y.ratio > 0 /\ y.eff <= d}}
          = {x.into : x \in {y \in ss : y.ratio > 0 /\ y.eff <= d - 1}}
            \cup {x.into : x \in {y \in booked : y.ratio > 0}}
    <3>1. \A x \in ss : x.eff \in Nat
      BY <1>0, SettledInts
    <3>2. {y \in ss : y.ratio > 0 /\ y.eff <= d}
            = {y \in ss : y.ratio > 0 /\ y.eff <= d - 1} \cup {y \in booked : y.ratio > 0}
      BY <1>0, <3>1 DEF BookedOn
    <3>3. QED
      BY <3>2
  <2> HIDE DEF booked, r
  <2>3. QED
    BY <1>1, <2>1, <2>2 DEF Rows
<1>5. r.pos = HeldAt(fs, ss, d)
  <2> HIDE DEF r, Opened
  <2>1. \A t \in Tickers : (Opened(t) - QtySum(Named(SoldOn(fs, d), t)))
                           + QtySum(Named(BoughtOn(fs, d), t)) = Shares(fs, ss, t, d)
    BY <1>2
  <2>2. QED
    BY <1>1, <2>1 DEF HeldAt
<1>6. ASSUME s.ok, Money(fs, cs, ss, d) >= 0, \A t \in Tickers : OpenShares(fs, ss, t, d) >= 0
      PROVE  r.ok
  <2> HIDE DEF r, Opened, rich, cost
  <2>1. cost <= rich
    BY <1>3, <1>6
  <2>2. \A f \in SoldOn(fs, d) \cup BoughtOn(fs, d) : f.ticker \in Tickers
    BY <1>0, FillInts DEF SoldOn, BoughtOn
  <2>3. \A t \in Tickers : /\ QtySum(Named(SoldOn(fs, d), t)) <= Opened(t)
                           /\ Opened(t) - QtySum(Named(SoldOn(fs, d), t)) >= 0
    BY <1>2, <1>6
  <2>4. QED
    BY <1>1, <1>6, <2>1, <2>2, <2>3
<1>7. QED
  BY <1>1, <1>3, <1>4, <1>5, <1>6

\* The replay of a sound book is the sums over its events, and refuses nothing.
LEMMA ReplayMeans ==
  ASSUME NEW fs, NEW cs, NEW ss, Records(fs, cs, ss), Solvent(fs, cs, ss),
         \A x \in ss : x.ticker \in Rows(fs, ss, x.eff - 1)
  PROVE  \A d \in 0 .. LastDay + 1 :
            /\ Replay(fs, cs, ss, d).ok = TRUE
            /\ Replay(fs, cs, ss, d).cash = Money(fs, cs, ss, d)
            /\ Replay(fs, cs, ss, d).rows = Rows(fs, ss, d)
            /\ Replay(fs, cs, ss, d).pos = HeldAt(fs, ss, d)
<1> DEFINE N == LastDay + 1
           Is(d) == /\ Replay(fs, cs, ss, d).ok = TRUE
                    /\ Replay(fs, cs, ss, d).cash = Money(fs, cs, ss, d)
                    /\ Replay(fs, cs, ss, d).rows = Rows(fs, ss, d)
                    /\ Replay(fs, cs, ss, d).pos = HeldAt(fs, ss, d)
           S == {d \in 0 .. N : Is(d)}
<1>0. N \in Nat /\ 0 \in 0 .. N
  BY DaysNat
<1>1. 0 \in S
  <2>1. Replay(fs, cs, ss, 0) = Start
    BY ReplaySteps
  <2>2. /\ IsFiniteSet(fs) /\ IsFiniteSet(cs) /\ IsFiniteSet(ss)
        /\ (\A f \in fs : f \in Fill) /\ (\A x \in ss : x \in Settlement) /\ \A c \in cs : c \in Credit
    BY DEF Records
  <2>3. \A f \in fs : ~ (f.day <= 0)
    BY <2>2, DaysNat DEF Fill, Days
  <2>4. \A x \in ss : ~ (x.eff <= 0)
    BY <2>2, SettledInts
  <2>5. \A c \in cs : ~ (c.ex <= 0)
    BY <2>2, CreditInts
  <2>6. Rows(fs, ss, 0) = {}
    BY <2>3, <2>4 DEF Rows
  <2>7. ASSUME NEW t \in Tickers PROVE Shares(fs, ss, t, 0) = 0
    <3> DEFINE a == [f \in fs |-> FillShares(f, t, 0)]
               b == [x \in ss |-> SettledShares(x, t, 0)]
    <3>1. (\A f \in fs : a[f] = 0) /\ \A x \in ss : b[x] = 0
      BY <2>3, <2>4 DEF FillShares, SettledShares
    <3>2. SumOver(a, fs) = 0 /\ SumOver(b, ss) = 0
      <4> HIDE DEF a, b
      <4>1. QED
        BY <2>2, <3>1, SumZero
    <3>3. QED
      BY <3>2 DEF Shares
  <2>8. Money(fs, cs, ss, 0) = InitialCash
    <3> DEFINE a == [f \in fs |-> FillCash(f, 0)]
               b == [x \in ss |-> SettledCash(x, 0)]
               c == [x \in cs |-> CreditCash(x, 0)]
    <3>1. (\A f \in fs : a[f] = 0) /\ (\A x \in ss : b[x] = 0) /\ \A x \in cs : c[x] = 0
      BY <2>3, <2>4, <2>5 DEF FillCash, SettledCash, CreditCash
    <3>2. SumOver(a, fs) = 0 /\ SumOver(b, ss) = 0 /\ SumOver(c, cs) = 0
      <4> HIDE DEF a, b, c
      <4>1. QED
        BY <2>2, <3>1, SumZero
    <3>3. QED
      BY <3>2, DaysNat DEF Money
  <2>9. Start.ok = TRUE /\ Start.cash = InitialCash /\ Start.rows = {}
        /\ Start.pos = [t \in Tickers |-> 0]
    BY DEF Start
  <2>10. [t \in Tickers |-> 0] = HeldAt(fs, ss, 0)
    BY <2>7 DEF HeldAt
  <2>11. QED
    BY <1>0, <2>1, <2>6, <2>8, <2>9, <2>10
<1>2. ASSUME NEW d \in 1 .. N, d - 1 \in S PROVE d \in S
  <2> DEFINE s == Replay(fs, cs, ss, d - 1)
  <2>1. d \in 0 .. N /\ Is(d - 1)
    BY <1>0, <1>2
  <2>2. Replay(fs, cs, ss, d) = ReplayDay(s, d, fs, cs, ss)
    BY ReplaySteps
  <2>3. Money(fs, cs, ss, d) >= 0 /\ \A t \in Tickers : OpenShares(fs, ss, t, d) >= 0
    BY <2>1 DEF Solvent
  <2>4. s.ok /\ s.cash = Money(fs, cs, ss, d - 1) /\ s.rows = Rows(fs, ss, d - 1)
        /\ s.pos = HeldAt(fs, ss, d - 1)
    BY <2>1
  <2> HIDE DEF s
  <2> DEFINE r == ReplayDay(s, d, fs, cs, ss)
  <2>5. /\ r.cash = Money(fs, cs, ss, d) /\ r.rows = Rows(fs, ss, d)
        /\ r.pos = HeldAt(fs, ss, d) /\ r.ok
    BY <2>3, <2>4, ReplayDayMeans
  <2>6. r.ok = TRUE
    <3>1. r.ok \in BOOLEAN
      BY DEF ReplayDay
    <3>2. QED
      BY <2>5, <3>1
  <2>7. QED
    BY <2>1, <2>2, <2>5, <2>6
<1>3. S = 0 .. N
  <2> HIDE DEF S, N
  <2>1. S \in SUBSET (0 .. N)
    BY DEF S
  <2>2. QED
    BY <1>0, <1>1, <1>2, <2>1, Positions
<1>4. QED
  BY <1>3

-----------------------------------------------------------------------------
(* What a sound book comes to.                                             *)

LEMMA RecordsMean ==
  ASSUME NEW fs, NEW cs, NEW ss, Records(fs, cs, ss)
  PROVE  /\ IsFiniteSet(fs) /\ IsFiniteSet(cs) /\ IsFiniteSet(ss)
         /\ (\A f \in fs : f \in Fill) /\ (\A x \in ss : x \in Settlement)
         /\ \A c \in cs : c \in Credit
BY DEF Records

\* The buys of a session only add to what it opened with.
LEMMA OpenBelow ==
  ASSUME NEW fs, NEW cs, NEW ss, Records(fs, cs, ss), NEW t, NEW d \in Int
  PROVE  OpenShares(fs, ss, t, d) <= Shares(fs, ss, t, d)
<1>1. \A f \in fs : FillOpen(f, t, d) <= FillShares(f, t, d)
  <2> SUFFICES ASSUME NEW f \in fs PROVE FillOpen(f, t, d) <= FillShares(f, t, d)
    OBVIOUS
  <2>1. f.qty \in Nat /\ f.day \in Nat /\ f.side \in {"buy", "sell"}
    BY RecordsMean, FillInts
  <2>2. QED
    BY <2>1 DEF FillOpen, FillShares, Way
<1>2. QED
  BY <1>1, SharesSame

\* Neither shares nor cash run out at any close.
LEMMA NeverBelowZero ==
  ASSUME NEW fs, NEW cs, NEW ss, Records(fs, cs, ss), Solvent(fs, cs, ss),
         NEW d \in 0 .. LastDay + 1
  PROVE  Money(fs, cs, ss, d) \in Nat /\ \A t \in Tickers : Shares(fs, ss, t, d) \in Nat
<1>0. d \in Int
  BY DaysNat
<1>1. Money(fs, cs, ss, d) \in Nat
  <2>1. Money(fs, cs, ss, d) \in Int
    BY <1>0, SumsTyped
  <2>2. Money(fs, cs, ss, d) >= 0
    BY DEF Solvent
  <2>3. QED
    BY <2>1, <2>2
<1>2. ASSUME NEW t \in Tickers PROVE Shares(fs, ss, t, d) \in Nat
  <2>2. OpenShares(fs, ss, t, d) <= Shares(fs, ss, t, d)
    BY <1>0, OpenBelow
  <2>3. OpenShares(fs, ss, t, d) \in Int /\ Shares(fs, ss, t, d) \in Int
    BY <1>0, SumsTyped
  <2>4. OpenShares(fs, ss, t, d) >= 0
    BY DEF Solvent
  <2>5. QED
    BY <2>2, <2>3, <2>4
<1>3. QED
  BY <1>1, <1>2

\* From the last event on nothing moves.
LEMMA BookEnds ==
  ASSUME NEW bs, NEW fs, NEW cs, NEW ss, NEW c, NEW p, NEW n \in 0 .. LastDay,
         Ledger(bs, fs, cs, ss, c, p, n), NEW d \in n .. LastDay + 1
  PROVE  /\ c = Money(fs, cs, ss, d) /\ c \in Nat
         /\ \A t \in Tickers : p[t] = Shares(fs, ss, t, d) /\ p[t] \in Nat
         /\ p \in [Tickers -> Nat]
<1> DEFINE N == LastDay + 1
<1>0. N \in Int /\ d \in Int /\ n \in Int /\ d <= N /\ n <= d /\ N \in 0 .. LastDay + 1
  BY DaysNat
<1>1. Records(fs, cs, ss) /\ Solvent(fs, cs, ss) /\ c = Money(fs, cs, ss, N)
      /\ p = [t \in Tickers |-> Shares(fs, ss, t, N)]
  BY DEF Ledger, Balanced
<1>2. (\A f \in fs : f.day <= n) /\ (\A x \in ss : x.eff <= n) /\ \A k \in cs : k.ex <= n
  BY DEF Ledger, Placed
<1>3. \A f \in fs : f.day \in Nat /\ f.day <= d /\ f.day <= N
  <2>1. \A f \in fs : f.day \in Nat
    BY <1>0, <1>1, RecordsMean, FillInts
  <2>2. QED
    BY <1>0, <1>2, <2>1
<1>4. \A x \in ss : x.eff \in Nat /\ x.eff <= d /\ x.eff <= N
  <2>1. \A x \in ss : x.eff \in Nat
    BY <1>0, <1>1, RecordsMean, SettledInts
  <2>2. QED
    BY <1>0, <1>2, <2>1
<1>5. \A k \in cs : k.ex \in Nat /\ k.ex <= d /\ k.ex <= N
  <2>1. \A k \in cs : k.ex \in Nat
    BY <1>0, <1>1, RecordsMean, CreditInts
  <2>2. QED
    BY <1>0, <1>2, <2>1
<1>6. ASSUME NEW t \in Tickers PROVE Shares(fs, ss, t, d) = Shares(fs, ss, t, N)
  <2>1. \A f \in fs : FillShares(f, t, d) = FillShares(f, t, N)
    BY <1>3 DEF FillShares
  <2>2. \A x \in ss : SettledShares(x, t, d) = SettledShares(x, t, N)
    BY <1>4 DEF SettledShares
  <2> HIDE DEF N
  <2>3. QED
    BY <1>0, <1>1, <2>1, <2>2, SharesSame
<1>7. Money(fs, cs, ss, d) = Money(fs, cs, ss, N)
  <2>1. \A f \in fs : FillCash(f, d) = FillCash(f, N)
    BY <1>3 DEF FillCash
  <2>2. \A x \in ss : SettledCash(x, d) = SettledCash(x, N)
    BY <1>4 DEF SettledCash
  <2>3. \A k \in cs : CreditCash(k, d) = CreditCash(k, N)
    BY <1>5 DEF CreditCash
  <2> HIDE DEF N
  <2>4. QED
    BY <1>0, <1>1, <2>1, <2>2, <2>3, SharesSame
<1>8. Money(fs, cs, ss, N) \in Nat /\ \A t \in Tickers : Shares(fs, ss, t, N) \in Nat
  BY <1>0, <1>1, NeverBelowZero
<1>9. QED
  BY <1>1, <1>6, <1>7, <1>8

LEMMA DaysInt == \A d \in Days : d \in Int
BY DaysNat

\* More bars, and later sessions, are no harm.
LEMMA LedgerLater ==
  ASSUME NEW bs, NEW bt, NEW fs, NEW cs, NEW ss, NEW c, NEW p, NEW n \in Int, NEW m \in Int,
         Ledger(bs, fs, cs, ss, c, p, n), n <= m,
         \A d \in Days, t \in Tickers : Printed(bs, t, d) => Printed(bt, t, d)
  PROVE  Ledger(bt, fs, cs, ss, c, p, m)
<1>1. Records(fs, cs, ss) /\ Placed(bs, fs, cs, ss, n)
  BY DEF Ledger
<1>2. Placed(bt, fs, cs, ss, m)
  <2>1. ASSUME NEW f \in fs PROVE f.day <= m /\ Printed(bt, f.ticker, f.day)
    <3>0. f \in Fill
      BY <1>1, RecordsMean
    <3>1. f.day \in Days /\ f.day \in Int /\ f.ticker \in Tickers
      BY <3>0, DaysInt DEF Fill
    <3>2. f.day <= n /\ Printed(bs, f.ticker, f.day)
      BY <1>1 DEF Placed
    <3>3. QED
      BY <3>1, <3>2
  <2>2. ASSUME NEW k \in cs PROVE k.ex <= m
    <3>0. k \in Credit
      BY <1>1, RecordsMean
    <3>1. k.ex \in Int
      BY <3>0, DaysInt DEF Credit
    <3>2. k.ex <= n
      BY <1>1 DEF Placed
    <3>3. QED
      BY <3>1, <3>2
  <2>3. ASSUME NEW x \in ss
        PROVE  /\ x.eff <= m /\ x.ticker \in Rows(fs, ss, x.eff - 1)
               /\ x.ratio > 0 => /\ x.into # x.ticker
                                 /\ \E d \in Days : d >= x.eff /\ Printed(bt, x.into, d)
    <3>1. x.eff \in Int /\ x.into \in Tickers
      BY <1>1, RecordsMean, DaysNat DEF Settlement
    <3>2. /\ x.eff <= n /\ x.ticker \in Rows(fs, ss, x.eff - 1)
          /\ x.ratio > 0 => /\ x.into # x.ticker
                            /\ \E d \in Days : d >= x.eff /\ Printed(bs, x.into, d)
      BY <1>1 DEF Placed
    <3>3. QED
      BY <3>1, <3>2
  <2>4. QED
    BY <2>1, <2>2, <2>3 DEF Placed
<1>3. QED
  BY <1>2 DEF Ledger

-----------------------------------------------------------------------------
(* What each event does to the book.                                       *)

\* A fill at the last session: a sell before the buys of that session, of no
\* more than is held; a buy of no more than the cash.
LEMMA FillKeeps ==
  ASSUME NEW bs, NEW fs, NEW cs, NEW ss, NEW c, NEW p, NEW n \in Days,
         Ledger(bs, fs, cs, ss, c, p, n), NEW f \in Fill, f \notin fs, f.day = n,
         Printed(bs, f.ticker, n),
         f.side = "sell" => f.qty <= p[f.ticker] /\ \A g \in fs : g.side = "buy" => g.day < n,
         f.side = "buy" => f.qty * f.px <= c
  PROVE  Ledger(bs, fs \cup {f}, cs, ss, c - Way(f) * (f.qty * f.px),
                [p EXCEPT ![f.ticker] = p[f.ticker] + Way(f) * f.qty], n)
<1> DEFINE R == fs \cup {f}
           N == LastDay + 1
<1>0. n \in Nat /\ n >= 1 /\ n <= N /\ N \in Int /\ n \in 0 .. LastDay /\ N \in n .. LastDay + 1
      /\ N \in 0 .. LastDay + 1
  BY DaysNat DEF Days
<1>1. /\ Records(fs, cs, ss) /\ Placed(bs, fs, cs, ss, n) /\ Solvent(fs, cs, ss)
      /\ Balanced(fs, cs, ss, c, p) /\ PaidOnce(fs, cs, ss)
  BY DEF Ledger
<1>2. /\ f.qty \in Nat \ {0} /\ f.px \in Nat \ {0} /\ f.ticker \in Tickers
      /\ f.side \in {"buy", "sell"} /\ f.qty * f.px \in Nat
  BY <1>0, FillInts
<1>3. PICK v \in Nat : v = f.qty * f.px
  BY <1>2
<1>4. c \in Nat /\ p \in [Tickers -> Nat]
  BY <1>0, BookEnds
<1>5. Records(R, cs, ss)
  BY <1>1, FS_AddElement DEF Records
<1>6. ASSUME NEW d \in Int, NEW t
      PROVE  /\ Shares(R, ss, t, d) = Shares(fs, ss, t, d) + FillShares(f, t, d)
             /\ OpenShares(R, ss, t, d) = OpenShares(fs, ss, t, d) + FillOpen(f, t, d)
             /\ Money(R, cs, ss, d) = Money(fs, cs, ss, d) + FillCash(f, d)
  BY <1>1, FillAdds
<1>7. ASSUME NEW d \in Int, NEW t
      PROVE  Shares(fs, ss, t, d) \in Int /\ OpenShares(fs, ss, t, d) \in Int
             /\ Money(fs, cs, ss, d) \in Int
  BY <1>1, SumsTyped
<1>8. Placed(bs, R, cs, ss, n)
  <2>1. \A x \in ss : Rows(fs, ss, x.eff - 1) \subseteq Rows(R, ss, x.eff - 1)
    BY DEF Rows
  <2>2. \A g \in R : g.day <= n /\ Printed(bs, g.ticker, g.day)
    BY <1>0, <1>1 DEF Placed
  <2>3. QED
    BY <1>1, <2>1, <2>2 DEF Placed
<1>9. Solvent(R, cs, ss)
  <2> SUFFICES ASSUME NEW d \in 0 .. LastDay + 1
               PROVE  /\ Money(R, cs, ss, d) >= 0
                      /\ \A t \in Tickers : OpenShares(R, ss, t, d) >= 0
    BY DEF Solvent
  <2>0. d \in Int
    BY <1>0
  <2>1. /\ Money(fs, cs, ss, d) \in Int /\ Money(fs, cs, ss, d) >= 0
        /\ \A t \in Tickers : OpenShares(fs, ss, t, d) \in Int /\ OpenShares(fs, ss, t, d) >= 0
    BY <1>1, <1>7, <2>0 DEF Solvent
  <2>2. CASE d < n
    <3>1. FillCash(f, d) = 0 /\ \A t \in Tickers : FillOpen(f, t, d) = 0
      BY <1>0, <2>0, <2>2 DEF FillCash, FillOpen
    <3>2. QED
      BY <1>6, <2>0, <2>1, <3>1
  <2>3. CASE d >= n
    <3>0. d \in n .. LastDay + 1
      BY <1>0, <2>0, <2>3
    <3>1. Money(fs, cs, ss, d) = c
      BY <1>0, <3>0, BookEnds
    <3>2. Money(R, cs, ss, d) >= 0
      <4>1. FillCash(f, d) = IF f.side = "buy" THEN -v ELSE v
        BY <1>0, <1>3, <2>0, <2>3 DEF FillCash, Way
      <4>2. Money(R, cs, ss, d) = c + FillCash(f, d)
        BY <1>6, <2>0, <3>1
      <4>3. f.side = "buy" => v <= c
        BY <1>3
      <4>4. QED
        BY <1>4, <4>1, <4>2, <4>3
    <3>3. ASSUME NEW t \in Tickers PROVE OpenShares(R, ss, t, d) >= 0
      <4>1. CASE f.side = "sell" /\ f.ticker = t
        <5>1. \A g \in fs : FillOpen(g, t, d) = FillShares(g, t, d)
          <6> SUFFICES ASSUME NEW g \in fs PROVE FillOpen(g, t, d) = FillShares(g, t, d)
            OBVIOUS
          <6>1. g.day \in Nat /\ g.side \in {"buy", "sell"}
            BY <1>1, <2>0, RecordsMean, FillInts
          <6>2. g.day <= n /\ (g.side = "buy" => g.day < n)
            BY <1>1, <4>1 DEF Placed
          <6>3. QED
            BY <1>0, <2>0, <2>3, <6>1, <6>2 DEF FillOpen, FillShares
        <5>2. OpenShares(fs, ss, t, d) = Shares(fs, ss, t, d)
          BY <1>1, <2>0, <5>1, SharesSame
        <5>3. Shares(fs, ss, t, d) = p[t]
          BY <1>0, <3>0, BookEnds
        <5>4. FillOpen(f, t, d) = -f.qty
          BY <1>0, <1>2, <2>0, <2>3, <4>1 DEF FillOpen, Way
        <5>5. OpenShares(R, ss, t, d) = p[t] + FillOpen(f, t, d)
          BY <1>6, <2>0, <5>2, <5>3
        <5>6. QED
          BY <1>2, <1>4, <4>1, <5>4, <5>5
      <4>2. CASE ~(f.side = "sell" /\ f.ticker = t)
        <5>1. FillOpen(f, t, d) \in Nat
          BY <1>0, <1>2, <2>0, <4>2 DEF FillOpen, Way
        <5>2. OpenShares(R, ss, t, d) = OpenShares(fs, ss, t, d) + FillOpen(f, t, d)
          BY <1>6, <2>0
        <5>3. QED
          BY <2>1, <5>1, <5>2
      <4>3. QED
        BY <4>1, <4>2
    <3>4. QED
      BY <3>2, <3>3
  <2>4. QED
    BY <1>0, <2>0, <2>2, <2>3
<1>10. Balanced(R, cs, ss, c - Way(f) * (f.qty * f.px),
                [p EXCEPT ![f.ticker] = p[f.ticker] + Way(f) * f.qty])
  <2>1. Money(R, cs, ss, N) = c - Way(f) * (f.qty * f.px)
    <3>1. Money(R, cs, ss, N) = c + FillCash(f, N)
      BY <1>0, <1>1, <1>6 DEF Balanced
    <3>2. FillCash(f, N) = -(Way(f) * v)
      BY <1>0, <1>3 DEF FillCash
    <3>3. Way(f) \in {1, -1}
      BY DEF Way
    <3>4. QED
      BY <1>3, <1>4, <3>1, <3>2, <3>3
  <2>2. ASSUME NEW t \in Tickers
        PROVE  Shares(R, ss, t, N) = [p EXCEPT ![f.ticker] = p[f.ticker] + Way(f) * f.qty][t]
    <3>1. Shares(R, ss, t, N) = p[t] + FillShares(f, t, N)
      BY <1>0, <1>1, <1>6 DEF Balanced
    <3>2. FillShares(f, t, N) = IF f.ticker = t THEN Way(f) * f.qty ELSE 0
      BY <1>0 DEF FillShares
    <3>3. QED
      BY <1>4, <3>1, <3>2
  <2>3. QED
    BY <1>4, <2>1, <2>2 DEF Balanced
<1>11. PaidOnce(R, cs, ss)
  <2>1. ASSUME ss = {}, NEW k \in cs PROVE k.qty = Shares(R, ss, k.ticker, k.ex - 1)
    <3>1. k.ex \in Nat /\ k.ex <= n /\ k.ticker \in Tickers
      BY <1>0, <1>1, RecordsMean, CreditInts DEF Placed
    <3>2. PICK e \in Int : e = k.ex - 1 /\ e < n
      BY <1>0, <3>1
    <3>3. FillShares(f, k.ticker, e) = 0
      BY <1>0, <3>2 DEF FillShares
    <3>4. k.qty = Shares(fs, ss, k.ticker, e)
      BY <1>1, <2>1, <3>2 DEF PaidOnce
    <3>5. Shares(R, ss, k.ticker, e) = Shares(fs, ss, k.ticker, e) + FillShares(f, k.ticker, e)
      BY <1>6
    <3>6. Shares(fs, ss, k.ticker, e) \in Int
      BY <1>7
    <3>7. QED
      BY <3>2, <3>3, <3>4, <3>5, <3>6
  <2>2. QED
    BY <1>1, <2>1 DEF PaidOnce
<1>12. QED
  BY <1>5, <1>8, <1>9, <1>10, <1>11 DEF Ledger

\* A name that is held came by a buy or a conversion.
LEMMA HeldHasRow ==
  ASSUME NEW fs, NEW cs, NEW ss, Records(fs, cs, ss), NEW t, NEW d \in Int,
         Shares(fs, ss, t, d) > 0
  PROVE  \/ \E f \in fs : f.ticker = t /\ f.side = "buy" /\ f.day <= d
         \/ \E x \in ss : x.into = t /\ x.ratio > 0 /\ x.eff <= d
<1> SUFFICES ASSUME \A f \in fs : ~(f.ticker = t /\ f.side = "buy" /\ f.day <= d),
                    \A x \in ss : ~(x.into = t /\ x.ratio > 0 /\ x.eff <= d)
             PROVE  FALSE
  OBVIOUS
<1> DEFINE a == [f \in fs |-> FillShares(f, t, d)]
           b == [x \in ss |-> SettledShares(x, t, d)]
           y == [f \in fs |-> 0]
           z == [x \in ss |-> 0]
<1>1. \A f \in fs : a[f] \in Int /\ y[f] \in Int /\ a[f] <= y[f]
  <2> SUFFICES ASSUME NEW f \in fs PROVE FillShares(f, t, d) \in Int /\ FillShares(f, t, d) <= 0
    OBVIOUS
  <2>1. f.qty \in Nat /\ f.day \in Nat /\ f.side \in {"buy", "sell"}
    BY RecordsMean, FillInts
  <2>2. QED
    BY <2>1 DEF FillShares, Way
<1>2. \A x \in ss : b[x] \in Int /\ z[x] \in Int /\ b[x] <= z[x]
  <2> SUFFICES ASSUME NEW x \in ss PROVE SettledShares(x, t, d) \in Int /\ SettledShares(x, t, d) <= 0
    OBVIOUS
  <2>1. x.qty \in Nat /\ x.eff \in Nat /\ x.ratio \in Nat /\ x.qty * x.ratio \in Nat
    BY RecordsMean, SettledInts
  <2>2. CASE x.ratio = 0
    <3>1. x.qty * x.ratio = 0
      BY <2>1, <2>2
    <3>2. QED
      BY <2>1, <3>1 DEF SettledShares
  <2>3. CASE x.ratio # 0
    BY <2>1, <2>3 DEF SettledShares
  <2>4. QED
    BY <2>2, <2>3
<1>3. (\A f \in fs : y[f] = 0) /\ \A x \in ss : z[x] = 0
  OBVIOUS
<1>4. Shares(fs, ss, t, d) = SumOver(a, fs) + SumOver(b, ss)
  BY DEF Shares
<1>5. IsFiniteSet(fs) /\ IsFiniteSet(ss)
  BY RecordsMean
<1> HIDE DEF a, b, y, z
<1>6. SumOver(y, fs) = 0 /\ SumOver(z, ss) = 0
  BY <1>3, <1>5, SumZero
<1>7. SumOver(a, fs) <= SumOver(y, fs) /\ SumOver(b, ss) <= SumOver(z, ss)
  BY <1>1, <1>2, <1>5, SumLeq
<1>8. SumOver(a, fs) \in Int /\ SumOver(b, ss) \in Int
  BY <1>1, <1>2, <1>5, SumInt
<1>9. QED
  BY <1>4, <1>6, <1>7, <1>8

\* A name that is dead from session e on has held since e what it holds now.
LEMMA DeadSince ==
  ASSUME NEW bs, NEW fs, NEW cs, NEW ss, NEW c, NEW p, NEW n \in Days,
         Ledger(bs, fs, cs, ss, c, p, n), NEW t \in Tickers, NEW e \in 1 .. n,
         \A d \in Days : d >= e => ~Printed(bs, t, d)
  PROVE  /\ \A d \in e .. LastDay + 1 : OpenShares(fs, ss, t, d) >= p[t]
         /\ p[t] > 0 => t \in Rows(fs, ss, e - 1)
<1> DEFINE N == LastDay + 1
<1>0. /\ n \in Nat /\ n <= LastDay /\ e \in Nat /\ e <= n /\ N \in Int /\ n \in 0 .. LastDay
      /\ N \in n .. LastDay + 1 /\ n <= N
  BY DaysNat DEF Days
<1>1. Records(fs, cs, ss) /\ Placed(bs, fs, cs, ss, n)
  BY DEF Ledger
<1>2. p[t] = Shares(fs, ss, t, N)
  BY <1>0, BookEnds
<1>3. \A f \in fs : f.ticker = t => f.day < e
  <2> SUFFICES ASSUME NEW f \in fs, f.ticker = t PROVE f.day < e
    OBVIOUS
  <2>1. f \in Fill
    BY <1>1, RecordsMean
  <2>2. f.day \in Days /\ f.day \in Int
    BY <2>1, DaysInt DEF Fill
  <2>3. Printed(bs, t, f.day)
    BY <1>1 DEF Placed
  <2>4. QED
    BY <1>0, <2>2, <2>3
<1>4. \A x \in ss : x.into = t /\ x.ratio > 0 => x.eff < e
  <2> SUFFICES ASSUME NEW x \in ss, x.into = t, x.ratio > 0 PROVE x.eff < e
    OBVIOUS
  <2>1. x \in Settlement
    BY <1>1, RecordsMean
  <2>2. x.eff \in Nat
    BY <1>0, <2>1, SettledInts
  <2>3. PICK d \in Days : d >= x.eff /\ Printed(bs, t, d)
    BY <1>1 DEF Placed
  <2>4. d < e
    BY <1>0, <2>3, DaysInt
  <2>5. QED
    BY <1>0, <2>2, <2>3, <2>4, DaysInt
<1>5. ASSUME NEW d \in e .. LastDay + 1 PROVE OpenShares(fs, ss, t, d) >= p[t]
  <2>0. d \in Int /\ d >= e /\ d <= N
    BY <1>0
  <2>1. \A f \in fs : FillOpen(f, t, d) = FillShares(f, t, N)
    <3> SUFFICES ASSUME NEW f \in fs PROVE FillOpen(f, t, d) = FillShares(f, t, N)
      OBVIOUS
    <3>1. f.day \in Nat /\ (f.ticker = t => f.day < e)
      BY <1>0, <1>1, <1>3, RecordsMean, FillInts
    <3>2. QED
      BY <1>0, <2>0, <3>1 DEF FillOpen, FillShares
  <2>2. \A x \in ss : SettledShares(x, t, d) >= SettledShares(x, t, N)
    <3> SUFFICES ASSUME NEW x \in ss PROVE SettledShares(x, t, d) >= SettledShares(x, t, N)
      OBVIOUS
    <3>1. x.eff \in Nat /\ x.qty \in Nat /\ x.ratio \in Nat /\ x.qty * x.ratio \in Nat
      BY <1>0, <1>1, RecordsMean, SettledInts
    <3>2. x.into = t /\ x.ratio > 0 => x.eff < e
      BY <1>4
    <3>3. x.eff <= n
      BY <1>1 DEF Placed
    <3>4. PICK q \in Nat, g \in Nat : q = x.qty /\ g = x.qty * x.ratio
      BY <3>1
    <3>5. x.ratio = 0 => g = 0
      BY <3>1, <3>4
    <3>6. CASE x.eff <= d
      BY <1>0, <2>0, <3>1, <3>3, <3>4, <3>6 DEF SettledShares
    <3>7. CASE ~(x.eff <= d)
      <4>1. x.into = t => g = 0
        BY <1>0, <2>0, <3>1, <3>2, <3>5, <3>7
      <4>2. SettledShares(x, t, d) = 0
        BY <3>7 DEF SettledShares
      <4>3. SettledShares(x, t, N) = (IF x.into = t THEN g ELSE 0) - (IF x.ticker = t THEN q ELSE 0)
        BY <1>0, <3>1, <3>3, <3>4 DEF SettledShares
      <4>4. QED
        BY <3>4, <4>1, <4>2, <4>3
    <3>8. QED
      BY <3>6, <3>7
  <2> HIDE DEF N
  <2>3. QED
    BY <1>0, <1>1, <1>2, <2>0, <2>1, <2>2, SharesSame
<1>6. ASSUME p[t] > 0 PROVE t \in Rows(fs, ss, e - 1)
  <2>1. Shares(fs, ss, t, N) > 0
    BY <1>2, <1>6
  <2>2. CASE \E f \in fs : f.ticker = t /\ f.side = "buy" /\ f.day <= N
    <3>1. PICK f \in fs : f.ticker = t /\ f.side = "buy" /\ f.day <= N
      BY <2>2
    <3>2. f.day \in Nat /\ f.day < e
      BY <1>0, <1>1, <1>3, <3>1, RecordsMean, FillInts
    <3>3. f.day <= e - 1
      BY <1>0, <3>2
    <3>4. QED
      BY <3>1, <3>3 DEF Rows
  <2>3. CASE \E x \in ss : x.into = t /\ x.ratio > 0 /\ x.eff <= N
    <3>1. PICK x \in ss : x.into = t /\ x.ratio > 0 /\ x.eff <= N
      BY <2>3
    <3>2. x.eff \in Nat /\ x.eff < e
      BY <1>0, <1>1, <1>4, <3>1, RecordsMean, SettledInts
    <3>3. x.eff <= e - 1
      BY <1>0, <3>2
    <3>4. QED
      BY <3>1, <3>3 DEF Rows
  <2> HIDE DEF N
  <2>4. QED
    BY <1>0, <1>1, <2>1, <2>2, <2>3, HeldHasRow
<1>7. QED
  BY <1>5, <1>6

\* A held name that is dead is settled, for cash or into an acquirer.
SettledTo(p, x) ==
    [u \in Tickers |-> (IF u = x.ticker THEN 0 ELSE p[u])
                       + (IF u = x.into THEN x.qty * x.ratio ELSE 0)]

LEMMA SettlementKeeps ==
  ASSUME NEW bs, NEW fs, NEW cs, NEW ss, NEW c, NEW p, NEW n \in Days,
         Ledger(bs, fs, cs, ss, c, p, n), NEW x \in Settlement, x \notin ss,
         x.qty = p[x.ticker], x.qty > 0, x.eff <= n,
         \A d \in Days : d >= x.eff => ~Printed(bs, x.ticker, d),
         x.ratio > 0 => x.into # x.ticker /\ \E d \in Days : d >= x.eff /\ Printed(bs, x.into, d)
  PROVE  Ledger(bs, fs, cs, ss \cup {x}, c + x.qty * x.price, SettledTo(p, x), n)
<1> DEFINE R == ss \cup {x}
           N == LastDay + 1
           q == [u \in Tickers |-> (IF u = x.ticker THEN 0 ELSE p[u])
                                   + (IF u = x.into THEN x.qty * x.ratio ELSE 0)]
<1>0. n \in Nat /\ n >= 1 /\ n <= N /\ N \in Int /\ n \in 0 .. LastDay /\ N \in n .. LastDay + 1
      /\ N \in 0 .. LastDay + 1
  BY DaysNat DEF Days
<1>1. /\ Records(fs, cs, ss) /\ Placed(bs, fs, cs, ss, n) /\ Solvent(fs, cs, ss)
      /\ Balanced(fs, cs, ss, c, p) /\ PaidOnce(fs, cs, ss)
  BY DEF Ledger
<1>2. /\ x.qty \in Nat /\ x.price \in Nat /\ x.ratio \in Nat /\ x.eff \in Nat /\ x.eff > 0
      /\ x.ticker \in Tickers /\ x.into \in Tickers
      /\ x.qty * x.ratio \in Nat /\ x.qty * x.price \in Nat
  BY <1>0, SettledInts
<1>3. PICK v \in Nat, w \in Nat : v = x.qty * x.price /\ w = x.qty * x.ratio
  BY <1>2
<1>4. c \in Nat /\ p \in [Tickers -> Nat]
  BY <1>0, BookEnds
<1>5. Records(fs, cs, R)
  BY <1>1, FS_AddElement DEF Records
<1>6. ASSUME NEW d \in Int, NEW t
      PROVE  /\ Shares(fs, R, t, d) = Shares(fs, ss, t, d) + SettledShares(x, t, d)
             /\ OpenShares(fs, R, t, d) = OpenShares(fs, ss, t, d) + SettledShares(x, t, d)
             /\ Money(fs, cs, R, d) = Money(fs, cs, ss, d) + SettledCash(x, d)
  BY <1>1, SettlementAdds
<1>7. ASSUME NEW d \in Int, NEW t
      PROVE  Shares(fs, ss, t, d) \in Int /\ OpenShares(fs, ss, t, d) \in Int
             /\ Money(fs, cs, ss, d) \in Int
  BY <1>1, SumsTyped
<1>8. PICK e \in 1 .. n : e = x.eff
  BY <1>0, <1>2
<1>9. /\ \A d \in e .. LastDay + 1 : OpenShares(fs, ss, x.ticker, d) >= p[x.ticker]
      /\ x.ticker \in Rows(fs, ss, e - 1)
  <2>1. \A d \in Days : d >= e => ~Printed(bs, x.ticker, d)
    BY <1>8
  <2>2. p[x.ticker] > 0
    OBVIOUS
  <2>3. QED
    BY <1>2, <2>1, <2>2, DeadSince
<1>10. Placed(bs, fs, cs, R, n)
  <2>1. \A y \in R : Rows(fs, ss, y.eff - 1) \subseteq Rows(fs, R, y.eff - 1)
    BY DEF Rows
  <2>2. \A y \in R : /\ y.eff <= n /\ y.ticker \in Rows(fs, ss, y.eff - 1)
                     /\ y.ratio > 0 => /\ y.into # y.ticker
                                       /\ \E d \in Days : d >= y.eff /\ Printed(bs, y.into, d)
    BY <1>1, <1>8, <1>9 DEF Placed
  <2>3. QED
    BY <1>1, <2>1, <2>2 DEF Placed
<1>11. x.ratio = 0 => w = 0
  BY <1>2, <1>3
<1>12. ASSUME NEW t, NEW d \in Int, x.eff <= d
       PROVE  SettledShares(x, t, d) = (IF x.into = t THEN w ELSE 0) - (IF x.ticker = t THEN x.qty ELSE 0)
  BY <1>3, <1>12 DEF SettledShares
<1>13. Solvent(fs, cs, R)
  <2> SUFFICES ASSUME NEW d \in 0 .. LastDay + 1
               PROVE  /\ Money(fs, cs, R, d) >= 0
                      /\ \A t \in Tickers : OpenShares(fs, R, t, d) >= 0
    BY DEF Solvent
  <2>0. d \in Int
    BY <1>0
  <2>1. /\ Money(fs, cs, ss, d) \in Int /\ Money(fs, cs, ss, d) >= 0
        /\ \A t \in Tickers : OpenShares(fs, ss, t, d) \in Int /\ OpenShares(fs, ss, t, d) >= 0
    BY <1>1, <1>7, <2>0 DEF Solvent
  <2>2. Money(fs, cs, R, d) >= 0
    <3>1. SettledCash(x, d) \in Nat
      BY <2>0, SettledInts
    <3>2. Money(fs, cs, R, d) = Money(fs, cs, ss, d) + SettledCash(x, d)
      BY <1>6, <2>0
    <3>3. QED
      BY <2>1, <3>1, <3>2
  <2>3. ASSUME NEW t \in Tickers PROVE OpenShares(fs, R, t, d) >= 0
    <3>1. OpenShares(fs, R, t, d) = OpenShares(fs, ss, t, d) + SettledShares(x, t, d)
      BY <1>6, <2>0
    <3>2. CASE ~(x.eff <= d)
      <4>1. SettledShares(x, t, d) = 0
        BY <3>2 DEF SettledShares
      <4>2. QED
        BY <2>1, <3>1, <4>1
    <3>3. CASE x.eff <= d /\ x.ticker # t
      <4>1. SettledShares(x, t, d) \in Nat
        BY <1>3, <1>12, <2>0, <3>3
      <4>2. QED
        BY <2>1, <3>1, <4>1
    <3>4. CASE x.eff <= d /\ x.ticker = t
      <4>1. SettledShares(x, t, d) = -x.qty
        BY <1>2, <1>3, <1>11, <1>12, <2>0, <3>4
      <4>2. d \in e .. LastDay + 1
        BY <1>0, <1>8, <2>0, <3>4
      <4>3. OpenShares(fs, ss, t, d) >= x.qty
        BY <1>9, <3>4, <4>2
      <4>4. QED
        BY <1>2, <2>1, <3>1, <4>1, <4>3
    <3>5. QED
      BY <3>2, <3>3, <3>4
  <2>4. QED
    BY <2>2, <2>3
<1>14. x.eff <= N
  BY <1>0, <1>2
<1>15. Balanced(fs, cs, R, c + x.qty * x.price, q)
  <2>1. Money(fs, cs, R, N) = c + x.qty * x.price
    <3>1. SettledCash(x, N) = x.qty * x.price
      BY <1>14 DEF SettledCash
    <3>2. QED
      BY <1>0, <1>1, <1>6, <3>1 DEF Balanced
  <2>2. ASSUME NEW t \in Tickers PROVE Shares(fs, R, t, N) = q[t]
    <3>1. Shares(fs, R, t, N) = p[t] + SettledShares(x, t, N)
      BY <1>0, <1>1, <1>6 DEF Balanced
    <3>2. SettledShares(x, t, N) = (IF x.into = t THEN w ELSE 0) - (IF x.ticker = t THEN x.qty ELSE 0)
      BY <1>0, <1>12, <1>14
    <3>3. q[t] = (IF t = x.ticker THEN 0 ELSE p[t]) + (IF t = x.into THEN w ELSE 0)
      BY <1>3
    <3>4. QED
      BY <1>2, <1>3, <1>4, <3>1, <3>2, <3>3
  <2>3. QED
    BY <2>1, <2>2 DEF Balanced
<1>16. PaidOnce(fs, cs, R)
  BY <1>1 DEF PaidOnce
<1>17. QED
  BY <1>5, <1>10, <1>13, <1>15, <1>16 DEF Ledger, SettledTo

\* Dividends that were not credited before, for what was held before the ex-date.
LEMMA CreditsKeep ==
  ASSUME NEW bs, NEW fs, NEW cs, NEW ss, NEW c, NEW p, NEW n \in Days,
         Ledger(bs, fs, cs, ss, c, p, n), NEW new, IsFiniteSet(new), new \subseteq Credit,
         \A k \in new : k.ex <= n /\ k.qty = Shares(fs, ss, k.ticker, k.ex - 1),
         \A k \in new, e \in cs : ~(k.ticker = e.ticker /\ k.ex = e.ex)
  PROVE  Ledger(bs, fs, cs \cup new, ss, c + SumOver([k \in new |-> k.qty], new), p, n)
<1> DEFINE R == cs \cup new
           N == LastDay + 1
<1>0. n \in Nat /\ n <= N /\ N \in Int /\ n \in 0 .. LastDay /\ N \in n .. LastDay + 1
  BY DaysNat DEF Days
<1>1. /\ Records(fs, cs, ss) /\ Placed(bs, fs, cs, ss, n) /\ Solvent(fs, cs, ss)
      /\ Balanced(fs, cs, ss, c, p) /\ PaidOnce(fs, cs, ss)
  BY DEF Ledger
<1>2. c \in Nat
  BY <1>0, BookEnds
<1>3. cs \cap new = {} /\ \A k \in new : k \in Credit
  OBVIOUS
<1>4. Records(fs, R, ss)
  BY <1>1, FS_Union DEF Records
<1>5. Placed(bs, fs, R, ss, n)
  BY <1>1 DEF Placed
<1>6. ASSUME NEW d \in Int
      PROVE  /\ SumOver([k \in new |-> CreditCash(k, d)], new) \in Nat
             /\ Money(fs, R, ss, d)
                  = Money(fs, cs, ss, d) + SumOver([k \in new |-> CreditCash(k, d)], new)
             /\ Money(fs, cs, ss, d) \in Int
  <2>1. Money(fs, cs, ss, d) \in Int
    BY <1>1, SumsTyped
  <2>2. QED
    BY <1>1, <1>3, <2>1, CreditsAdd
<1>7. Solvent(fs, R, ss)
  <2> SUFFICES ASSUME NEW d \in 0 .. LastDay + 1 PROVE Money(fs, R, ss, d) >= 0
    BY <1>1 DEF Solvent
  <2>0. d \in Int
    BY <1>0
  <2>1. Money(fs, cs, ss, d) >= 0
    BY <1>1 DEF Solvent
  <2> DEFINE g == SumOver([k \in new |-> CreditCash(k, d)], new)
  <2>2. g \in Nat /\ Money(fs, R, ss, d) = Money(fs, cs, ss, d) + g /\ Money(fs, cs, ss, d) \in Int
    BY <1>6, <2>0
  <2> HIDE DEF g
  <2>3. QED
    BY <2>1, <2>2
<1>8. Balanced(fs, R, ss, c + SumOver([k \in new |-> k.qty], new), p)
  <2> DEFINE a == [k \in new |-> k.qty]
             b == [k \in new |-> CreditCash(k, N)]
  <2>1. \A k \in new : a[k] \in Int /\ a[k] = b[k]
    <3> SUFFICES ASSUME NEW k \in new PROVE k.qty \in Int /\ k.qty = CreditCash(k, N)
      OBVIOUS
    <3>1. k \in Credit /\ k.ex <= n
      OBVIOUS
    <3>2. k.qty \in Nat /\ k.ex \in Nat
      BY <1>0, <3>1, CreditInts
    <3>3. QED
      BY <1>0, <3>1, <3>2 DEF CreditCash
  <2>2. Money(fs, R, ss, N) = Money(fs, cs, ss, N) + SumOver(b, new)
    BY <1>0, <1>6
  <2>3. SumOver(a, new) = SumOver(b, new)
    <3> HIDE DEF a, b
    <3>1. QED
      BY <2>1, SumSame
  <2>4. QED
    BY <1>1, <2>2, <2>3 DEF Balanced
<1>9. PaidOnce(fs, R, ss)
  <2>1. ASSUME NEW k \in R, NEW e \in R, k.ticker = e.ticker, k.ex = e.ex PROVE k = e
    <3>1. CASE k \in cs /\ e \in cs
      BY <1>1, <2>1, <3>1 DEF PaidOnce
    <3>2. CASE k \in new /\ e \in new
      <4>1. k \in Credit /\ e \in Credit /\ k.qty = e.qty
        BY <2>1, <3>2
      <4>2. QED
        BY <2>1, <4>1 DEF Credit
    <3>3. QED
      BY <2>1, <3>1, <3>2
  <2>2. QED
    BY <1>1, <2>1 DEF PaidOnce
<1>10. QED
  BY <1>4, <1>5, <1>7, <1>8, <1>9 DEF Ledger

\* What a rerun of the last session n leaves of the fills and the credits.
FillsBut(fs, n) == {f \in fs : f.day # n}
CreditsBut(cs, n) == {k \in cs : k.ex # n}

\* Before n the rest of the records come to what all of them did; from n on to
\* no less than was there at the close before, or before the buys of n.
LEMMA WithoutLast ==
  ASSUME NEW fs, NEW cs, NEW ss, Records(fs, cs, ss), NEW n \in Int, NEW d \in Int,
         \A f \in fs : f.day <= n, \A k \in cs : k.ex <= n, \A x \in ss : x.eff <= n
  PROVE  LET ft == FillsBut(fs, n)
             ct == CreditsBut(cs, n)
         IN /\ d < n => Money(ft, ct, ss, d) = Money(fs, cs, ss, d)
            /\ d < n => \A t : Shares(ft, ss, t, d) = Shares(fs, ss, t, d)
            /\ d < n => \A t : OpenShares(ft, ss, t, d) = OpenShares(fs, ss, t, d)
            /\ d >= n => Money(ft, ct, ss, d) >= Money(fs, cs, ss, n - 1)
            /\ d >= n => \A t : OpenShares(ft, ss, t, d) >= OpenShares(fs, ss, t, n)
<1> DEFINE ft == FillsBut(fs, n)
           ct == CreditsBut(cs, n)
<1>0. /\ IsFiniteSet(fs) /\ IsFiniteSet(cs) /\ IsFiniteSet(ss)
      /\ (\A f \in fs : f \in Fill) /\ (\A x \in ss : x \in Settlement) /\ (\A k \in cs : k \in Credit)
      /\ n - 1 \in Int
  BY RecordsMean
<1>1. /\ ft \in SUBSET fs /\ ct \in SUBSET cs
      /\ \A f \in fs : f \in ft <=> f.day # n
      /\ \A k \in cs : k \in ct <=> k.ex # n
  BY DEF FillsBut, CreditsBut
<1> HIDE DEF ft, ct
<1>2. \A f \in fs : f.day \in Int /\ f.day <= n /\ f.side \in {"buy", "sell"} /\ f.qty \in Nat
  BY <1>0, FillInts
<1>3. \A k \in cs : k.ex \in Int /\ k.ex <= n /\ k.qty \in Nat
  BY <1>0, CreditInts
<1>4. \A x \in ss : x.eff \in Int /\ x.eff <= n /\ x.qty * x.price \in Nat
  BY <1>0, SettledInts
<1> DEFINE a(t) == [f \in ft |-> FillShares(f, t, d)]
           b(t) == [f \in ft |-> FillOpen(f, t, d)]
           m == [f \in ft |-> FillCash(f, d)]
           k == [c \in ct |-> CreditCash(c, d)]
<1>5. /\ \A t : \A f \in ft : a(t)[f] \in Int /\ b(t)[f] \in Int
      /\ \A f \in ft : m[f] \in Int
      /\ \A c \in ct : k[c] \in Int
  <2>1. \A t : \A f \in fs : FillShares(f, t, d) \in Int /\ FillOpen(f, t, d) \in Int
                             /\ FillCash(f, d) \in Int
    BY <1>0, FillInts
  <2>2. \A c \in cs : CreditCash(c, d) \in Int
    BY <1>0, CreditInts
  <2>3. QED
    BY <1>1, <2>1, <2>2
<1>6. ASSUME d < n
      PROVE  /\ Money(ft, ct, ss, d) = Money(fs, cs, ss, d)
             /\ \A t : /\ Shares(ft, ss, t, d) = Shares(fs, ss, t, d)
                       /\ OpenShares(ft, ss, t, d) = OpenShares(fs, ss, t, d)
  <2> DEFINE aa(t) == [f \in fs |-> FillShares(f, t, d)]
             bb(t) == [f \in fs |-> FillOpen(f, t, d)]
             mm == [f \in fs |-> FillCash(f, d)]
             kk == [c \in cs |-> CreditCash(c, d)]
  <2>1. ASSUME NEW t PROVE SumOver(a(t), ft) = SumOver(aa(t), fs)
    <3>1. \A f \in ft : a(t)[f] \in Int /\ aa(t)[f] = a(t)[f]
      BY <1>1, <1>5
    <3>2. \A f \in fs \ ft : aa(t)[f] = 0
      BY <1>1, <1>2, <1>6 DEF FillShares
    <3> HIDE DEF a, aa
    <3>3. QED
      BY <1>0, <1>1, <3>1, <3>2, SumPart
  <2>2. ASSUME NEW t PROVE SumOver(b(t), ft) = SumOver(bb(t), fs)
    <3>1. \A f \in ft : b(t)[f] \in Int /\ bb(t)[f] = b(t)[f]
      BY <1>1, <1>5
    <3>2. \A f \in fs \ ft : bb(t)[f] = 0
      BY <1>1, <1>2, <1>6 DEF FillOpen
    <3> HIDE DEF b, bb
    <3>3. QED
      BY <1>0, <1>1, <3>1, <3>2, SumPart
  <2>3. SumOver(m, ft) = SumOver(mm, fs)
    <3>1. \A f \in ft : m[f] \in Int /\ mm[f] = m[f]
      BY <1>1, <1>5
    <3>2. \A f \in fs \ ft : mm[f] = 0
      BY <1>1, <1>2, <1>6 DEF FillCash
    <3> HIDE DEF m, mm
    <3>3. QED
      BY <1>0, <1>1, <3>1, <3>2, SumPart
  <2>4. SumOver(k, ct) = SumOver(kk, cs)
    <3>1. \A c \in ct : k[c] \in Int /\ kk[c] = k[c]
      BY <1>1, <1>5
    <3>2. \A c \in cs \ ct : kk[c] = 0
      BY <1>1, <1>3, <1>6 DEF CreditCash
    <3> HIDE DEF k, kk
    <3>3. QED
      BY <1>0, <1>1, <3>1, <3>2, SumPart
  <2>5. QED
    BY <2>1, <2>2, <2>3, <2>4 DEF Money, Shares, OpenShares
<1>7. ASSUME d >= n PROVE Money(ft, ct, ss, d) >= Money(fs, cs, ss, n - 1)
  <2> DEFINE mm == [f \in fs |-> FillCash(f, n - 1)]
             kk == [c \in cs |-> CreditCash(c, n - 1)]
             x1 == [x \in ss |-> SettledCash(x, n - 1)]
             x2 == [x \in ss |-> SettledCash(x, d)]
  <2>1. SumOver(m, ft) = SumOver(mm, fs)
    <3>1. \A f \in ft : m[f] \in Int /\ mm[f] = m[f]
      BY <1>0, <1>1, <1>2, <1>5, <1>7 DEF FillCash
    <3>2. \A f \in fs \ ft : mm[f] = 0
      BY <1>0, <1>1, <1>2 DEF FillCash
    <3> HIDE DEF m, mm
    <3>3. QED
      BY <1>0, <1>1, <3>1, <3>2, SumPart
  <2>2. SumOver(k, ct) = SumOver(kk, cs)
    <3>1. \A c \in ct : k[c] \in Int /\ kk[c] = k[c]
      BY <1>0, <1>1, <1>3, <1>5, <1>7 DEF CreditCash
    <3>2. \A c \in cs \ ct : kk[c] = 0
      BY <1>0, <1>1, <1>3 DEF CreditCash
    <3> HIDE DEF k, kk
    <3>3. QED
      BY <1>0, <1>1, <3>1, <3>2, SumPart
  <2>3. \A x \in ss : x1[x] \in Int /\ x2[x] \in Int /\ x1[x] <= x2[x]
    <3> SUFFICES ASSUME NEW x \in ss
                 PROVE  /\ SettledCash(x, n - 1) \in Int /\ SettledCash(x, d) \in Int
                        /\ SettledCash(x, n - 1) <= SettledCash(x, d)
      OBVIOUS
    <3>1. PICK g \in Nat : g = x.qty * x.price
      BY <1>4
    <3>2. QED
      BY <1>0, <1>4, <1>7, <3>1 DEF SettledCash
  <2>4. /\ Money(ft, ct, ss, d) = ((InitialCash + SumOver(k, ct)) + SumOver(x2, ss)) + SumOver(m, ft)
        /\ Money(fs, cs, ss, n - 1)
             = ((InitialCash + SumOver(kk, cs)) + SumOver(x1, ss)) + SumOver(mm, fs)
    BY DEF Money
  <2>5. SumOver(mm, fs) \in Int /\ SumOver(kk, cs) \in Int /\ SumOver(x1, ss) \in Nat
    <3>1. SumOver(mm, fs) \in Int /\ SumOver(kk, cs) \in Nat /\ SumOver(x1, ss) \in Nat
      BY <1>0, SumsTyped
    <3>2. QED
      BY <3>1
  <2> HIDE DEF m, mm, k, kk, x1, x2
  <2>6. SumOver(x1, ss) <= SumOver(x2, ss)
    BY <1>0, <2>3, SumLeq
  <2>7. SumOver(x2, ss) \in Int
    BY <1>0, <2>3, SumInt
  <2>8. QED
    BY <2>1, <2>2, <2>4, <2>5, <2>6, <2>7, DaysNat
<1>8. ASSUME d >= n, NEW t PROVE OpenShares(ft, ss, t, d) >= OpenShares(fs, ss, t, n)
  <2> DEFINE h == [f \in fs |-> IF f \in ft THEN FillOpen(f, t, d) ELSE 0]
             g == [f \in fs |-> FillOpen(f, t, n)]
             x1 == [x \in ss |-> SettledShares(x, t, n)]
             x2 == [x \in ss |-> SettledShares(x, t, d)]
             o == b(t)
  <2>1. \A f \in ft : o[f] \in Int /\ h[f] = o[f]
    BY <1>1, <1>5
  <2>2. \A f \in fs \ ft : h[f] = 0
    OBVIOUS
  <2>3. \A f \in fs : g[f] \in Int /\ h[f] \in Int /\ g[f] <= h[f]
    <3> SUFFICES ASSUME NEW f \in fs PROVE g[f] \in Int /\ h[f] \in Int /\ g[f] <= h[f]
      OBVIOUS
    <3>1. g[f] = FillOpen(f, t, n) /\ h[f] = IF f \in ft THEN FillOpen(f, t, d) ELSE 0
      OBVIOUS
    <3>2. FillOpen(f, t, n) \in Int /\ FillOpen(f, t, d) \in Int
      BY <1>0, FillInts
    <3>3. CASE f.day = n
      <4>1. FillOpen(f, t, n) <= 0
        BY <1>2, <3>3 DEF FillOpen, Way
      <4>2. f \notin ft
        BY <1>1, <3>3
      <4>3. QED
        BY <3>1, <3>2, <4>1, <4>2
    <3>4. CASE f.day # n
      <4>1. f \in ft /\ f.day < n
        BY <1>1, <1>2, <3>4
      <4>2. FillOpen(f, t, n) = FillOpen(f, t, d)
        BY <1>2, <1>8, <4>1 DEF FillOpen
      <4>3. QED
        BY <3>1, <3>2, <4>1, <4>2
    <3>5. QED
      BY <3>3, <3>4
  <2>4. \A x \in ss : x1[x] \in Int /\ x1[x] = x2[x]
    <3> SUFFICES ASSUME NEW x \in ss
                 PROVE  SettledShares(x, t, n) \in Int /\ SettledShares(x, t, n) = SettledShares(x, t, d)
      OBVIOUS
    <3>1. SettledShares(x, t, n) \in Int
      BY <1>0, SettledInts
    <3>2. x.eff <= n /\ x.eff <= d
      BY <1>4, <1>8
    <3>3. QED
      BY <3>1, <3>2 DEF SettledShares
  <2>5. /\ OpenShares(ft, ss, t, d) = SumOver(o, ft) + SumOver(x2, ss)
        /\ OpenShares(fs, ss, t, n) = SumOver(g, fs) + SumOver(x1, ss)
    BY DEF OpenShares
  <2> HIDE DEF h, g, x1, x2, o
  <2>6. SumOver(o, ft) = SumOver(h, fs)
    BY <1>0, <1>1, <2>1, <2>2, SumPart
  <2>7. SumOver(x1, ss) = SumOver(x2, ss)
    BY <1>0, <2>4, SumSame
  <2>8. SumOver(g, fs) <= SumOver(h, fs)
    BY <1>0, <2>3, SumLeq
  <2>9. SumOver(g, fs) \in Int /\ SumOver(h, fs) \in Int /\ SumOver(x1, ss) \in Int
    BY <1>0, <2>3, <2>4, SumInt
  <2>10. QED
    BY <2>5, <2>6, <2>7, <2>8, <2>9
<1>9. QED
  BY <1>6, <1>7, <1>8 DEF ft, ct

LEMMA TotalsTyped ==
  ASSUME NEW fs, NEW cs, NEW ss, Records(fs, cs, ss), NEW d \in Int
  PROVE  /\ Money(fs, cs, ss, d) \in Int
         /\ \A t : OpenShares(fs, ss, t, d) \in Int
         /\ \A t : Shares(fs, ss, t, d) \in Int
BY SumsTyped

LEMMA RerunKeeps ==
  ASSUME NEW bs, NEW fs, NEW cs, NEW ss, NEW c, NEW p, NEW n \in Days,
         Ledger(bs, fs, cs, ss, c, p, n)
  PROVE  LET ft == FillsBut(fs, n)
             ct == CreditsBut(cs, n)
         IN Ledger(bs, ft, ct, ss, Money(ft, ct, ss, LastDay + 1),
                   [t \in Tickers |-> Shares(ft, ss, t, LastDay + 1)], n)
<1> DEFINE ft == FillsBut(fs, n)
           ct == CreditsBut(cs, n)
<1>0. n \in Nat /\ n >= 1 /\ n <= LastDay /\ n \in 0 .. LastDay + 1 /\ n - 1 \in 0 .. LastDay + 1
  BY DaysNat DEF Days
<1>1. /\ Records(fs, cs, ss) /\ Placed(bs, fs, cs, ss, n) /\ Solvent(fs, cs, ss)
      /\ PaidOnce(fs, cs, ss)
  BY DEF Ledger
<1>2. ft \subseteq fs /\ ct \subseteq cs
  BY DEF FillsBut, CreditsBut
<1>3. Records(ft, ct, ss)
  BY <1>1, <1>2, FS_Subset DEF Records
<1>4. (\A f \in fs : f.day <= n) /\ (\A k \in cs : k.ex <= n) /\ \A x \in ss : x.eff <= n
  BY <1>1 DEF Placed
<1>5. Placed(bs, ft, ct, ss, n)
  <2>1. ASSUME NEW x \in ss PROVE x.ticker \in Rows(ft, ss, x.eff - 1)
    <3>1. x.eff \in Nat /\ x.eff <= n
      BY <1>0, <1>1, <1>4, RecordsMean, SettledInts
    <3>2. x.ticker \in Rows(fs, ss, x.eff - 1)
      BY <1>1 DEF Placed
    <3>3. \A f \in fs : f.day <= x.eff - 1 => f \in ft
      <4> SUFFICES ASSUME NEW f \in fs, f.day <= x.eff - 1 PROVE f.day # n
        BY DEF FillsBut
      <4>1. QED
        BY <1>0, <3>1
    <3>4. QED
      BY <3>2, <3>3 DEF Rows
  <2>2. QED
    BY <1>1, <1>2, <2>1 DEF Placed
<1>6. Solvent(ft, ct, ss)
  <2> SUFFICES ASSUME NEW d \in 0 .. LastDay + 1
               PROVE  /\ Money(ft, ct, ss, d) >= 0
                      /\ \A t \in Tickers : OpenShares(ft, ss, t, d) >= 0
    BY DEF Solvent
  <2>0. d \in Int /\ n \in Int
    BY <1>0, DaysNat
  <2>1. CASE d < n
    <3>1. Money(ft, ct, ss, d) = Money(fs, cs, ss, d)
          /\ \A t : OpenShares(ft, ss, t, d) = OpenShares(fs, ss, t, d)
      BY <1>1, <1>4, <2>0, <2>1, WithoutLast
    <3>2. QED
      BY <1>1, <3>1 DEF Solvent
  <2>2. CASE d >= n
    <3>1. Money(ft, ct, ss, d) >= Money(fs, cs, ss, n - 1)
          /\ \A t : OpenShares(ft, ss, t, d) >= OpenShares(fs, ss, t, n)
      BY <1>1, <1>4, <2>0, <2>2, WithoutLast
    <3>2. Money(fs, cs, ss, n - 1) >= 0 /\ \A t \in Tickers : OpenShares(fs, ss, t, n) >= 0
      BY <1>0, <1>1 DEF Solvent
    <3>3. Money(ft, ct, ss, d) \in Int /\ \A t : OpenShares(ft, ss, t, d) \in Int
      BY <1>3, <2>0, TotalsTyped
    <3>4. Money(fs, cs, ss, n - 1) \in Int
      <4>1. n - 1 \in Int
        BY <2>0
      <4>2. QED
        BY <1>1, <4>1, TotalsTyped
    <3>5. \A t : OpenShares(fs, ss, t, n) \in Int
      BY <1>1, <2>0, TotalsTyped
    <3>6. QED
      BY <3>1, <3>2, <3>3, <3>4, <3>5
  <2>3. QED
    BY <2>0, <2>1, <2>2
<1>7. PaidOnce(ft, ct, ss)
  <2>1. ASSUME ss = {}, NEW k \in ct PROVE k.qty = Shares(ft, ss, k.ticker, k.ex - 1)
    <3>1. k \in cs /\ k.ex \in Nat /\ k.ex <= n
      BY <1>0, <1>1, <1>2, <1>4, RecordsMean, CreditInts
    <3>2. PICK e \in Int : e = k.ex - 1 /\ e < n
      BY <1>0, <3>1
    <3>3. \A t : Shares(ft, ss, t, e) = Shares(fs, ss, t, e)
      BY <1>0, <1>1, <1>4, <3>2, WithoutLast
    <3>4. k.qty = Shares(fs, ss, k.ticker, k.ex - 1)
      BY <1>1, <2>1, <3>1 DEF PaidOnce
    <3>5. QED
      BY <3>2, <3>3, <3>4
  <2>2. QED
    BY <1>1, <1>2, <2>1 DEF PaidOnce
<1>8. QED
  BY <1>3, <1>5, <1>6, <1>7 DEF Ledger, Balanced

-----------------------------------------------------------------------------
(* The steps outside a transaction.                                        *)

LEMMA LastOfMeans ==
  ASSUME NEW n \in Nat, NEW eq \in SUBSET (1 .. n)
  PROVE  /\ LastOf(eq) \in 0 .. n
         /\ eq = {} => LastOf(eq) = 0
         /\ eq # {} => LastOf(eq) \in eq
         /\ \A e \in eq : e <= LastOf(eq)
<1>1. CASE eq = {}
  BY <1>1 DEF LastOf
<1>2. CASE eq # {}
  <2>1. Max(eq) \in eq /\ \A e \in eq : e <= Max(eq)
    BY <1>2, MaxIn
  <2>2. LastOf(eq) = Max(eq)
    BY <1>2 DEF LastOf
  <2>3. Max(eq) \in 1 .. n
    BY <2>1
  <2>4. LastOf(eq) \in 0 .. n
    BY <2>2, <2>3
  <2>5. QED
    BY <1>2, <2>1, <2>2, <2>4
<1>3. QED
  BY <1>1, <1>2

LEMMA Setting ==
  ASSUME Shapes
  PROVE  /\ LastStep = LastOf(equity) /\ LastStep \in 0 .. LastDay
         /\ (LastStep # 0 => LastStep \in Days /\ LastStep \in equity)
         /\ \A e \in equity : e <= LastStep
         /\ tx # Idle => tx.day \in Days /\ tx.day \in Nat
         /\ latest \in Nat /\ latest <= LastDay
<1>1. /\ latest \in 0 .. LastDay /\ equity \in SUBSET (1 .. latest) /\ latest \in Nat /\ LastDay \in Nat
      /\ tx # Idle => tx.day \in 1 .. latest
  BY TxPhases
<1>2. LastStep = LastOf(equity)
  BY DEF LastStep, LastOf
<1>3. /\ LastOf(equity) \in 0 .. latest /\ (equity = {} => LastOf(equity) = 0)
      /\ (equity # {} => LastOf(equity) \in equity) /\ \A e \in equity : e <= LastOf(equity)
  BY <1>1, LastOfMeans
<1>4. LastStep # 0 => LastStep \in Days /\ LastStep \in equity
  BY <1>1, <1>2, <1>3 DEF Days
<1>5. tx # Idle => tx.day \in Days /\ tx.day \in Nat
  BY <1>1 DEF Days
<1>6. QED
  BY <1>1, <1>2, <1>3, <1>4, <1>5

LEMMA PrintedMeans ==
  ASSUME NEW t, NEW d
  PROVE  Printed(bars, t, d) <=> Traded(t, d)
BY DEF Printed, Traded

\* The collector adds bars where there were none.
LEMMA CollectKeeps ==
  ASSUME BooksInv, LedgerInv, Collect \/ \E x \in LateBars : LateBar(x)
  PROVE  LedgerInv' /\ \A d \in Days, t \in Tickers : Printed(bars, t, d) => bars'[d][t] = bars[d][t]
<1>0. /\ LastStep \in 0 .. LastDay /\ tx = Idle /\ latest \in Nat /\ latest <= LastDay
      /\ LastDay \in Nat
  BY Setting, TxPhases, DaysNat DEF BooksInv, Collect, LateBar
<1>1. Market /\ Ledger(bars, fills, credits, settlements, cash, pos, LastStep)
  BY <1>0 DEF LedgerInv
<1>2. /\ UNCHANGED <<published, fills, credits, settlements, cash, pos, equity, tx>>
  BY DEF Collect, LateBar, book
<1>3. NoBar.px = 0
  BY DEF NoBar
<1>4. CASE Collect
  <2>1. PICK row \in [Tickers -> BarChoices \cup {NoBar}] : bars' = [bars EXCEPT ![latest + 1] = row]
    BY <1>4 DEF Collect
  <2>2. latest < LastDay /\ latest' = latest + 1 /\ latest + 1 \in Days
    BY <1>0, <1>4 DEF Collect, Days
  <2>3. bars' \in [Days -> [Tickers -> BarChoices \cup {NoBar}]]
    BY <1>1, <2>1, <2>2 DEF Market
  <2>4. ASSUME NEW d \in Days, d # latest + 1 PROVE bars'[d] = bars[d]
    BY <1>1, <2>1, <2>4 DEF Market
  <2>5. ASSUME NEW d \in Days, NEW t \in Tickers, Printed(bars, t, d)
        PROVE  bars'[d][t] = bars[d][t]
    <3>1. d # latest + 1
      <4>1. d = latest + 1 => bars[d][t] = NoBar
        BY <1>0, <1>1 DEF Market
      <4>2. QED
        BY <1>3, <2>5, <4>1 DEF Printed
    <3>2. QED
      BY <2>4, <3>1
  <2>6. ASSUME NEW d \in Days, NEW t \in Tickers, d > latest + 1 PROVE bars'[d][t] = NoBar
    <3>1. d \in Int
      BY DaysInt
    <3>2. d > latest /\ d # latest + 1
      BY <1>0, <2>6, <3>1
    <3>3. QED
      BY <1>1, <2>4, <3>2 DEF Market
  <2>7. Market'
    BY <1>1, <1>2, <2>2, <2>3, <2>6 DEF Market
  <2>8. \A d \in Days, t \in Tickers : Printed(bars, t, d) => Printed(bars', t, d)
    BY <2>5 DEF Printed
  <2>9. Ledger(bars', fills, credits, settlements, cash, pos, LastStep)
    BY <1>0, <1>1, <2>8, LedgerLater
  <2>10. QED
    BY <1>0, <1>2, <2>5, <2>7, <2>9 DEF LedgerInv, LastStep
<1>5. ASSUME NEW x \in LateBars, LateBar(x)
      PROVE  LedgerInv' /\ \A d \in Days, t \in Tickers : Printed(bars, t, d) => bars'[d][t] = bars[d][t]
  <2> DEFINE u == x[1]
             e == x[2]
  <2>1. PICK b \in BarChoices : bars' = [bars EXCEPT ![e][u] = b]
    BY <1>5 DEF LateBar
  <2>2. u \in Tickers /\ e \in Days /\ e <= latest /\ ~Printed(bars, u, e) /\ latest' = latest
    BY <1>5, LeagueAssumption DEF LateBar, Days, Printed, Traded
  <2> HIDE DEF u, e
  <2>3. bars \in [Days -> [Tickers -> BarChoices \cup {NoBar}]]
    BY <1>1 DEF Market
  <2>4. bars' \in [Days -> [Tickers -> BarChoices \cup {NoBar}]]
    BY <2>1, <2>2, <2>3
  <2>5. ASSUME NEW d \in Days, NEW t \in Tickers, ~(d = e /\ t = u) PROVE bars'[d][t] = bars[d][t]
    BY <2>1, <2>2, <2>3, <2>5
  <2>6. ASSUME NEW d \in Days, NEW t \in Tickers, Printed(bars, t, d)
        PROVE  bars'[d][t] = bars[d][t]
    BY <2>2, <2>5, <2>6
  <2>7. ASSUME NEW d \in Days, NEW t \in Tickers, d > latest PROVE bars'[d][t] = NoBar
    <3>1. d # e
      BY <1>0, <2>2, <2>7, DaysInt
    <3>2. QED
      BY <1>1, <2>5, <2>7, <3>1 DEF Market
  <2>8. Market'
    BY <1>1, <1>2, <2>2, <2>4, <2>7 DEF Market
  <2>9. \A d \in Days, t \in Tickers : Printed(bars, t, d) => Printed(bars', t, d)
    BY <2>6 DEF Printed
  <2>10. Ledger(bars', fills, credits, settlements, cash, pos, LastStep)
    BY <1>0, <1>1, <2>9, LedgerLater
  <2>11. QED
    BY <1>0, <1>2, <2>6, <2>8, <2>10 DEF LedgerInv, LastStep
<1>6. QED
  BY <1>4, <1>5

\* The other rows of the store, and the owner's tickets.
LEMMA StoreKeeps ==
  ASSUME BooksInv, LedgerInv,
         \/ \E x \in Dividends : Publish(x)
         \/ \E t \in Dropped : Drop(t)
         \/ \E t \in Quarantinable : Quarantine(t)
         \/ \E o \in Tickets, sig \in 1 .. LastDay + 1 : SubmitTicket(o, sig)
         \/ \E i \in DOMAIN orders : CancelTicket(i)
  PROVE  LedgerInv' /\ bars' = bars /\ fills' = fills /\ tx = Idle /\ tx' = Idle
<1>0. tx = Idle
  BY TxPhases DEF BooksInv, Publish, Drop, Quarantine, SubmitTicket, CancelTicket
<1>1. Market /\ Ledger(bars, fills, credits, settlements, cash, pos, LastStep)
  BY <1>0 DEF LedgerInv
<1>2. UNCHANGED <<latest, bars, fills, credits, settlements, cash, pos, equity, tx>>
  BY DEF Publish, Drop, Quarantine, SubmitTicket, CancelTicket, book, market
<1>3. published' = published \/ \E x \in Dividends : published' = published \cup {x}
  BY DEF Publish, Drop, Quarantine, SubmitTicket, CancelTicket, market
<1>4. published' \subseteq Dividends /\ IsFiniteSet(published')
  BY <1>1, <1>3, FS_AddElement DEF Market
<1>5. Market'
  BY <1>1, <1>2, <1>4 DEF Market
<1>6. QED
  BY <1>0, <1>1, <1>2, <1>5 DEF LedgerInv, LastStep

\* A settlement, by the owner or by the close-out.
LEMMA ApplyKeeps ==
  ASSUME NEW n \in Days, Ledger(bars, fills, credits, settlements, cash, pos, n),
         NEW t \in Tickers, NEW term, term.price \in Nat, term.into \in Tickers, term.ratio \in Nat,
         NEW eff \in 1 .. n, NEW auto \in BOOLEAN, pos[t] # 0,
         Settleable(t, term, eff), ApplySettlement(t, term, eff, auto)
  PROVE  Ledger(bars, fills, credits, settlements', cash', pos', n)
<1> DEFINE x == [ticker |-> t, qty |-> pos[t], price |-> term.price, into |-> term.into,
                 ratio |-> term.ratio, eff |-> eff, auto |-> auto]
<1>0. n \in 0 .. LastDay /\ n \in n .. LastDay + 1 /\ n \in Nat
  BY DaysNat DEF Days
<1>1. pos \in [Tickers -> Nat]
  BY <1>0, BookEnds
<1>2. x \in Settlement
  BY <1>0, <1>1, DaysNat DEF Settlement, Days
<1>3. /\ x.ticker = t /\ x.qty = pos[t] /\ x.price = term.price /\ x.into = term.into
      /\ x.ratio = term.ratio /\ x.eff = eff
  OBVIOUS
<1>4. /\ settlements' = settlements \cup {x}
      /\ cash' = cash + pos[t] * term.price
      /\ pos' = SettledPos(t, term)
  BY DEF ApplySettlement
<1>5. x \notin settlements
  BY <1>3 DEF Settleable
<1> HIDE DEF x
<1>6. x.qty = pos[x.ticker] /\ x.qty > 0 /\ x.eff <= n
  BY <1>0, <1>1, <1>3
<1>7. \A d \in Days : d >= x.eff => ~Printed(bars, x.ticker, d)
  BY <1>3, PrintedMeans DEF Settleable
<1>8. x.ratio > 0 => x.into # x.ticker /\ \E d \in Days : d >= x.eff /\ Printed(bars, x.into, d)
  BY <1>3, PrintedMeans DEF Settleable
<1>9. Ledger(bars, fills, credits, settlements \cup {x}, cash + x.qty * x.price, SettledTo(pos, x), n)
  BY <1>2, <1>5, <1>6, <1>7, <1>8, SettlementKeeps
<1>10. pos' = SettledTo(pos, x)
  BY <1>3, <1>4 DEF SettledPos, SettledTo
<1>11. QED
  BY <1>3, <1>4, <1>9, <1>10

LEMMA SettleKeeps ==
  ASSUME ~SettleAhead, BooksInv, LedgerInv,
         NEW t \in Tickers, NEW term \in Terms, NEW eff \in 1 .. LastDay + 1, Settle(t, term, eff)
  PROVE  LedgerInv' /\ bars' = bars /\ fills' = fills /\ tx = Idle /\ tx' = Idle
<1>0. /\ tx = Idle /\ LastStep \in 0 .. LastDay /\ (LastStep # 0 => LastStep \in Days)
  BY Setting, TxPhases DEF BooksInv, Settle
<1>1. Market /\ Ledger(bars, fills, credits, settlements, cash, pos, LastStep)
  BY <1>0 DEF LedgerInv
<1>2. /\ eff \in 1 .. LastStep /\ pos[t] # 0 /\ Settleable(t, term, eff)
      /\ ApplySettlement(t, term, eff, FALSE)
      /\ UNCHANGED <<latest, bars, published, fills, credits, equity, tx>>
  BY DEF Settle
<1>3. LastStep \in Days
  BY <1>0, <1>2, DaysNat
<1>4. term.price \in Nat /\ term.into \in Tickers /\ term.ratio \in Nat
  BY LeagueAssumption
<1>5. Ledger(bars, fills, credits, settlements', cash', pos', LastStep)
  BY <1>1, <1>2, <1>3, <1>4, ApplyKeeps
<1>6. Market'
  BY <1>1, <1>2 DEF Market
<1>7. QED
  BY <1>0, <1>2, <1>5, <1>6 DEF LedgerInv, LastStep

-----------------------------------------------------------------------------
(* A transaction opens.                                                    *)

LEMMA OpenTxSaves ==
  ASSUME NEW d, NEW re
  PROVE  LET x == OpenTx(d, re) IN
         /\ OpenShape(x) /\ x.phase = "dividends" /\ x.day = d /\ x.buys = {}
         /\ x.saved.orders = orders /\ x.saved.fills = fills /\ x.saved.credits = credits
         /\ x.saved.settlements = settlements
         /\ x.saved.cash = cash /\ x.saved.pos = pos /\ x.saved.equity = equity
<1> DEFINE x == OpenTx(d, re)
<1>1. OpenShape(x) /\ x.phase = "dividends" /\ x.day = d /\ x.buys = {} /\ x.saved = Book
  BY DEF OpenTx, OpenShape
<1>2. /\ Book.orders = orders /\ Book.fills = fills /\ Book.credits = credits
      /\ Book.settlements = settlements
      /\ Book.cash = cash /\ Book.pos = pos /\ Book.equity = equity
  BY DEF Book
<1>3. QED
  BY <1>1, <1>2

LEMMA OpenPhase ==
  ASSUME NEW x, OpenShape(x)
  PROVE  x # Idle
<1>1. DOMAIN Idle = {"phase"}
  BY DEF Idle
<1>2. "day" \in DOMAIN x
  BY DEF OpenShape
<1>3. QED
  BY <1>1, <1>2

LEMMA OpensLedger ==
  ASSUME Shapes, Market, Ledger(bars, fills, credits, settlements, cash, pos, LastStep),
         NEW d, NEW re, tx' = OpenTx(d, re), UNCHANGED <<latest, bars, published>>,
         Ledger(bars, fills', credits', settlements', cash', pos', d), \A f \in fills' : f.day < d
  PROVE  LedgerInv'
<1>1. /\ OpenShape(tx') /\ tx'.phase = "dividends" /\ tx'.day = d
      /\ tx'.saved.fills = fills /\ tx'.saved.credits = credits
      /\ tx'.saved.settlements = settlements
      /\ tx'.saved.cash = cash /\ tx'.saved.pos = pos /\ tx'.saved.equity = equity
  BY OpenTxSaves
<1>2. tx' # Idle
  BY <1>1, OpenPhase
<1>3. LastStep = LastOf(tx'.saved.equity)
  BY <1>1, Setting
<1>4. Ledger(bars', tx'.saved.fills, tx'.saved.credits, tx'.saved.settlements,
             tx'.saved.cash, tx'.saved.pos, LastOf(tx'.saved.equity))
  BY <1>1, <1>3
<1>5. LedgerInTx'
  BY <1>1, <1>4 DEF LedgerInTx
<1>6. Market'
  BY DEF Market
<1>7. Idle' = Idle
  BY DEF Idle
<1>8. QED
  BY <1>2, <1>5, <1>6, <1>7 DEF LedgerInv

LEMMA BeginKeeps ==
  ASSUME ~Backdated, BooksInv, LedgerInv,
         NEW d \in Days, BeginNightly(d) \/ BeginManual(d)
  PROVE  LedgerInv'
<1>0. /\ Shapes /\ tx = Idle /\ LastStep \in 0 .. LastDay
      /\ (LastStep # 0 => LastStep \in equity)
  BY Setting, TxPhases DEF BooksInv, BeginNightly, BeginManual, Open
<1>1. Market /\ Ledger(bars, fills, credits, settlements, cash, pos, LastStep)
  BY <1>0 DEF LedgerInv
<1>2. /\ UNCHANGED <<latest, bars, published, fills, credits, settlements, cash, pos, equity>>
      /\ tx' = OpenTx(d, FALSE)
  BY DEF BeginNightly, BeginManual, book, market
<1>3. d \in Nat /\ d > LastStep
  <2>1. d \in Nat /\ d >= 1 /\ LastStep \in Nat
    BY <1>0, DaysNat DEF Days
  <2>2. CASE BeginNightly(d)
    <3>1. CASE equity = {}
      BY <1>0, <2>1, <3>1
    <3>2. CASE d = LastStep + 1
      BY <2>1, <3>2
    <3>3. QED
      BY <2>2, <3>1, <3>2 DEF BeginNightly
  <2>3. CASE BeginManual(d)
    BY <2>1, <2>3 DEF BeginManual
  <2>4. QED
    BY <2>2, <2>3
<1>4. \A f \in fills : f.day < d
  <2> SUFFICES ASSUME NEW f \in fills PROVE f.day < d
    OBVIOUS
  <2>1. f.day <= LastStep
    BY <1>1 DEF Ledger, Placed
  <2>2. f \in Fill
    BY <1>1, RecordsMean DEF Ledger
  <2>3. f.day \in Int
    BY <2>2, DaysInt DEF Fill
  <2>4. QED
    BY <1>0, <1>3, <2>1, <2>3
<1>5. Ledger(bars, fills, credits, settlements, cash, pos, d)
  BY <1>0, <1>1, <1>3, LedgerLater
<1>6. QED
  BY <1>0, <1>1, <1>2, <1>4, <1>5, OpensLedger

LEMMA RerunLedger ==
  ASSUME BooksInv, LedgerInv, NEW d \in Days, BeginRerun(d)
  PROVE  LedgerInv'
<1>0. Shapes /\ tx = Idle /\ d = LastStep /\ LastDay + 1 \in 0 .. LastDay + 1
  BY TxPhases, DaysNat DEF BooksInv, BeginRerun
<1>1. Market /\ Ledger(bars, fills, credits, settlements, cash, pos, d)
  BY <1>0 DEF LedgerInv
<1> DEFINE ft == FillsBut(fills, d)
           ct == CreditsBut(credits, d)
           r == Replay(ft, ct, settlements, LastDay + 1)
<1>2. /\ UNCHANGED <<latest, bars, published, settlements>> /\ tx' = OpenTx(d, TRUE)
      /\ fills' = ft /\ credits' = ct /\ cash' = r.cash /\ pos' = r.pos
  BY DEF BeginRerun, market, FillsBut, CreditsBut, Rebuilt
<1>3. Ledger(bars, ft, ct, settlements, Money(ft, ct, settlements, LastDay + 1),
             [t \in Tickers |-> Shares(ft, settlements, t, LastDay + 1)], d)
  BY <1>1, RerunKeeps
<1>4. \A f \in ft : f.day < d
  <2> SUFFICES ASSUME NEW f \in ft PROVE f.day < d
    OBVIOUS
  <2>1. f \in fills /\ f.day # d
    BY DEF FillsBut
  <2>2. f.day <= d /\ f \in Fill
    BY <1>1, <2>1, RecordsMean DEF Ledger, Placed
  <2>3. f.day \in Int
    BY <2>2, DaysInt DEF Fill
  <2>4. d \in Int
    BY DaysInt
  <2>5. QED
    BY <2>1, <2>2, <2>3, <2>4
<1> HIDE DEF ft, ct
<1>5. /\ r.cash = Money(ft, ct, settlements, LastDay + 1)
      /\ r.pos = [t \in Tickers |-> Shares(ft, settlements, t, LastDay + 1)]
  <2>1. /\ Records(ft, ct, settlements) /\ Solvent(ft, ct, settlements)
        /\ \A x \in settlements : x.ticker \in Rows(ft, settlements, x.eff - 1)
    BY <1>3 DEF Ledger, Placed
  <2>2. r.cash = Money(ft, ct, settlements, LastDay + 1) /\ r.pos = HeldAt(ft, settlements, LastDay + 1)
    BY <1>0, <2>1, ReplayMeans
  <2>3. QED
    BY <2>2 DEF HeldAt
<1> HIDE DEF r
<1>6. Ledger(bars, fills', credits', settlements', cash', pos', d)
  BY <1>2, <1>3, <1>5
<1>7. \A f \in fills' : f.day < d
  BY <1>2, <1>4
<1>8. QED
  BY <1>0, <1>1, <1>2, <1>6, <1>7, OpensLedger

-----------------------------------------------------------------------------
(* Dividends and close-outs.                                               *)

\* What a step of an open transaction has to show.
LEMMA OnwardLedger ==
  ASSUME Shapes, LedgerInv, tx # Idle, NEW ph, Onward(tx, tx', ph),
         UNCHANGED <<latest, bars, published>>,
         Ledger(bars, fills', credits', settlements', cash', pos', tx.day),
         ph \in {"dividends", "closeout"} => \A f \in fills' : f.day < tx.day,
         ph = "fill" => \A f \in fills' : f.side = "buy" => f.day < tx.day,
         ph \in {"fill", "buy"} => BuysReady',
         ph \in {"closeout", "fill"} =>
            \A x \in Unpaid' : Shares(fills', settlements', x[1], x[2] - 1) = 0
  PROVE  LedgerInv'
<1>1. Market /\ LedgerInTx
  BY DEF LedgerInv
<1>2. tx'.phase = ph /\ tx'.day = tx.day /\ tx'.saved = tx.saved /\ OpenShape(tx')
  BY DEF Onward
<1>3. tx' # Idle
  BY <1>2, OpenPhase
<1>4. Ledger(bars', tx'.saved.fills, tx'.saved.credits, tx'.saved.settlements,
             tx'.saved.cash, tx'.saved.pos, LastOf(tx'.saved.equity))
  BY <1>1, <1>2 DEF LedgerInTx
<1>5. Ledger(bars', fills', credits', settlements', cash', pos', tx'.day)
  BY <1>2
<1>6. LedgerInTx'
  BY <1>2, <1>4, <1>5 DEF LedgerInTx
<1>7. Market'
  BY <1>1 DEF Market
<1>8. Idle' = Idle
  BY DEF Idle
<1>9. QED
  BY <1>3, <1>6, <1>7, <1>8 DEF LedgerInv

\* The look-back window lies in the sessions up to that of the step.
LEMMA UnpaidMeans ==
  ASSUME Shapes, Market, tx # Idle, NEW x \in Unpaid
  PROVE  /\ x \in published /\ x = <<x[1], x[2]>> /\ x[1] \in Tickers /\ x[2] \in Days
         /\ x[2] \in Nat /\ x[2] <= tx.day /\ x[2] - 1 \in 0 .. LastDay + 1 /\ x[2] - 1 \in Int
         /\ ~\E c \in credits : c.ticker = x[1] /\ c.ex = x[2]
<1>1. x \in published /\ x[2] <= tx.day /\ ~\E c \in credits : c.ticker = x[1] /\ c.ex = x[2]
  BY DEF Unpaid
<1>2. x \in Tickers \X (1 .. LastDay)
  BY <1>1, LeagueAssumption DEF Market
<1>3. x = <<x[1], x[2]>> /\ x[1] \in Tickers /\ x[2] \in Days
  BY <1>2 DEF Days
<1>4. x[2] \in Nat /\ x[2] - 1 \in 0 .. LastDay + 1 /\ x[2] - 1 \in Int
  BY <1>3, DaysNat DEF Days
<1>5. QED
  BY <1>1, <1>3, <1>4

\* The entitlement is what the events leave at the close before the ex-date.
LEMMA EntitledMeans ==
  ASSUME Shapes, LedgerInv, tx # Idle, NEW x \in Unpaid
  PROVE  /\ Entitled(x) = Shares(fills, settlements, x[1], x[2] - 1)
         /\ Entitled(x) \in Nat
<1>1. Market /\ Ledger(bars, fills, credits, settlements, cash, pos, tx.day)
  BY DEF LedgerInv, LedgerInTx
<1>2. x[1] \in Tickers /\ x[2] - 1 \in 0 .. LastDay + 1
  BY <1>1, UnpaidMeans
<1>3. /\ Records(fills, credits, settlements) /\ Solvent(fills, credits, settlements)
      /\ \A y \in settlements : y.ticker \in Rows(fills, settlements, y.eff - 1)
  BY <1>1 DEF Ledger, Placed
<1>4. Replay(fills, credits, settlements, x[2] - 1).pos = HeldAt(fills, settlements, x[2] - 1)
  BY <1>2, <1>3, ReplayMeans
<1>5. Shares(fills, settlements, x[1], x[2] - 1) \in Nat
  BY <1>2, <1>3, NeverBelowZero
<1>6. QED
  BY <1>2, <1>4, <1>5 DEF Entitled, AtClose, HeldAt

LEMMA CreditLedger ==
  ASSUME BooksInv, LedgerInv, CreditDividends
  PROVE  LedgerInv'
<1>0. /\ Shapes /\ tx.phase = "dividends" /\ tx # Idle /\ OpenShape(tx) /\ tx.day \in Days
  BY TxPhases, Setting DEF BooksInv, CreditDividends, Phase
<1>1. /\ Market /\ Ledger(bars, fills, credits, settlements, cash, pos, tx.day)
      /\ \A f \in fills : f.day < tx.day
  BY <1>0 DEF LedgerInv, LedgerInTx
<1> DEFINE due == {x \in Unpaid : Entitled(x) # 0}
           h == [x \in due |-> [ticker |-> x[1], ex |-> x[2], qty |-> Entitled(x)]]
           g == [x \in due |-> Entitled(x)]
           new == {h[x] : x \in due}
           f == [k \in new |-> k.qty]
<1>2. /\ credits' = credits \cup {[ticker |-> x[1], ex |-> x[2], qty |-> Entitled(x)] : x \in due}
      /\ cash' = cash + SumOver(g, due)
      /\ UNCHANGED <<latest, bars, published, fills, settlements, pos, orders, equity>>
      /\ tx' = [tx EXCEPT !.phase = "closeout"]
  BY DEF CreditDividends, Enter, market, Sum
<1>3. credits' = credits \cup new
  BY <1>2
<1>4. \A x \in Unpaid : /\ Entitled(x) = Shares(fills, settlements, x[1], x[2] - 1)
                        /\ Entitled(x) \in Nat
  BY <1>0, EntitledMeans
<1>5. \A x \in due : /\ x = <<x[1], x[2]>> /\ x[1] \in Tickers /\ x[2] \in Days /\ x[2] <= tx.day
                     /\ x \in published /\ ~\E c \in credits : c.ticker = x[1] /\ c.ex = x[2]
  BY <1>0, <1>1, UnpaidMeans
<1>6. \A x \in due : h[x].ticker = x[1] /\ h[x].ex = x[2] /\ h[x].qty = Entitled(x)
  OBVIOUS
<1>7. /\ \A k \in new : \E x \in due : k = h[x]
      /\ \A x \in due : h[x] \in new
  OBVIOUS
<1>7a. \A x \in due : f[h[x]] = h[x].qty
  OBVIOUS
<1>7b. \A x \in due : g[x] = Entitled(x)
  OBVIOUS
<1>7c. \A x \in due : h[x] = [ticker |-> x[1], ex |-> x[2], qty |-> Entitled(x)]
  OBVIOUS
<1>8. IsFiniteSet(due)
  <2>1. due \subseteq published
    BY <1>5
  <2>2. QED
    BY <1>1, <2>1, FS_Subset DEF Market
<1>9. ASSUME NEW x \in Unpaid, x \notin due PROVE Entitled(x) = 0
  BY <1>9
<1>10. due \subseteq Unpaid /\ new = {h[x] : x \in due} /\ f = [k \in new |-> k.qty]
  OBVIOUS
<1> HIDE DEF due, h, g, new, f
<1>11. \A x \in due : g[x] \in Int /\ f[h[x]] = g[x]
  BY <1>4, <1>6, <1>10, <1>7a, <1>7b
<1>12. \A x, y \in due : h[x] = h[y] => x = y
  <2> SUFFICES ASSUME NEW x \in due, NEW y \in due, h[x] = h[y] PROVE x = y
    OBVIOUS
  <2>1. x[1] = y[1] /\ x[2] = y[2]
    BY <1>6
  <2>2. x = <<x[1], x[2]>> /\ y = <<y[1], y[2]>>
    BY <1>5
  <2>3. QED
    BY <2>1, <2>2
<1>13. IsFiniteSet(new) /\ SumOver(f, new) = SumOver(g, due)
  <2>1. new = Picked(h, due)
    BY <1>10 DEF Picked
  <2>2. QED
    BY <1>8, <1>11, <1>12, <2>1, SumImage
<1>14. new \subseteq Credit
  <2> SUFFICES ASSUME NEW x \in due PROVE h[x] \in Credit
    BY <1>7
  <2>1. x[1] \in Tickers /\ x[2] \in Days /\ Entitled(x) \in Nat
    BY <1>4, <1>5, <1>10
  <2>2. [ticker |-> x[1], ex |-> x[2], qty |-> Entitled(x)] \in Credit
    BY <2>1 DEF Credit
  <2>3. QED
    BY <1>7c, <2>2
<1>15. \A k \in new : k.ex <= tx.day /\ k.qty = Shares(fills, settlements, k.ticker, k.ex - 1)
  <2> SUFFICES ASSUME NEW x \in due
               PROVE  h[x].ex <= tx.day
                      /\ h[x].qty = Shares(fills, settlements, h[x].ticker, h[x].ex - 1)
    BY <1>7
  <2>1. x[2] <= tx.day /\ Entitled(x) = Shares(fills, settlements, x[1], x[2] - 1)
    BY <1>4, <1>5, <1>10
  <2>2. h[x].ticker = x[1] /\ h[x].ex = x[2] /\ h[x].qty = Entitled(x)
    BY <1>6
  <2>3. QED
    BY <2>1, <2>2
<1>16. \A k \in new, e \in credits : ~(k.ticker = e.ticker /\ k.ex = e.ex)
  BY <1>5, <1>6, <1>7
<1>17. Ledger(bars, fills, credits \cup new, settlements, cash + SumOver([k \in new |-> k.qty], new),
              pos, tx.day)
  BY <1>0, <1>1, <1>13, <1>14, <1>15, <1>16, CreditsKeep
<1>18. Ledger(bars, fills', credits', settlements', cash', pos', tx.day)
  BY <1>2, <1>3, <1>10, <1>13, <1>17
<1>19. Onward(tx, tx', "closeout")
  BY <1>0, <1>2 DEF Onward, OpenShape
<1>20. \A x \in Unpaid' : Shares(fills', settlements', x[1], x[2] - 1) = 0
  <2> SUFFICES ASSUME NEW x \in Unpaid' PROVE Shares(fills, settlements, x[1], x[2] - 1) = 0
    BY <1>2
  <2>1. tx'.day = tx.day
    BY <1>19 DEF Onward
  <2>2. x \in Unpaid /\ ~\E c \in credits' : c.ticker = x[1] /\ c.ex = x[2]
    BY <1>2, <1>3, <2>1 DEF Unpaid, EverHeld
  <2>3. x \notin due
    BY <1>3, <1>6, <1>7, <2>2
  <2>4. QED
    BY <1>4, <1>9, <2>2, <2>3
<1>21. \A e \in fills' : e.day < tx.day
  BY <1>1, <1>2
<1>22. UNCHANGED <<latest, bars, published>>
  BY <1>2
<1>23. QED
  BY <1>0, <1>18, <1>19, <1>20, <1>21, <1>22, OnwardLedger

LEMMA LastTradedIn ==
  ASSUME NEW t, NEW d \in Nat
  PROVE  LastTraded(t, d) \in 0 .. d
<1> DEFINE S == {e \in 1 .. d : Traded(t, e)}
<1>1. \E m \in S \cup {0} : \A x \in S \cup {0} : m >= x
  <2>1. CASE S = {}
    BY <2>1
  <2>2. CASE S # {}
    <3>1. Max(S) \in S /\ \A x \in S : x <= Max(S)
      BY <2>2, MaxIn
    <3>2. Max(S) \in 1 .. d /\ \A x \in S : x \in Nat
      BY <3>1
    <3> HIDE DEF S
    <3>3. QED
      BY <3>1, <3>2
  <2>3. QED
    BY <2>1, <2>2
<1>2. Max(S \cup {0}) \in S \cup {0}
  <2> HIDE DEF S
  <2>1. QED
    BY <1>1 DEF Max
<1>3. QED
  BY <1>2 DEF LastTraded

LEMMA BarMeans ==
  ASSUME Market, NEW d \in Days, NEW t \in Tickers
  PROVE  LET b == bars[d][t] IN
         /\ b.px \in Nat /\ b.cap \in Nat
         /\ Traded(t, d) => b.px > 0 /\ b.px > Slip /\ BuyPx(b) \in Nat \ {0} /\ SellPx(b) \in Nat \ {0}
                            /\ b.px <= BuyPx(b)
<1>1. bars[d][t] \in BarChoices \cup {NoBar}
  BY DEF Market
<1>2. CASE bars[d][t] = NoBar
  <2>1. NoBar.px = 0 /\ NoBar.cap = 0
    BY DEF NoBar
  <2>2. QED
    BY <1>2, <2>1 DEF Traded
<1>3. CASE bars[d][t] \in BarChoices
  <2>1. bars[d][t].px \in Nat /\ bars[d][t].px > Slip /\ bars[d][t].cap \in Nat /\ Slip \in Nat
    BY <1>3, LeagueAssumption
  <2>2. QED
    BY <2>1 DEF BuyPx, SellPx
<1>4. QED
  BY <1>1, <1>2, <1>3

LEMMA CloseOutLedger ==
  ASSUME BooksInv, LedgerInv, NEW t \in Tickers, CloseOut(t)
  PROVE  LedgerInv'
<1>0. /\ Shapes /\ tx.phase = "closeout" /\ tx # Idle /\ OpenShape(tx) /\ tx.day \in Days
      /\ tx.day \in Nat
  BY TxPhases, Setting DEF BooksInv, CloseOut, Phase
<1>1. /\ Market /\ Ledger(bars, fills, credits, settlements, cash, pos, tx.day)
      /\ \A f \in fills : f.day < tx.day
      /\ \A x \in Unpaid : Shares(fills, settlements, x[1], x[2] - 1) = 0
  BY <1>0 DEF LedgerInv, LedgerInTx
<1> DEFINE last == LastTraded(t, tx.day)
           term == [price |-> bars[last][t].px, into |-> t, ratio |-> 0]
           eff == last + 1
<1>2. /\ Delisted(t, tx.day) /\ Settleable(t, term, eff) /\ ApplySettlement(t, term, eff, TRUE)
      /\ UNCHANGED <<latest, bars, published, fills, credits, equity, tx>>
  BY DEF CloseOut, market
<1>3. /\ pos[t] # 0 /\ last > 0 /\ tx.day - last >= DELISTED_AFTER_SESSIONS
  BY <1>2 DEF Delisted
<1>4. last \in 0 .. tx.day
  BY <1>0, LastTradedIn
<1> HIDE DEF last
<1>5. last \in Nat /\ eff \in 1 .. tx.day
  BY <1>0, <1>3, <1>4, LeagueAssumption
<1>6. last \in Days
  BY <1>0, <1>3, <1>4, DaysNat DEF Days
<1>7. term.price = bars[last][t].px /\ term.into = t /\ term.ratio = 0 /\ bars[last][t].px \in Nat
  BY <1>1, <1>6, BarMeans
<1> HIDE DEF term, eff
<1>8. term.price \in Nat /\ term.into \in Tickers /\ term.ratio \in Nat
  BY <1>7
<1>9. Ledger(bars, fills, credits, settlements', cash', pos', tx.day)
  BY <1>0, <1>1, <1>2, <1>3, <1>5, <1>8, ApplyKeeps
<1>10. Ledger(bars, fills', credits', settlements', cash', pos', tx.day)
  BY <1>2, <1>9
<1>11. Onward(tx, tx', "closeout")
  BY <1>0, <1>2 DEF Onward
<1> DEFINE y == [ticker |-> t, qty |-> pos[t], price |-> term.price, into |-> term.into,
                 ratio |-> term.ratio, eff |-> eff, auto |-> TRUE]
<1>12. /\ settlements' = settlements \cup {y} /\ y.ratio = 0 /\ y.ticker = t /\ y.qty = pos[t]
       /\ y.eff = eff /\ y.into = t
  BY <1>2, <1>7 DEF ApplySettlement
<1>13. y \in Settlement /\ y \notin settlements /\ pos[t] \in Nat
  <2>1. pos \in [Tickers -> Nat]
    <3>1. tx.day \in 0 .. LastDay /\ tx.day \in tx.day .. LastDay + 1
      BY <1>0, DaysNat DEF Days
    <3>2. QED
      BY <1>1, <3>1, BookEnds
  <2>2. eff \in 1 .. LastDay + 1
    BY <1>0, <1>5, DaysNat DEF Days
  <2>3. y \in Settlement
    BY <1>8, <2>1, <2>2 DEF Settlement
  <2>4. y \notin settlements
    BY <1>2, <1>12 DEF Settleable
  <2>5. QED
    BY <2>1, <2>3, <2>4
<1> HIDE DEF y
<1>14. \A x \in Unpaid' : Shares(fills', settlements', x[1], x[2] - 1) = 0
  <2> SUFFICES ASSUME NEW x \in Unpaid' PROVE Shares(fills, settlements', x[1], x[2] - 1) = 0
    BY <1>2
  <2>1. Conversions(settlements') = Conversions(settlements)
    BY <1>12 DEF Conversions
  <2>2. x \in Unpaid
    BY <1>2, <2>1 DEF Unpaid, EverHeld
  <2>3. /\ x[1] \in Tickers /\ x[2] \in Nat /\ x[2] <= tx.day /\ x[2] - 1 \in 0 .. LastDay + 1
        /\ x[2] - 1 \in Int
    BY <1>0, <1>1, <2>2, UnpaidMeans
  <2>4. PICK d \in 0 .. LastDay + 1 : d = x[2] - 1 /\ d \in Int
    BY <2>3
  <2>5. Shares(fills, settlements, x[1], d) = 0
    BY <1>1, <2>2, <2>4
  <2>6. Records(fills, credits, settlements) /\ Solvent(fills, credits, settlements)
    BY <1>1 DEF Ledger
  <2>7. Shares(fills, settlements \cup {y}, x[1], d)
          = Shares(fills, settlements, x[1], d) + SettledShares(y, x[1], d)
    BY <1>13, <2>4, <2>6, SettlementAdds
  <2>8. ~(eff <= d /\ x[1] = t)
    <3> SUFFICES ASSUME eff <= d, x[1] = t PROVE FALSE
      OBVIOUS
    <3>1. \A e \in Days : e >= eff => ~Printed(bars, t, e)
      BY <1>2, PrintedMeans DEF Settleable
    <3>2. \A e \in eff .. LastDay + 1 : OpenShares(fills, settlements, t, e) >= pos[t]
      BY <1>0, <1>1, <1>5, <3>1, DeadSince
    <3>3. d \in eff .. LastDay + 1
      BY <1>5, <2>4, DaysNat
    <3>4. OpenShares(fills, settlements, t, d) >= pos[t]
      BY <3>2, <3>3
    <3>5. OpenShares(fills, settlements, t, d) <= Shares(fills, settlements, t, d)
      BY <2>4, <2>6, OpenBelow
    <3>6. OpenShares(fills, settlements, t, d) \in Int
      BY <2>4, <2>6, TotalsTyped
    <3>7. QED
      BY <1>3, <1>13, <2>5, <3>4, <3>5, <3>6
  <2>9. SettledShares(y, x[1], d) = 0
    <3>1. y.qty * y.ratio = 0
      BY <1>12, <1>13
    <3>2. QED
      BY <1>12, <2>8, <3>1 DEF SettledShares
  <2>10. QED
    BY <1>12, <2>4, <2>5, <2>7, <2>9
<1>15. \A f \in fills' : f.day < tx.day
  BY <1>1, <1>2
<1>16. UNCHANGED <<latest, bars, published>>
  BY <1>2
<1>17. QED
  BY <1>0, <1>10, <1>11, <1>14, <1>15, <1>16, OnwardLedger

LEMMA CloseOutDoneLedger ==
  ASSUME BooksInv, LedgerInv, CloseOutDone
  PROVE  LedgerInv'
<1>0. /\ Shapes /\ tx.phase = "closeout" /\ tx # Idle /\ OpenShape(tx) /\ tx.day \in Nat
      /\ tx.buys = {}
  BY TxPhases DEF BooksInv, CloseOutDone, Phase, TodoDue
<1>1. /\ Market /\ Ledger(bars, fills, credits, settlements, cash, pos, tx.day)
      /\ \A f \in fills : f.day < tx.day
      /\ \A x \in Unpaid : Shares(fills, settlements, x[1], x[2] - 1) = 0
  BY <1>0 DEF LedgerInv, LedgerInTx
<1> DEFINE todo == {i \in PendingOrders : Due(i, tx.day)}
<1>2. /\ UNCHANGED <<latest, bars, published, orders, fills, credits, settlements, cash, pos, equity>>
      /\ tx' = [tx EXCEPT !.phase = "fill", !.todo = todo]
  BY DEF CloseOutDone, market, book
<1> HIDE DEF todo
<1>3. Onward(tx, tx', "fill") /\ tx'.buys = {}
  BY <1>0, <1>2 DEF Onward, OpenShape
<1>4. Ledger(bars, fills', credits', settlements', cash', pos', tx.day)
  BY <1>1, <1>2
<1>5. \A f \in fills' : f.side = "buy" => f.day < tx.day
  BY <1>1, <1>2
<1>6. BuysReady'
  BY <1>3 DEF BuysReady, Onward
<1>7. \A x \in Unpaid' : Shares(fills', settlements', x[1], x[2] - 1) = 0
  <2>1. Unpaid' = Unpaid
    BY <1>2, <1>3 DEF Unpaid, EverHeld, Conversions, Onward
  <2>2. QED
    BY <1>1, <1>2, <2>1
<1>8. UNCHANGED <<latest, bars, published>>
  BY <1>2
<1>9. QED
  BY <1>0, <1>3, <1>4, <1>5, <1>6, <1>7, <1>8, OnwardLedger

-----------------------------------------------------------------------------
(* Fills.                                                                  *)

LEMMA MinPair ==
  ASSUME NEW a \in Int, NEW b \in Int
  PROVE  Min({a, b}) \in Int /\ Min({a, b}) \in {a, b} /\ Min({a, b}) <= a /\ Min({a, b}) <= b
<1>1. \E m \in {a, b} : \A x \in {a, b} : m <= x
  BY a <= b \/ b <= a
<1>2. Min({a, b}) \in {a, b} /\ \A x \in {a, b} : Min({a, b}) <= x
  BY <1>1 DEF Min
<1>3. QED
  BY <1>2

\* A smaller factor makes a smaller product.
LEMMA TimesLess ==
  ASSUME NEW a \in Nat, NEW b \in Nat, NEW p \in Nat, a <= b
  PROVE  a * p <= b * p
OBVIOUS

\* What a division leaves is no more than what was divided.
LEMMA Quotient ==
  ASSUME NEW a \in Nat, NEW b \in Nat \ {0}
  PROVE  a \div b \in Nat /\ (a \div b) * b <= a
OBVIOUS

LEMMA ScaledDown ==
  ASSUME NEW q \in Nat, NEW budget \in Nat, NEW wanted \in Nat \ {0}, budget < wanted
  PROVE  (q * budget) \div wanted \in Nat /\ (q * budget) \div wanted <= q
<1> DEFINE k == (q * budget) \div wanted
<1>1. q * budget \in Nat /\ q * budget <= q * wanted
  OBVIOUS
<1>2. k \in Nat /\ k * wanted <= q * budget
  BY <1>1, Quotient
<1> HIDE DEF k
<1>3. k * wanted <= q * wanted
  BY <1>1, <1>2
<1>4. ~(k > q)
  <2> SUFFICES ASSUME k >= q + 1 PROVE FALSE
    BY <1>2
  <2>1. (q + 1) * wanted <= k * wanted
    BY <1>2, TimesLess
  <2>2. (q + 1) * wanted = q * wanted + wanted
    OBVIOUS
  <2>3. QED
    BY <1>2, <1>3, <2>1, <2>2
<1>5. QED
  BY <1>2, <1>4 DEF k

\* Order i is filled by f.
Executed(i, f) ==
    LET b == bars[tx.day][orders[i].ticker]
    IN /\ f \in Fill /\ f.order = i /\ f.day = tx.day
       /\ f.ticker = orders[i].ticker /\ f.side = orders[i].side /\ Traded(f.ticker, tx.day)
       /\ f.px = (IF f.side = "buy" THEN BuyPx(b) ELSE SellPx(b))
       /\ f.qty <= orders[i].qty /\ f.qty * b.px <= b.cap
       /\ f.side = "sell" => f.qty <= pos[f.ticker]
       /\ f.side = "buy" => f.qty * f.px <= cash
       /\ fills' = fills \cup {f}
       /\ cash' = cash - Way(f) * (f.qty * f.px)
       /\ pos' = [pos EXCEPT ![f.ticker] = pos[f.ticker] + Way(f) * f.qty]

\* Order i of the session is dealt with: a sell in phase "fill", a buy in "buy".
Trades(i) ==
    /\ tx # Idle /\ i \in DOMAIN orders /\ i \in Pending(orders) /\ orders[i].sig < tx.day
    /\ tx.phase = (IF orders[i].side = "buy" THEN "buy" ELSE "fill") /\ Onward(tx, tx', tx.phase)
    /\ tx'.buys \subseteq tx.buys /\ i \notin tx'.buys
    /\ tx'.budget = tx.budget /\ tx'.wanted = tx.wanted
    /\ DOMAIN orders' = DOMAIN orders /\ \A j \in DOMAIN orders : j # i => orders'[j] = orders[j]
    /\ Kept(orders[i], orders'[i])
    /\ UNCHANGED <<latest, bars, published, credits, settlements, equity>>
    /\ \/ UNCHANGED <<fills, cash, pos>>
       \/ \E f : Executed(i, f)

LEMMA SellQtyMeans ==
  ASSUME NEW i, orders[i].qty \in Int, pos[orders[i].ticker] \in Int
  PROVE  /\ SellQty(i) \in Int /\ SellQty(i) <= orders[i].qty
         /\ SellQty(i) <= pos[orders[i].ticker]
<1> DEFINE a == orders[i].qty
           b == pos[orders[i].ticker]
<1>1. SellQty(i) = Min({a, b}) /\ a \in Int /\ b \in Int
  BY DEF SellQty
<1> HIDE DEF a, b
<1>2. SellQty(i) \in Int /\ SellQty(i) <= a /\ SellQty(i) <= b
  BY <1>1, MinPair
<1>3. QED
  BY <1>2 DEF a, b

LEMMA SellTrades ==
  ASSUME BooksInv, LedgerInv, NEW i \in DOMAIN orders, FillSell(i)
  PROVE  Trades(i)
<1>0. /\ Shapes /\ TodoDue /\ tx.phase = "fill" /\ tx # Idle /\ OpenShape(tx) /\ tx.day \in Days
      /\ tx.day \in Nat
      /\ nextId \in Nat /\ DOMAIN orders \subseteq 1 .. nextId - 1
      /\ \A j \in DOMAIN orders : orders[j] \in Order
  BY TxPhases, Setting DEF BooksInv, FillSell, Phase
<1>1. Market /\ Ledger(bars, fills, credits, settlements, cash, pos, tx.day)
  BY <1>0 DEF LedgerInv, LedgerInTx
<1> DEFINE o == orders[i]
           qty == SellQty(i)
           b == bars[tx.day][o.ticker]
           outcome == IF qty <= 0 THEN "no_position" ELSE AttemptFill(o, qty, tx.day)
           px == SellPx(b)
           f == FillRow(i, qty, px)
<1>2. /\ TodoSells # {} /\ i = Min(TodoSells) /\ tx' = Done(i)
      /\ UNCHANGED <<latest, bars, published, credits, settlements, equity>>
  BY DEF FillSell, market
<1>3. \/ /\ outcome = "filled" /\ fills' = fills \cup {f}
         /\ cash' = cash + qty * px /\ pos' = [pos EXCEPT ![o.ticker] = pos[o.ticker] - qty]
         /\ orders' = Status(i, "filled", "none")
      \/ /\ outcome # "filled" /\ UNCHANGED <<fills, cash, pos>>
         /\ orders' = IF outcome = "pending" THEN orders ELSE Status(i, "rejected", outcome)
  BY DEF FillSell
<1>4. outcome \in {"no_position", "no_bar", "pending", "illiquid", "filled"}
  BY DEF AttemptFill
<1>5. outcome = "filled" => qty > 0 /\ Traded(o.ticker, tx.day) /\ qty * b.px <= b.cap
  <2> SUFFICES ASSUME outcome = "filled"
               PROVE  qty > 0 /\ Traded(o.ticker, tx.day) /\ qty * b.px <= b.cap
    OBVIOUS
  <2>1. ~(qty <= 0) /\ AttemptFill(o, qty, tx.day) = "filled"
    OBVIOUS
  <2>2. Traded(o.ticker, tx.day) /\ ~(qty * b.px > b.cap)
    BY <2>1 DEF AttemptFill
  <2>3. o.ticker \in Tickers /\ o.qty \in Nat
    BY <1>0 DEF Order
  <2>4. b.px \in Nat /\ b.cap \in Nat
    BY <1>0, <1>1, <2>3, BarMeans
  <2>5. pos[o.ticker] \in Int
    <3>1. tx.day \in 0 .. LastDay /\ tx.day \in tx.day .. LastDay + 1
      BY <1>0, DaysNat DEF Days
    <3>2. pos \in [Tickers -> Nat]
      BY <1>1, <3>1, BookEnds
    <3>3. QED
      BY <2>3, <3>2
  <2>6. qty \in Int
    BY <2>3, <2>5, SellQtyMeans
  <2>7. qty * b.px \in Int
    BY <2>4, <2>6
  <2> HIDE DEF qty, b
  <2>8. QED
    BY <2>1, <2>2, <2>4, <2>6, <2>7
<1>6. i \in tx.todo /\ i \in Pending(orders) /\ o.sig < tx.day /\ i \notin tx.buys /\ o.side = "sell"
  <2>1. TodoSells \subseteq DOMAIN orders
    BY <1>0 DEF TodoSells, TodoDue, Todo, Pending
  <2>2. TodoSells \in SUBSET Nat
    BY <1>0, <2>1
  <2>3. i \in TodoSells
    BY <1>2, <2>2, MinIn
  <2>4. QED
    BY <1>0, <2>3 DEF TodoSells, TodoDue, Todo
<1>7. /\ Onward(tx, tx', "fill") /\ tx'.buys = tx.buys
      /\ tx'.budget = tx.budget /\ tx'.wanted = tx.wanted
  BY <1>0, <1>2 DEF Done, OpenShape, Onward
<1>8. /\ DOMAIN orders' = DOMAIN orders /\ \A j \in DOMAIN orders : j # i => orders'[j] = orders[j]
      /\ Kept(orders[i], orders'[i])
  <2> HIDE DEF outcome
  <2>1. CASE outcome = "filled"
    <3>1. Restated(orders, orders', i, "filled")
      BY <1>0, <1>3, <2>1, StatusMeans
    <3>2. QED
      BY <3>1 DEF Restated
  <2>2. CASE outcome = "pending"
    <3>1. orders' = orders
      BY <1>3, <2>2
    <3>2. QED
      BY <1>0, <3>1 DEF Kept
  <2>3. CASE outcome \in {"no_position", "no_bar", "illiquid"}
    <3>1. Restated(orders, orders', i, "rejected")
      BY <1>0, <1>3, <2>3, StatusMeans
    <3>2. QED
      BY <3>1 DEF Restated
  <2>4. QED
    BY <1>4, <2>1, <2>2, <2>3
<1>9. ASSUME outcome = "filled" PROVE Executed(i, f)
  <2>1. /\ f.order = i /\ f.ticker = o.ticker /\ f.side = o.side /\ f.qty = qty /\ f.px = px
        /\ f.day = tx.day
    BY DEF FillRow
  <2>2. o.ticker \in Tickers /\ o.qty \in Nat /\ i \in Nat
    BY <1>0 DEF Order
  <2>3. pos \in [Tickers -> Nat] /\ cash \in Nat
    <3>1. tx.day \in 0 .. LastDay /\ tx.day \in tx.day .. LastDay + 1
      BY <1>0, DaysNat DEF Days
    <3>2. QED
      BY <1>1, <3>1, BookEnds
  <2>4. qty \in Int /\ qty <= o.qty /\ qty <= pos[o.ticker]
    <3>1. o.qty \in Int /\ pos[o.ticker] \in Int
      BY <2>2, <2>3
    <3>2. QED
      BY <3>1, SellQtyMeans
  <2>5. qty > 0 /\ Traded(o.ticker, tx.day) /\ qty * b.px <= b.cap
    BY <1>5, <1>9
  <2>6. px \in Nat \ {0} /\ b.px \in Nat
    BY <1>0, <1>1, <2>2, <2>5, BarMeans
  <2> HIDE DEF px, qty
  <2>7. f \in Fill
    <3>1. qty \in Nat \ {0}
      BY <2>4, <2>5
    <3>2. QED
      BY <1>0, <1>6, <2>2, <2>6, <3>1 DEF FillRow, Fill
  <2>8. Way(f) = -1
    BY <1>6, <2>1 DEF Way
  <2> HIDE DEF f
  <2>9. cash' = cash - Way(f) * (f.qty * f.px)
    <3>1. PICK v \in Int : v = qty * px
      BY <2>4, <2>6
    <3>2. cash' = cash + v
      BY <1>3, <1>9, <3>1
    <3>3. QED
      BY <2>1, <2>3, <2>8, <3>1, <3>2
  <2>10. pos' = [pos EXCEPT ![f.ticker] = pos[f.ticker] + Way(f) * f.qty]
    <3>1. pos' = [pos EXCEPT ![o.ticker] = pos[o.ticker] - qty]
      BY <1>3, <1>9
    <3>2. pos[o.ticker] - qty = pos[f.ticker] + Way(f) * f.qty
      BY <2>1, <2>2, <2>3, <2>4, <2>8
    <3>3. QED
      BY <2>1, <3>1, <3>2
  <2>11. f.px = SellPx(b) /\ f.side = "sell" /\ fills' = fills \cup {f}
    BY <1>3, <1>6, <1>9, <2>1 DEF px
  <2>12. QED
    BY <2>1, <2>4, <2>5, <2>7, <2>9, <2>10, <2>11 DEF Executed
<1>10. UNCHANGED <<fills, cash, pos>> \/ \E g : Executed(i, g)
  <2>1. CASE outcome = "filled"
    BY <1>9, <2>1
  <2>2. CASE outcome # "filled"
    BY <1>3, <2>2
  <2>3. QED
    BY <2>1, <2>2
<1>11. QED
  BY <1>0, <1>2, <1>6, <1>7, <1>8, <1>10 DEF Trades

\* What a buy of the session is cut to.
LEMMA BuyQtyMeans ==
  ASSUME tx.budget \in Nat, tx.wanted \in Nat \ {0}, cash \in Nat, NEW q \in Nat, NEW px \in Nat \ {0}
  PROVE  LET k == Min({Scaled(q), cash \div px}) IN k \in Nat /\ k <= q /\ k * px <= cash
<1> DEFINE a == Scaled(q)
           b == cash \div px
           k == Min({a, b})
<1>1. a \in Nat /\ a <= q
  <2>1. CASE tx.wanted > tx.budget
    <3>1. (q * tx.budget) \div tx.wanted \in Nat /\ (q * tx.budget) \div tx.wanted <= q
      BY <2>1, ScaledDown
    <3>2. QED
      BY <2>1, <3>1 DEF Scaled
  <2>2. CASE ~(tx.wanted > tx.budget)
    BY <2>2 DEF Scaled
  <2>3. QED
    BY <2>1, <2>2
<1>2. b \in Nat /\ b * px <= cash
  BY Quotient
<1> HIDE DEF a, b
<1>3. k \in {a, b} /\ k <= a /\ k <= b
  BY <1>1, <1>2, MinPair
<1> HIDE DEF k
<1>4. k \in Nat
  BY <1>1, <1>2, <1>3
<1>5. k * px <= b * px
  BY <1>2, <1>3, <1>4, TimesLess
<1>6. k * px \in Nat /\ b * px \in Nat
  BY <1>2, <1>4
<1>7. k <= q /\ k * px <= cash
  BY <1>1, <1>2, <1>3, <1>4, <1>5, <1>6
<1>8. QED
  BY <1>4, <1>7 DEF k, a, b

LEMMA BuyTrades ==
  ASSUME BooksInv, LedgerInv, NEW i \in DOMAIN orders, FillBuy(i)
  PROVE  Trades(i)
<1>0. /\ Shapes /\ TodoDue /\ tx.phase = "buy" /\ tx # Idle /\ OpenShape(tx) /\ tx.day \in Days
      /\ tx.day \in Nat
      /\ nextId \in Nat /\ DOMAIN orders \subseteq 1 .. nextId - 1
      /\ \A j \in DOMAIN orders : orders[j] \in Order
  BY TxPhases, Setting DEF BooksInv, FillBuy, Phase
<1>1. Market /\ Ledger(bars, fills, credits, settlements, cash, pos, tx.day) /\ BuysReady
  BY <1>0 DEF LedgerInv, LedgerInTx
<1> DEFINE o == orders[i]
           b == bars[tx.day][o.ticker]
           px == BuyPx(b)
           qty == Min({Scaled(o.qty), cash \div px})
           f == FillRow(i, qty, px)
<1>2. /\ tx.buys # {} /\ i = Min(tx.buys) /\ tx' = [tx EXCEPT !.buys = tx.buys \ {i}]
      /\ UNCHANGED <<latest, bars, published, credits, settlements, equity>>
  BY DEF FillBuy, market
<1>3. \/ /\ qty # 0 /\ fills' = fills \cup {f}
         /\ cash' = cash - qty * px /\ pos' = [pos EXCEPT ![o.ticker] = pos[o.ticker] + qty]
         /\ orders' = Status(i, "filled", "none")
      \/ /\ qty = 0 /\ UNCHANGED <<fills, cash, pos>>
         /\ orders' = Status(i, "rejected", "insufficient_cash")
  BY DEF FillBuy
<1>4. i \in tx.buys /\ i \in Pending(orders) /\ o.sig < tx.day
  <2>1. tx.buys \subseteq DOMAIN orders
    BY <1>0 DEF TodoDue, Todo, Pending
  <2>2. tx.buys \in SUBSET Nat
    BY <1>0, <2>1
  <2>3. i \in tx.buys
    BY <1>2, <2>2, MinIn
  <2>4. QED
    BY <1>0, <2>3 DEF TodoDue, Todo
<1>5. /\ o.side = "buy" /\ Traded(o.ticker, tx.day) /\ o.qty * b.px <= b.cap
      /\ tx.budget \in Nat /\ tx.wanted \in Nat \ {0}
  BY <1>0, <1>1, <1>4 DEF BuysReady
<1>6. o.ticker \in Tickers /\ o.qty \in Nat /\ i \in Nat
  BY <1>0 DEF Order
<1>7. pos \in [Tickers -> Nat] /\ cash \in Nat
  <2>1. tx.day \in 0 .. LastDay /\ tx.day \in tx.day .. LastDay + 1
    BY <1>0, DaysNat DEF Days
  <2>2. QED
    BY <1>1, <2>1, BookEnds
<1>8. px \in Nat \ {0} /\ b.px \in Nat /\ b.cap \in Nat
  BY <1>0, <1>1, <1>5, <1>6, BarMeans
<1>9. qty \in Nat /\ qty <= o.qty /\ qty * px <= cash
  <2> HIDE DEF px, o
  <2>1. QED
    BY <1>5, <1>6, <1>7, <1>8, BuyQtyMeans
<1>10. /\ f.order = i /\ f.ticker = o.ticker /\ f.side = o.side /\ f.qty = qty /\ f.px = px
       /\ f.day = tx.day
  BY DEF FillRow
<1>11. /\ DOMAIN orders' = DOMAIN orders /\ \A j \in DOMAIN orders : j # i => orders'[j] = orders[j]
       /\ Kept(orders[i], orders'[i])
  <2>1. PICK st \in {"filled", "rejected"}, why \in {"none", "insufficient_cash"} :
           orders' = Status(i, st, why)
    BY <1>3
  <2>2. Restated(orders, orders', i, st)
    BY <1>0, <2>1, StatusMeans
  <2>3. QED
    BY <2>2 DEF Restated
<1> HIDE DEF qty
<1>12. ASSUME qty # 0 PROVE f \in Fill
  <2>1. qty \in Nat \ {0}
    BY <1>9, <1>12
  <2> HIDE DEF px
  <2>2. QED
    BY <1>0, <1>5, <1>6, <1>8, <2>1 DEF FillRow, Fill
<1>13. qty * b.px <= b.cap
  <2>1. qty * b.px <= o.qty * b.px
    BY <1>6, <1>8, <1>9, TimesLess
  <2>2. PICK v \in Nat, w \in Nat : v = qty * b.px /\ w = o.qty * b.px
    BY <1>6, <1>8, <1>9
  <2>3. QED
    BY <1>5, <1>8, <2>1, <2>2
<1>14. Way(f) = 1
  BY <1>5, <1>10 DEF Way
<1>15. f.px = BuyPx(b)
  BY <1>10
<1> HIDE DEF f, px
<1>16. ASSUME qty # 0 PROVE Executed(i, f)
  <2>1. /\ fills' = fills \cup {f}
        /\ cash' = cash - qty * px /\ pos' = [pos EXCEPT ![o.ticker] = pos[o.ticker] + qty]
    BY <1>3, <1>16
  <2>2. cash' = cash - Way(f) * (f.qty * f.px)
    <3>1. PICK v \in Nat : v = qty * px
      BY <1>8, <1>9
    <3>2. QED
      BY <1>7, <1>10, <1>14, <2>1, <3>1
  <2>3. pos' = [pos EXCEPT ![f.ticker] = pos[f.ticker] + Way(f) * f.qty]
    <3>1. pos[o.ticker] + qty = pos[f.ticker] + Way(f) * f.qty
      BY <1>6, <1>7, <1>9, <1>10, <1>14
    <3>2. QED
      BY <1>10, <2>1, <3>1
  <2>4. f \in Fill
    BY <1>12, <1>16
  <2>5. f.side = "buy" /\ f.qty * f.px <= cash /\ f.qty <= o.qty /\ f.qty * b.px <= b.cap
    BY <1>5, <1>9, <1>10, <1>13
  <2>6. QED
    BY <1>5, <1>10, <1>15, <2>1, <2>2, <2>3, <2>4, <2>5 DEF Executed
<1>17. UNCHANGED <<fills, cash, pos>> \/ \E g : Executed(i, g)
  <2>1. CASE qty = 0
    BY <1>3, <2>1
  <2>2. CASE qty # 0
    BY <1>16, <2>2
  <2>3. QED
    BY <2>1, <2>2
<1>18. /\ Onward(tx, tx', "buy") /\ tx'.buys = tx.buys \ {i}
       /\ tx'.budget = tx.budget /\ tx'.wanted = tx.wanted
  BY <1>0, <1>2 DEF OpenShape, Onward
<1>19. QED
  BY <1>0, <1>2, <1>4, <1>5, <1>11, <1>17, <1>18 DEF Trades

\* A fill of the session leaves every dividend of the window paid: it moves no
\* earlier close, and a name that is sold was received before.
LEMMA TradeUnpaid ==
  ASSUME Shapes, LedgerInv, tx # Idle, tx.phase = "fill", NEW i, NEW f, Executed(i, f), f.side = "sell",
         UNCHANGED <<published, credits, settlements>>, tx'.day = tx.day,
         f \notin fills
  PROVE  \A x \in Unpaid' : Shares(fills', settlements', x[1], x[2] - 1) = 0
<1>0. /\ tx.day \in Days /\ tx.day \in Nat /\ tx.day \in 0 .. LastDay
      /\ tx.day \in tx.day .. LastDay + 1
  <2>1. tx.day \in Days
    BY Setting
  <2>2. QED
    BY <2>1, DaysNat DEF Days
<1>1. /\ Market /\ Ledger(bars, fills, credits, settlements, cash, pos, tx.day)
      /\ \A x \in Unpaid : Shares(fills, settlements, x[1], x[2] - 1) = 0
  BY DEF LedgerInv, LedgerInTx
<1>2. /\ f \in Fill /\ f.day = tx.day /\ f.qty <= pos[f.ticker] /\ fills' = fills \cup {f}
  BY DEF Executed
<1>3. Records(fills, credits, settlements) /\ f \in Fill /\ f \notin fills
  BY <1>1, <1>2 DEF Ledger
<1>4. f.ticker \in Tickers /\ f.qty \in Nat /\ f.qty > 0
  BY <1>2 DEF Fill
<1>5. pos[f.ticker] = Shares(fills, settlements, f.ticker, tx.day) /\ pos[f.ticker] \in Nat
  BY <1>0, <1>1, <1>4, BookEnds
<1>6. Shares(fills, settlements, f.ticker, tx.day) > 0
  BY <1>2, <1>4, <1>5
<1>7. f.ticker \in EverHeld
  <2>1. \/ \E g \in fills : g.ticker = f.ticker
        \/ \E x \in settlements : x.into = f.ticker /\ x.ratio > 0
    BY <1>0, <1>3, <1>6, HeldHasRow
  <2>2. QED
    BY <2>1 DEF EverHeld, Conversions
<1>8. EverHeld' = EverHeld
  BY <1>2, <1>7 DEF EverHeld, Conversions
<1> SUFFICES ASSUME NEW x \in Unpaid' PROVE Shares(fills', settlements, x[1], x[2] - 1) = 0
  OBVIOUS
<1>9. x \in Unpaid
  BY <1>8 DEF Unpaid
<1>10. x[1] \in Tickers /\ x[2] \in Nat /\ x[2] <= tx.day
  BY <1>1, <1>9, UnpaidMeans
<1>11. PICK d \in Int : d = x[2] - 1 /\ d < tx.day
  BY <1>0, <1>10
<1>12. Shares(fills, settlements, x[1], d) = 0
  BY <1>1, <1>9, <1>11
<1>13. FillShares(f, x[1], d) = 0
  BY <1>0, <1>2, <1>11 DEF FillShares
<1>14. Shares(fills \cup {f}, settlements, x[1], d)
         = Shares(fills, settlements, x[1], d) + FillShares(f, x[1], d)
  <2>1. \A e \in Int : Shares(fills \cup {f}, settlements, x[1], e)
                         = Shares(fills, settlements, x[1], e) + FillShares(f, x[1], e)
    BY <1>3, FillAdds
  <2>2. QED
    BY <2>1
<1>15. QED
  BY <1>2, <1>11, <1>12, <1>13, <1>14

\* A pending order has no fill yet.
LEMMA NotFilledYet ==
  ASSUME BookMatched, tx # Idle, NEW i \in Pending(orders), NEW f, f.order = i
  PROVE  f \notin fills
<1>1. Matched(orders, fills, equity \cup {tx.day})
  BY DEF BookMatched
<1>2. orders[i].status = "pending"
  BY DEF Pending
<1>3. QED
  BY <1>1, <1>2 DEF Matched

LEMMA TradeKeeps ==
  ASSUME BooksInv, LedgerInv, NEW i \in DOMAIN orders, Trades(i)
  PROVE  LedgerInv'
<1>0. Shapes /\ BookMatched /\ tx # Idle /\ tx.day \in Days /\ tx.day \in Nat
  BY Setting DEF BooksInv, Trades
<1>1. /\ Market /\ LedgerInTx /\ Ledger(bars, fills, credits, settlements, cash, pos, tx.day)
  BY <1>0 DEF LedgerInv, LedgerInTx
<1>2. /\ i \in Pending(orders) /\ tx.phase = (IF orders[i].side = "buy" THEN "buy" ELSE "fill")
      /\ Onward(tx, tx', tx.phase) /\ tx'.buys \subseteq tx.buys /\ i \notin tx'.buys
      /\ tx'.budget = tx.budget /\ tx'.wanted = tx.wanted
      /\ UNCHANGED <<latest, bars, published, credits, settlements, equity>>
      /\ DOMAIN orders' = DOMAIN orders /\ \A j \in DOMAIN orders : j # i => orders'[j] = orders[j]
      /\ UNCHANGED <<fills, cash, pos>> \/ \E f : Executed(i, f)
  BY DEF Trades
<1>3. tx.phase \in {"fill", "buy"} /\ tx'.phase = tx.phase /\ tx'.day = tx.day
  BY <1>2 DEF Onward
<1>4. BuysReady'
  <2>1. tx.buys \subseteq DOMAIN orders
    BY <1>3 DEF BooksInv, TodoDue, Todo, Pending
  <2>2. ASSUME NEW j \in tx'.buys PROVE j \in tx.buys /\ orders'[j] = orders[j]
    BY <1>2, <2>1
  <2>3. BuysReady
    BY <1>1, <1>3 DEF LedgerInTx
  <2>4. ASSUME NEW j \in tx'.buys
        PROVE  /\ orders'[j].side = "buy" /\ bars'[tx'.day][orders'[j].ticker].px > 0
               /\ orders'[j].qty * bars'[tx'.day][orders'[j].ticker].px
                     <= bars'[tx'.day][orders'[j].ticker].cap
    BY <1>2, <1>3, <2>2, <2>3 DEF BuysReady, Traded
  <2>5. tx'.phase = "buy" => tx'.budget \in Nat /\ (tx'.buys # {} => tx'.wanted \in Nat \ {0})
    BY <1>2, <1>3, <2>3 DEF BuysReady
  <2>6. QED
    BY <2>4, <2>5 DEF BuysReady, Traded
<1>5. CASE UNCHANGED <<fills, cash, pos>>
  <2>1. Ledger(bars, fills', credits', settlements', cash', pos', tx.day)
    BY <1>1, <1>2, <1>5
  <2>2. tx.phase = "fill" => \A f \in fills' : f.side = "buy" => f.day < tx.day
    BY <1>1, <1>5 DEF LedgerInTx
  <2>3. Unpaid' = Unpaid
    BY <1>2, <1>3, <1>5 DEF Unpaid, EverHeld, Conversions
  <2>4. tx.phase \in {"closeout", "fill"} =>
           \A x \in Unpaid' : Shares(fills', settlements', x[1], x[2] - 1) = 0
    BY <1>1, <1>2, <1>5, <2>3 DEF LedgerInTx
  <2>5. UNCHANGED <<latest, bars, published>>
    BY <1>2
  <2>6. Onward(tx, tx', tx.phase) /\ tx.phase \notin {"dividends", "closeout"}
    BY <1>2, <1>3
  <2>7. QED
    BY <1>0, <1>4, <2>1, <2>2, <2>4, <2>5, <2>6, OnwardLedger
<1>6. ASSUME NEW f, Executed(i, f) PROVE LedgerInv'
  <2>1. /\ f \in Fill /\ f.order = i /\ f.day = tx.day /\ f.side = orders[i].side
        /\ Traded(f.ticker, tx.day)
        /\ f.side = "sell" => f.qty <= pos[f.ticker]
        /\ f.side = "buy" => f.qty * f.px <= cash
        /\ fills' = fills \cup {f} /\ cash' = cash - Way(f) * (f.qty * f.px)
        /\ pos' = [pos EXCEPT ![f.ticker] = pos[f.ticker] + Way(f) * f.qty]
    BY <1>6 DEF Executed
  <2>2. f \notin fills
    BY <1>0, <1>2, <2>1, NotFilledYet
  <2>3. f.side \in {"buy", "sell"} /\ Printed(bars, f.ticker, tx.day)
    BY <2>1, PrintedMeans DEF Fill
  <2>4. f.side = "sell" => tx.phase = "fill" /\ \A g \in fills : g.side = "buy" => g.day < tx.day
    BY <1>1, <1>2, <2>1 DEF LedgerInTx
  <2>4a. tx.phase = "fill" => f.side = "sell"
    BY <1>2, <2>1, <2>3
  <2>5. Ledger(bars, fills \cup {f}, credits, settlements, cash - Way(f) * (f.qty * f.px),
               [pos EXCEPT ![f.ticker] = pos[f.ticker] + Way(f) * f.qty], tx.day)
    BY <1>0, <1>1, <2>1, <2>2, <2>3, <2>4, FillKeeps
  <2>6. Ledger(bars, fills', credits', settlements', cash', pos', tx.day)
    BY <1>2, <2>1, <2>5
  <2>7. tx.phase = "fill" => \A g \in fills' : g.side = "buy" => g.day < tx.day
    BY <2>1, <2>4, <2>4a
  <2>8. tx.phase \in {"closeout", "fill"} =>
           \A x \in Unpaid' : Shares(fills', settlements', x[1], x[2] - 1) = 0
    <3>1. tx.phase = "fill" => \A x \in Unpaid' : Shares(fills', settlements', x[1], x[2] - 1) = 0
      BY <1>0, <1>2, <1>3, <1>6, <2>2, <2>4a, TradeUnpaid
    <3>2. QED
      BY <1>3, <3>1
  <2>9. UNCHANGED <<latest, bars, published>>
    BY <1>2
  <2>10. Onward(tx, tx', tx.phase) /\ tx.phase \notin {"dividends", "closeout"}
    BY <1>2, <1>3
  <2>11. QED
    BY <1>0, <1>4, <2>6, <2>7, <2>8, <2>9, <2>10, OnwardLedger
<1>7. QED
  BY <1>2, <1>5, <1>6

\* A step that moves no money and no session.
Quiet ==
    UNCHANGED <<latest, bars, published, fills, credits, settlements, cash, pos>>

LEMMA QuietLedger ==
  ASSUME Shapes, LedgerInv, tx # Idle, Quiet, NEW ph \in {"fill", "buy", "generate"},
         Onward(tx, tx', ph), ph = "fill" => tx.phase = "fill",
         ph \in {"fill", "buy"} => BuysReady'
  PROVE  LedgerInv'
<1>1. LedgerInTx /\ Ledger(bars, fills, credits, settlements, cash, pos, tx.day)
  BY DEF LedgerInv, LedgerInTx
<1>2. Ledger(bars, fills', credits', settlements', cash', pos', tx.day)
  BY <1>1 DEF Quiet
<1>3. ph = "fill" => \A f \in fills' : f.side = "buy" => f.day < tx.day
  BY <1>1 DEF LedgerInTx, Quiet
<1>4. Unpaid' = Unpaid
  BY DEF Unpaid, EverHeld, Conversions, Quiet, Onward
<1>5. ph \in {"closeout", "fill"} =>
         \A x \in Unpaid' : Shares(fills', settlements', x[1], x[2] - 1) = 0
  BY <1>1, <1>4 DEF LedgerInTx, Quiet
<1>6. UNCHANGED <<latest, bars, published>> /\ ph \notin {"dividends", "closeout"}
  BY DEF Quiet
<1>7. QED
  BY <1>2, <1>3, <1>5, <1>6, OnwardLedger

LEMMA AttemptLedger ==
  ASSUME BooksInv, LedgerInv, NEW i \in DOMAIN orders, AttemptBuy(i)
  PROVE  LedgerInv'
<1>0. /\ Shapes /\ TodoDue /\ tx.phase = "fill" /\ tx # Idle /\ OpenShape(tx) /\ tx.day \in Days
      /\ tx.day \in Nat
      /\ nextId \in Nat /\ DOMAIN orders \subseteq 1 .. nextId - 1
      /\ \A j \in DOMAIN orders : orders[j] \in Order
  BY TxPhases, Setting DEF BooksInv, AttemptBuy, Phase
<1>1. Market /\ BuysReady
  BY <1>0 DEF LedgerInv, LedgerInTx
<1> DEFINE outcome == IF orders[i].ticker \in quarantined THEN "quarantine"
                      ELSE AttemptFill(orders[i], orders[i].qty, tx.day)
           b == bars[tx.day][orders[i].ticker]
<1>2. /\ TodoSells = {} /\ tx.todo # {} /\ i = Min(tx.todo)
      /\ tx' = IF outcome = "filled" THEN [Done(i) EXCEPT !.buys = @ \cup {i}] ELSE Done(i)
      /\ orders' = IF outcome \in {"filled", "pending"} THEN orders
                   ELSE Status(i, "rejected", outcome)
      /\ Quiet
  BY DEF AttemptBuy, market, Quiet
<1>3. i \in tx.todo /\ i \notin tx.buys /\ tx.buys \subseteq DOMAIN orders
  <2>1. tx.todo \subseteq DOMAIN orders /\ tx.buys \subseteq DOMAIN orders
    BY <1>0 DEF TodoDue, Todo, Pending
  <2>2. tx.todo \in SUBSET Nat
    BY <1>0, <2>1
  <2>3. i \in tx.todo
    BY <1>2, <2>2, MinIn
  <2>4. QED
    BY <1>0, <2>1, <2>3 DEF TodoDue
<1>4. orders[i].side = "buy" /\ orders[i].ticker \in Tickers /\ orders[i].qty \in Nat
  <2>1. orders[i] \in Order /\ orders[i].side # "sell"
    BY <1>0, <1>2, <1>3 DEF TodoSells
  <2>2. QED
    BY <2>1 DEF Order
<1>5. outcome = "filled" => Traded(orders[i].ticker, tx.day) /\ ~(orders[i].qty * b.px > b.cap)
  BY DEF AttemptFill
<1>6. outcome \in {"quarantine", "no_bar", "pending", "illiquid", "filled"}
  BY DEF AttemptFill
<1>7. b.px \in Nat /\ b.cap \in Nat /\ orders[i].qty * b.px \in Nat
  <2>1. b.px \in Nat /\ b.cap \in Nat
    BY <1>0, <1>1, <1>4, BarMeans
  <2> HIDE DEF b
  <2>2. QED
    BY <1>4, <2>1
<1>8. outcome = "filled" => Traded(orders[i].ticker, tx.day) /\ orders[i].qty * b.px <= b.cap
  <2> HIDE DEF outcome
  <2>1. PICK v \in Nat : v = orders[i].qty * b.px
    BY <1>7
  <2>2. QED
    BY <1>5, <1>7, <2>1
<1> HIDE DEF outcome, b
<1>9. \A j \in tx.buys : orders'[j] = orders[j]
  <2>1. CASE outcome \in {"filled", "pending"}
    BY <1>2, <2>1
  <2>2. CASE outcome \in {"quarantine", "no_bar", "illiquid"}
    <3>1. orders' = Status(i, "rejected", outcome)
      BY <1>2, <2>2
    <3>2. Restated(orders, orders', i, "rejected")
      BY <1>0, <2>2, <3>1, StatusMeans
    <3>3. QED
      BY <1>3, <3>2 DEF Restated
  <2>3. QED
    BY <1>6, <2>1, <2>2
<1>10. LET y == Done(i) IN Onward(tx, y, "fill") /\ y.buys = tx.buys
  BY <1>0 DEF Done, OpenShape, Onward
<1>11. Onward(tx, tx', "fill") /\ tx'.buys = (IF outcome = "filled" THEN tx.buys \cup {i} ELSE tx.buys)
  <2> DEFINE y == Done(i)
  <2>1. Onward(tx, y, "fill") /\ y.buys = tx.buys
    BY <1>10
  <2>2. CASE outcome = "filled"
    <3>1. tx' = [y EXCEPT !.buys = y.buys \cup {i}]
      BY <1>2, <2>2
    <3> HIDE DEF y
    <3>2. QED
      BY <2>1, <2>2, <3>1 DEF OpenShape, Onward
  <2>3. CASE outcome # "filled"
    BY <1>2, <2>1, <2>3
  <2>4. QED
    BY <2>2, <2>3
<1>12. outcome = "filled" => orders' = orders
  BY <1>2
<1>13. ASSUME NEW j \in tx'.buys
       PROVE  /\ orders'[j] = orders[j] /\ orders[j].side = "buy" /\ Traded(orders[j].ticker, tx.day)
              /\ orders[j].qty * bars[tx.day][orders[j].ticker].px
                    <= bars[tx.day][orders[j].ticker].cap
  <2>1. CASE j \in tx.buys
    BY <1>1, <1>9, <2>1 DEF BuysReady
  <2>2. CASE j = i /\ outcome = "filled"
    BY <1>4, <1>8, <1>12, <2>2 DEF b
  <2>3. QED
    BY <1>11, <2>1, <2>2
<1>14. BuysReady'
  <2>1. tx'.phase = "fill" /\ tx'.day = tx.day /\ bars' = bars
    BY <1>2, <1>11 DEF Onward, Quiet
  <2>2. QED
    BY <1>13, <2>1 DEF BuysReady, Traded
<1>15. QED
  BY <1>0, <1>2, <1>11, <1>14, QuietLedger

\* Something positive among naturals makes the sum positive.
LEMMA SumPositive ==
  ASSUME NEW S, IsFiniteSet(S), S # {}, NEW f, \A x \in S : f[x] \in Nat \ {0}
  PROVE  SumOver(f, S) \in Nat \ {0}
<1>1. PICK y \in S : TRUE
  OBVIOUS
<1> DEFINE R == S \ {y}
<1>2. IsFiniteSet(R) /\ y \notin R /\ S = R \cup {y} /\ R \subseteq S
  BY <1>1, FS_Subset
<1> HIDE DEF R
<1>3. \A x \in R \cup {y} : f[x] \in Int
  BY <1>2
<1>4. SumOver(f, R \cup {y}) = SumOver(f, R) + f[y]
  BY <1>2, <1>3, SumAdd
<1>5. SumOver(f, R) \in Nat
  BY <1>2, SumNat
<1>6. f[y] \in Nat \ {0}
  BY <1>1
<1>7. QED
  BY <1>2, <1>4, <1>5, <1>6

LEMMA SizeLedger ==
  ASSUME BooksInv, LedgerInv, SizeBuys
  PROVE  LedgerInv'
<1>0. /\ Shapes /\ TodoDue /\ tx.phase = "fill" /\ tx # Idle /\ OpenShape(tx) /\ tx.day \in Days
      /\ tx.day \in Nat
      /\ nextId \in Nat /\ DOMAIN orders \subseteq 1 .. nextId - 1
      /\ \A j \in DOMAIN orders : orders[j] \in Order
  BY TxPhases, Setting DEF BooksInv, SizeBuys, Phase
<1>1. Market /\ BuysReady /\ Ledger(bars, fills, credits, settlements, cash, pos, tx.day)
  BY <1>0 DEF LedgerInv, LedgerInTx
<1> DEFINE g == [i \in tx.buys |-> Cost(i)]
           w == SumOver(g, tx.buys)
<1>2. tx' = [tx EXCEPT !.phase = "buy", !.budget = cash, !.wanted = w] /\ Quiet /\ orders' = orders
  BY DEF SizeBuys, Quiet, market, book, Sum
<1>3. tx.buys \subseteq DOMAIN orders
  BY <1>0 DEF TodoDue, Todo, Pending
<1>4. IsFiniteSet(tx.buys)
  <2>1. IsFiniteSet(1 .. nextId - 1)
    BY <1>0, FS_Interval
  <2>2. QED
    BY <1>0, <1>3, <2>1, FS_Subset
<1>5. ASSUME NEW i \in tx.buys PROVE g[i] \in Nat \ {0}
  <2>1. orders[i] \in Order /\ Traded(orders[i].ticker, tx.day)
    BY <1>0, <1>1, <1>3 DEF BuysReady
  <2>2. orders[i].ticker \in Tickers /\ orders[i].qty \in Nat \ {0}
    BY <2>1 DEF Order
  <2>3. BuyPx(bars[tx.day][orders[i].ticker]) \in Nat \ {0}
    BY <1>0, <1>1, <2>1, <2>2, BarMeans
  <2>4. PICK q \in Nat \ {0}, p \in Nat \ {0} :
           q = orders[i].qty /\ p = BuyPx(bars[tx.day][orders[i].ticker])
    BY <2>2, <2>3
  <2>5. q * p \in Nat \ {0}
    OBVIOUS
  <2>6. QED
    BY <2>4, <2>5 DEF Cost
<1>6. cash \in Nat
  <2>1. tx.day \in 0 .. LastDay /\ tx.day \in tx.day .. LastDay + 1
    BY <1>0, DaysNat DEF Days
  <2>2. QED
    BY <1>1, <2>1, BookEnds
<1> HIDE DEF g
<1>7. tx.buys # {} => w \in Nat \ {0}
  BY <1>4, <1>5, SumPositive
<1> HIDE DEF w
<1>8. Onward(tx, tx', "buy") /\ tx'.buys = tx.buys /\ tx'.budget = cash /\ tx'.wanted = w
  BY <1>0, <1>2 DEF OpenShape, Onward
<1>9. BuysReady'
  <2>1. tx'.day = tx.day /\ bars' = bars
    BY <1>2, <1>8 DEF Onward, Quiet
  <2>2. QED
    BY <1>1, <1>2, <1>6, <1>7, <1>8, <2>1 DEF BuysReady, Traded
<1>10. QED
  BY <1>0, <1>2, <1>8, <1>9, QuietLedger

\* The book is marked, orders are generated, the transaction ends.
LEMMA EndLedger ==
  ASSUME BooksInv, WaitingInv, LedgerInv,
         MarkToMarket \/ (\E s \in Signals : GenerateOrder(s)) \/ Commit \/ Rollback
  PROVE  LedgerInv'
<1>0. Shapes /\ BookMatched /\ tx # Idle /\ OpenShape(tx) /\ tx.day \in Days
  BY TxPhases, Setting DEF BooksInv, MarkToMarket, GenerateOrder, Commit, Rollback, Phase
<1>1. Market /\ LedgerInTx
  BY <1>0 DEF LedgerInv
<1>2. CASE MarkToMarket
  <2>1. tx' = [tx EXCEPT !.phase = "generate"] /\ Quiet
    BY <1>2 DEF MarkToMarket, Enter, Quiet, market
  <2>2. Onward(tx, tx', "generate")
    BY <1>0, <2>1 DEF OpenShape, Onward
  <2>3. QED
    BY <1>0, <2>1, <2>2, QuietLedger
<1>3. ASSUME NEW s \in Signals, GenerateOrder(s) PROVE LedgerInv'
  <2> DEFINE R == tx.signalled \cup {s}
  <2>1. tx' = [tx EXCEPT !.signalled = R] /\ Quiet /\ tx.phase = "generate"
    BY <1>3 DEF GenerateOrder, Phase, Quiet, market
  <2> HIDE DEF R
  <2>2. Onward(tx, tx', "generate")
    BY <1>0, <2>1 DEF OpenShape, Onward
  <2>3. QED
    BY <1>0, <2>1, <2>2, QuietLedger
<1>4. CASE Commit
  <2>1. tx.phase = "generate" /\ tx' = Idle /\ Quiet /\ equity' = equity
    BY <1>4 DEF Commit, Phase, Quiet, book
  <2>2. tx.day \in equity /\ \A e \in equity : e <= tx.day
    BY <1>0, <2>1 DEF BookMatched, WaitingInv, WaitingInTx
  <2>3. LastStep = tx.day
    <3>1. LastStep \in Nat /\ LastStep \in equity /\ \A e \in equity : e <= LastStep
      <4>1. equity # {}
        BY <2>2
      <4>2. QED
        BY <1>0, <4>1, LastStepMeans, TxPhases
    <3>2. tx.day <= LastStep /\ LastStep <= tx.day
      BY <2>2, <3>1
    <3>3. tx.day \in Int
      BY <1>0, DaysInt
    <3>4. QED
      BY <3>1, <3>2, <3>3
  <2>4. LastStep' = tx.day
    BY <2>1, <2>3 DEF LastStep
  <2>5. Ledger(bars', fills', credits', settlements', cash', pos', LastStep')
    BY <1>1, <2>1, <2>4 DEF LedgerInTx, Quiet
  <2>6. Market' /\ Idle' = Idle
    BY <1>1, <2>1 DEF Market, Quiet, Idle
  <2>7. QED
    BY <2>1, <2>5, <2>6 DEF LedgerInv
<1>5. CASE Rollback
  <2>1. /\ fills' = tx.saved.fills /\ credits' = tx.saved.credits
        /\ settlements' = tx.saved.settlements /\ cash' = tx.saved.cash /\ pos' = tx.saved.pos
        /\ equity' = tx.saved.equity /\ tx' = Idle /\ UNCHANGED <<latest, bars, published>>
    BY <1>5 DEF Rollback, market
  <2>2. LastStep' = LastOf(tx.saved.equity)
    BY <2>1 DEF LastStep, LastOf
  <2>3. Ledger(bars', fills', credits', settlements', cash', pos', LastStep')
    BY <1>1, <2>1, <2>2 DEF LedgerInTx
  <2>4. Market' /\ Idle' = Idle
    BY <1>1, <2>1 DEF Market, Idle
  <2>5. QED
    BY <2>1, <2>3, <2>4 DEF LedgerInv
<1>6. QED
  BY <1>2, <1>3, <1>4, <1>5

-----------------------------------------------------------------------------
(* The invariant of the money.                                             *)

LEMMA LedgerInit == ASSUME Init PROVE LedgerInv
<1>1. /\ tx = Idle /\ fills = {} /\ credits = {} /\ settlements = {} /\ equity = {}
      /\ cash = InitialCash /\ pos = [t \in Tickers |-> 0] /\ published = {}
      /\ bars = [d \in Days |-> [t \in Tickers |-> NoBar]]
  BY DEF Init
<1>2. LastStep = 0 /\ IsFiniteSet({})
  BY <1>1, FS_EmptySet DEF LastStep
<1>3. \A d \in Int : \A t :
        /\ Shares({}, {}, t, d) = 0 /\ OpenShares({}, {}, t, d) = 0
        /\ Money({}, {}, {}, d) = InitialCash
  BY SumNone, DaysNat DEF Shares, OpenShares, Money
<1>4. Records({}, {}, {}) /\ Placed(bars, {}, {}, {}, 0) /\ PaidOnce({}, {}, {})
  BY <1>2 DEF Records, Placed, PaidOnce
<1>5. Solvent({}, {}, {})
  <2> SUFFICES ASSUME NEW d \in 0 .. LastDay + 1
               PROVE  /\ Money({}, {}, {}, d) >= 0
                      /\ \A t \in Tickers : OpenShares({}, {}, t, d) >= 0
    BY DEF Solvent
  <2>1. d \in Int
    BY DaysNat
  <2>2. Money({}, {}, {}, d) = InitialCash
    BY <1>3, <2>1
  <2>3. \A t : OpenShares({}, {}, t, d) = 0
    BY <1>3, <2>1
  <2>4. QED
    BY <2>2, <2>3, DaysNat
<1>6. Balanced({}, {}, {}, cash, pos)
  <2>1. LastDay + 1 \in Int
    BY DaysNat
  <2>2. QED
    BY <1>1, <1>3, <2>1 DEF Balanced
<1>7. Market
  BY <1>1, <1>2 DEF Market
<1>8. Ledger(bars, {}, {}, {}, cash, pos, 0)
  BY <1>4, <1>5, <1>6 DEF Ledger
<1>9. QED
  BY <1>1, <1>2, <1>7, <1>8 DEF LedgerInv

LEMMA LedgerStep ==
  ASSUME ~Backdated, ~SettleAhead, BooksInv, WaitingInv, LedgerInv, [Next]_vars
  PROVE  LedgerInv'
<1>1. CASE UNCHANGED vars
  <2>1. UNCHANGED <<latest, bars, published, orders, fills, credits, settlements, cash, pos, equity, tx>>
    BY <1>1 DEF vars, market, book
  <2>2. Market' /\ Idle' = Idle /\ LastStep' = LastStep
    BY <2>1 DEF LedgerInv, Market, Idle, LastStep
  <2>3. CASE tx = Idle
    BY <2>1, <2>2, <2>3 DEF LedgerInv
  <2>4. CASE tx # Idle
    <3>1. LedgerInTx
      BY <2>4 DEF LedgerInv
    <3>2. Unpaid' = Unpaid /\ (BuysReady' <=> BuysReady)
      BY <2>1 DEF Unpaid, EverHeld, Conversions, BuysReady, Traded
    <3>3. LedgerInTx'
      BY <2>1, <3>1, <3>2 DEF LedgerInTx
    <3>4. QED
      BY <2>1, <2>2, <2>4, <3>3 DEF LedgerInv
  <2>5. QED
    BY <2>3, <2>4
<1>2. ASSUME Next PROVE LedgerInv'
  <2>1. CASE Collect \/ \E x \in LateBars : LateBar(x)
    BY <2>1, CollectKeeps
  <2>2. CASE \/ \E x \in Dividends : Publish(x)
             \/ \E t \in Dropped : Drop(t)
             \/ \E t \in Quarantinable : Quarantine(t)
             \/ \E o \in Tickets, sig \in 1 .. LastDay + 1 : SubmitTicket(o, sig)
             \/ \E i \in DOMAIN orders : CancelTicket(i)
    BY <2>2, StoreKeeps
  <2>3. CASE \E t \in Tickers, x \in Terms, e \in 1 .. LastDay + 1 : Settle(t, x, e)
    BY <2>3, SettleKeeps
  <2>4. CASE \E d \in Days : BeginNightly(d) \/ BeginManual(d)
    BY <2>4, BeginKeeps
  <2>5. CASE \E d \in Days : BeginRerun(d)
    BY <2>5, RerunLedger
  <2>6. CASE CreditDividends \/ (\E t \in Tickers : CloseOut(t)) \/ CloseOutDone
    BY <2>6, CreditLedger, CloseOutLedger, CloseOutDoneLedger
  <2>7. CASE \E i \in DOMAIN orders : FillSell(i) \/ FillBuy(i)
    BY <2>7, SellTrades, BuyTrades, TradeKeeps
  <2>8. CASE (\E i \in DOMAIN orders : AttemptBuy(i)) \/ SizeBuys
    BY <2>8, AttemptLedger, SizeLedger
  <2>9. CASE MarkToMarket \/ (\E s \in Signals : GenerateOrder(s)) \/ Commit \/ Rollback
    BY <2>9, EndLedger
  <2>10. QED
    BY <1>2, <2>1, <2>2, <2>3, <2>4, <2>5, <2>6, <2>7, <2>8, <2>9 DEF Next
<1>3. QED
  BY <1>1, <1>2

\* For every instance in which the owner steps sessions in order and settles
\* names up to the last step: the events of the book add up, session by session,
\* to its cash and its positions, and so do those a rollback would bring back.
THEOREM LedgerSound ==
  ASSUME ~Backdated, ~SettleAhead
  PROVE  Spec => [](BooksInv /\ WaitingInv /\ LedgerInv)
<1>1. Spec => [](BooksInv /\ WaitingInv)
  BY WaitingSound
<1>2. Init => LedgerInv
  BY LedgerInit
<1>3. BooksInv /\ WaitingInv /\ LedgerInv /\ [Next]_vars => LedgerInv'
  BY LedgerStep
<1>4. QED
  BY <1>1, <1>2, <1>3, PTL DEF Spec

\* In a book that steps its sessions in order and settles names up to its last
\* step (run_league and settle enforce neither), no sequence of orders,
\* settlements, reruns and crashes overdraws the book or sells it short.
THEOREM NoOverdraft ==
  ASSUME ~Backdated, ~SettleAhead
  PROVE  Spec => []NeverOverdrawn
<1>1. BooksInv /\ LedgerInv => NeverOverdrawn
  <2> SUFFICES ASSUME BooksInv, LedgerInv PROVE NeverOverdrawn
    OBVIOUS
  <2>1. PICK n \in 0 .. LastDay : Ledger(bars, fills, credits, settlements, cash, pos, n)
    <3>1. CASE tx = Idle
      BY <3>1, Setting DEF BooksInv, LedgerInv
    <3>2. CASE tx # Idle
      <4>1. tx.day \in 0 .. LastDay
        <5>1. tx.day \in Days
          BY <3>2, Setting DEF BooksInv
        <5>2. QED
          BY <5>1, DaysNat DEF Days
      <4>2. QED
        BY <3>2, <4>1 DEF LedgerInv, LedgerInTx
    <3>3. QED
      BY <3>1, <3>2
  <2>2. n \in n .. LastDay + 1
    BY DaysNat
  <2>3. cash \in Nat /\ \A t \in Tickers : pos[t] \in Nat
    BY <2>1, <2>2, BookEnds
  <2>4. QED
    BY <2>3 DEF NeverOverdrawn
<1>2. QED
  BY <1>1, LedgerSound, PTL

\* What the recorded events replay to between transactions.
LEMMA LedgerReplay ==
  ASSUME NEW bs, NEW fs, NEW cs, NEW ss, NEW c, NEW p, NEW n, Ledger(bs, fs, cs, ss, c, p, n),
         NEW d \in 0 .. LastDay + 1
  PROVE  /\ Replay(fs, cs, ss, d).ok /\ Replay(fs, cs, ss, d).cash = Money(fs, cs, ss, d)
         /\ Replay(fs, cs, ss, d).pos = HeldAt(fs, ss, d)
<1>1. /\ Records(fs, cs, ss) /\ Solvent(fs, cs, ss)
      /\ \A x \in ss : x.ticker \in Rows(fs, ss, x.eff - 1)
  BY DEF Ledger, Placed
<1>2. QED
  BY <1>1, ReplayMeans

\* In such a book the replay, between transactions, accepts every stored fill
\* and ends in the cash and the positions the book shows.  It need not where a
\* session is stepped out of order or a settlement is effective after the last
\* step, which the code admits.
THEOREM ReplayIsExact ==
  ASSUME ~Backdated, ~SettleAhead
  PROVE  Spec => []ReplayExact
<1>1. BooksInv /\ LedgerInv => ReplayExact
  <2> SUFFICES ASSUME BooksInv, LedgerInv, tx.phase = "idle"
               PROVE  /\ AtClose(LastDay + 1).ok /\ AtClose(LastDay + 1).cash = cash
                      /\ AtClose(LastDay + 1).pos = pos
    BY DEF ReplayExact
  <2>1. tx = Idle /\ LastDay + 1 \in 0 .. LastDay + 1
    BY TxPhases, DaysNat DEF BooksInv
  <2>2. Ledger(bars, fills, credits, settlements, cash, pos, LastStep)
    BY <2>1 DEF LedgerInv
  <2>3. /\ AtClose(LastDay + 1).ok
        /\ AtClose(LastDay + 1).cash = Money(fills, credits, settlements, LastDay + 1)
        /\ AtClose(LastDay + 1).pos = HeldAt(fills, settlements, LastDay + 1)
    BY <2>1, <2>2, LedgerReplay DEF AtClose
  <2>4. QED
    BY <2>2, <2>3 DEF Ledger, Balanced, HeldAt
<1>2. QED
  BY <1>1, LedgerSound, PTL

\* In such a book a dividend is credited once per ex-date, for the position at
\* the close before it, and nothing of the window is left out.
THEOREM DividendsExact ==
  ASSUME ~Backdated, ~SettleAhead
  PROVE  Spec => []EntitlementExact
<1>1. BooksInv /\ LedgerInv => EntitlementExact
  <2> SUFFICES ASSUME BooksInv, LedgerInv PROVE EntitlementExact
    OBVIOUS
  <2>1. PICK n : Ledger(bars, fills, credits, settlements, cash, pos, n)
    BY DEF LedgerInv, LedgerInTx
  <2>2. \A c, e \in credits : c.ticker = e.ticker /\ c.ex = e.ex => c = e
    BY <2>1 DEF Ledger, PaidOnce
  <2>3. ASSUME settlements = {}, NEW c \in credits
        PROVE  c.qty = AtClose(c.ex - 1).pos[c.ticker]
    <3>1. c.qty = Shares(fills, settlements, c.ticker, c.ex - 1)
      BY <2>1, <2>3 DEF Ledger, PaidOnce
    <3>2. c \in Credit
      BY <2>1, RecordsMean DEF Ledger
    <3>3. c.ticker \in Tickers /\ c.ex \in Days
      BY <3>2 DEF Credit
    <3>4. c.ex - 1 \in 0 .. LastDay + 1
      BY <3>3, DaysNat DEF Days
    <3>5. AtClose(c.ex - 1).pos = HeldAt(fills, settlements, c.ex - 1)
      BY <2>1, <3>4, LedgerReplay DEF AtClose
    <3>6. QED
      BY <3>1, <3>3, <3>5 DEF HeldAt
  <2>4. ASSUME tx.phase = "fill", NEW x \in Unpaid PROVE Entitled(x) = 0
    <3>1. tx # Idle /\ Shapes
      BY <2>4, TxPhases DEF BooksInv
    <3>2. Entitled(x) = Shares(fills, settlements, x[1], x[2] - 1)
      BY <3>1, EntitledMeans
    <3>3. QED
      BY <2>4, <3>1, <3>2 DEF LedgerInv, LedgerInTx
  <2>5. QED
    BY <2>2, <2>3, <2>4 DEF EntitlementExact
<1>2. QED
  BY <1>1, LedgerSound, PTL

-----------------------------------------------------------------------------
(* The fills stay what the fill model made of them.                        *)

LEMMA HonestKeeps ==
  ASSUME NEW bs, NEW bt, NEW os, NEW ot, NEW fs, NEW ft, HonestIn(bs, os, fs),
         \A f \in ft : /\ f \in fs /\ bt[f.day][f.ticker] = bs[f.day][f.ticker]
                       /\ ot[f.order].sig = os[f.order].sig /\ ot[f.order].qty = os[f.order].qty
                       /\ ot[f.order].ticker = os[f.order].ticker
                       /\ ot[f.order].side = os[f.order].side
  PROVE  HonestIn(bt, ot, ft)
BY DEF HonestIn

\* What no step but a rerun and a rollback does to an order that is there.
OrdersStay ==
    \A i \in DOMAIN orders :
        /\ orders'[i].sig = orders[i].sig /\ orders'[i].qty = orders[i].qty
        /\ orders'[i].ticker = orders[i].ticker /\ orders'[i].side = orders[i].side

LEMMA AddsStay ==
  ASSUME Shapes, NEW s, NEW sig, NEW st, Adds(orders, orders', nextId, s, sig, st)
  PROVE  OrdersStay
<1>1. nextId \in Nat /\ DOMAIN orders \subseteq 1 .. nextId - 1
  BY TxPhases
<1>2. \A i \in DOMAIN orders : i # nextId
  BY <1>1
<1>3. QED
  BY <1>2 DEF Adds, OrdersStay

LEMMA ShrinksStay ==
  ASSUME Shrinks(orders, orders')
  PROVE  OrdersStay
BY DEF Shrinks, Kept, OrdersStay

LEMMA RestatedStay ==
  ASSUME NEW i, NEW st, Restated(orders, orders', i, st)
  PROVE  OrdersStay
BY DEF Restated, Kept, OrdersStay

LEMMA OrdersDo ==
  ASSUME BooksInv, [Next]_vars, ~Opens, ~RollsBack
  PROVE  OrdersStay
<1>0. Shapes /\ TodoDue
  BY DEF BooksInv
<1>1. Outside \/ InTx \/ UNCHANGED <<latest, orders, fills, equity, nextId, tx>>
  BY <1>0, LeagueSteps
<1>2. CASE Outside
  BY <1>0, <1>2, AddsStay, ShrinksStay DEF Outside
<1>3. CASE InTx
  <2>1. CASE Prepares
    BY <2>1, ShrinksStay DEF Prepares
  <2>2. CASE Handles
    BY <2>2, RestatedStay DEF Handles, Leaves, Rejects, Fills, OrdersStay
  <2>3. CASE Generates
    BY <1>0, <2>3, AddsStay DEF Generates
  <2>4. CASE LooksUp \/ Marks \/ Commits
    BY <2>4 DEF LooksUp, Marks, Commits, OrdersStay
  <2>5. QED
    BY <1>3, <2>1, <2>2, <2>3, <2>4 DEF InTx
<1>4. CASE UNCHANGED <<latest, orders, fills, equity, nextId, tx>>
  BY <1>4 DEF OrdersStay
<1>5. QED
  BY <1>1, <1>2, <1>3, <1>4

\* A fill of the book has its order.
LEMMA FillOrders ==
  ASSUME BookMatched
  PROVE  \A f \in fills : f.order \in DOMAIN orders
BY DEF BookMatched, Matched

LEMMA TradeHonest ==
  ASSUME BooksInv, HonestInv, NEW i \in DOMAIN orders, Trades(i)
  PROVE  HonestInv'
<1>1. /\ tx # Idle /\ orders[i].sig < tx.day /\ Onward(tx, tx', tx.phase) /\ bars' = bars
      /\ DOMAIN orders' = DOMAIN orders /\ \A j \in DOMAIN orders : j # i => orders'[j] = orders[j]
      /\ Kept(orders[i], orders'[i])
      /\ fills' = fills \/ \E f : Executed(i, f)
  BY DEF Trades
<1>2. \A j \in DOMAIN orders :
        /\ orders'[j].sig = orders[j].sig /\ orders'[j].qty = orders[j].qty
        /\ orders'[j].ticker = orders[j].ticker /\ orders'[j].side = orders[j].side
  BY <1>1 DEF Kept
<1>3. HonestIn(bars, orders, fills) /\ HonestIn(bars, tx.saved.orders, tx.saved.fills)
  BY <1>1 DEF HonestInv
<1>4. \A f \in fills : f.order \in DOMAIN orders
  BY FillOrders DEF BooksInv
<1>5. HonestIn(bars', orders', fills)
  BY <1>1, <1>2, <1>3, <1>4, HonestKeeps
<1>6. HonestIn(bars', orders', fills')
  <2>1. CASE fills' = fills
    BY <1>5, <2>1
  <2>2. ASSUME NEW f, Executed(i, f) PROVE HonestIn(bars', orders', fills')
    <3>1. /\ f.order = i /\ f.day = tx.day /\ f.ticker = orders[i].ticker /\ f.side = orders[i].side
          /\ f.px = (IF f.side = "buy" THEN BuyPx(bars[tx.day][orders[i].ticker])
                     ELSE SellPx(bars[tx.day][orders[i].ticker]))
          /\ f.qty <= orders[i].qty
          /\ f.qty * bars[tx.day][orders[i].ticker].px <= bars[tx.day][orders[i].ticker].cap
          /\ fills' = fills \cup {f} /\ f \in Fill
      BY <2>2 DEF Executed
    <3>2. /\ f.ticker = orders'[f.order].ticker /\ f.side = orders'[f.order].side
          /\ f.day > orders'[f.order].sig
          /\ f.px = IF f.side = "buy" THEN BuyPx(bars'[f.day][f.ticker])
                    ELSE SellPx(bars'[f.day][f.ticker])
          /\ f.qty <= orders'[f.order].qty
          /\ f.qty * bars'[f.day][f.ticker].px <= bars'[f.day][f.ticker].cap
      <4>1. /\ orders'[i].sig = orders[i].sig /\ orders'[i].qty = orders[i].qty
            /\ orders'[i].ticker = orders[i].ticker /\ orders'[i].side = orders[i].side
        BY <1>2
      <4>2. tx.day > orders[i].sig
        <5>1. tx.day \in Nat /\ orders[i].sig \in Nat
          BY <1>1, TxPhases, OrderFields, Setting DEF BooksInv
        <5>2. QED
          BY <1>1, <5>1
      <4>3. QED
        BY <1>1, <3>1, <4>1, <4>2
    <3>3. HonestIn(bars', orders', fills \cup {f})
      BY <1>5, <3>2 DEF HonestIn
    <3>4. QED
      BY <3>1, <3>3
  <2>3. QED
    BY <1>1, <2>1, <2>2
<1>7. tx'.saved = tx.saved
  BY <1>1 DEF Onward
<1>8. QED
  BY <1>1, <1>3, <1>6, <1>7 DEF HonestInv

\* A step that makes no fill.
LEMMA NoFillHonest ==
  ASSUME BooksInv, HonestInv, OrdersStay, fills' = fills, bars' = bars,
         tx' # Idle => tx # Idle /\ tx'.saved = tx.saved
  PROVE  HonestInv'
<1>1. HonestIn(bars, orders, fills) /\ \A f \in fills : f.order \in DOMAIN orders
  BY FillOrders DEF HonestInv, BooksInv
<1>2. HonestIn(bars', orders', fills')
  BY <1>1, HonestKeeps DEF OrdersStay
<1>3. Idle' = Idle
  BY DEF Idle
<1>4. QED
  BY <1>2, <1>3 DEF HonestInv

LEMMA OpensHonest ==
  ASSUME BooksInv, HonestInv, Opens, bars' = bars
  PROVE  HonestInv'
<1>0. Shapes /\ tx = Idle /\ Matched(orders, fills, equity) /\ HonestIn(bars, orders, fills)
  BY DEF BooksInv, Opens, BookMatched, HonestInv
<1>1. tx'.saved.orders = orders /\ tx'.saved.fills = fills
  BY DEF Opens
<1>2. HonestIn(bars', tx'.saved.orders, tx'.saved.fills)
  BY <1>0, <1>1
<1>3. HonestIn(bars', orders', fills')
  <2>1. CASE orders' = orders /\ Still
    BY <1>0, <2>1 DEF Still
  <2> DEFINE d == tx'.day
             fs == {f \in fills : f.day # d}
             ot == Cleared(d, fs)
  <2>2. CASE /\ d \in equity /\ \A e \in equity : e <= d
             /\ fills' = fs /\ orders' = ot
    <3>1. /\ \A i \in DOMAIN orders : orders[i] \in Order /\ orders[i].sig \in Nat
          /\ \A e \in equity : e \in Nat
      BY <1>0, TxPhases, LastStepMeans
    <3>2. Matched(ot, fs, equity \ {d})
      BY <1>0, <2>2, <3>1, MatchedCleared
    <3>3. \A i \in DOMAIN ot : Kept(orders[i], ot[i])
      BY <3>1, ClearedMeans
    <3>4. fs \subseteq fills
      OBVIOUS
    <3> HIDE DEF ot, fs
    <3>5. \A f \in fs : /\ ot[f.order].sig = orders[f.order].sig /\ ot[f.order].qty = orders[f.order].qty
                        /\ ot[f.order].ticker = orders[f.order].ticker
                        /\ ot[f.order].side = orders[f.order].side
      BY <3>2, <3>3 DEF Matched, Kept
    <3>6. QED
      BY <1>0, <2>2, <3>4, <3>5, HonestKeeps
  <2>3. QED
    BY <2>1, <2>2 DEF Opens
<1>4. QED
  BY <1>2, <1>3 DEF HonestInv

LEMMA HonestStep ==
  ASSUME BooksInv, LedgerInv, HonestInv, [Next]_vars
  PROVE  HonestInv'
<1>0. Shapes /\ TodoDue
  BY DEF BooksInv
<1>1. ASSUME Collect \/ \E x \in LateBars : LateBar(x) PROVE HonestInv'
  <2>1. tx = Idle /\ UNCHANGED <<orders, fills, tx>>
    BY <1>0, <1>1, TxPhases DEF Collect, LateBar, book
  <2>2. Ledger(bars, fills, credits, settlements, cash, pos, LastStep)
    BY <2>1 DEF LedgerInv
  <2>3. \A d \in Days, t \in Tickers : Printed(bars, t, d) => bars'[d][t] = bars[d][t]
    BY <1>1, CollectKeeps
  <2>4. ASSUME NEW f \in fills PROVE bars'[f.day][f.ticker] = bars[f.day][f.ticker]
    <3>1. f \in Fill /\ Printed(bars, f.ticker, f.day)
      BY <2>2, RecordsMean DEF Ledger, Placed
    <3>2. f.day \in Days /\ f.ticker \in Tickers
      BY <3>1 DEF Fill
    <3>3. QED
      BY <2>3, <3>1, <3>2
  <2>5. HonestIn(bars', orders', fills')
    <3>1. HonestIn(bars, orders, fills)
      BY DEF HonestInv
    <3>2. QED
      BY <2>1, <2>4, <3>1, HonestKeeps
  <2>6. tx' = Idle /\ Idle' = Idle
    BY <2>1 DEF Idle
  <2>7. QED
    BY <2>5, <2>6 DEF HonestInv
<1>2. ASSUME NEW i \in DOMAIN orders, FillSell(i) \/ FillBuy(i) PROVE HonestInv'
  BY <1>2, SellTrades, BuyTrades, TradeHonest
<1>3. ASSUME NEW d \in Days, BeginNightly(d) \/ BeginManual(d) \/ BeginRerun(d) PROVE HonestInv'
  <2>1. Opens /\ bars' = bars
    BY <1>0, <1>3, OpeningSteps DEF BeginNightly, BeginManual, BeginRerun, market
  <2>2. QED
    BY <2>1, OpensHonest
<1>4. ASSUME Rollback PROVE HonestInv'
  <2>1. tx # Idle
    BY <1>0, <1>4, TxPhases DEF Rollback, Phase
  <2>2. /\ orders' = tx.saved.orders /\ fills' = tx.saved.fills /\ bars' = bars /\ tx' = Idle
        /\ Idle' = Idle
    BY <1>4 DEF Rollback, market, Idle
  <2>3. QED
    BY <2>1, <2>2 DEF HonestInv
<1>5. ASSUME \/ \E x \in Dividends : Publish(x)
             \/ \E t \in Dropped : Drop(t)
             \/ \E t \in Quarantinable : Quarantine(t)
             \/ \E o \in Tickets, sig \in 1 .. LastDay + 1 : SubmitTicket(o, sig)
             \/ \E i \in DOMAIN orders : CancelTicket(i)
             \/ \E t \in Tickers, x \in Terms, e \in 1 .. LastDay + 1 : Settle(t, x, e)
      PROVE  HonestInv'
  <2>1. /\ fills' = fills /\ bars' = bars /\ tx' = tx /\ tx = Idle
    BY <1>0, <1>5, TxPhases
       DEF Publish, Drop, Quarantine, SubmitTicket, CancelTicket, Settle, market, book
  <2>2. ~Opens /\ ~RollsBack
    BY <2>1, OpenPhase DEF Opens, RollsBack
  <2>3. OrdersStay
    BY <2>2, OrdersDo
  <2>4. QED
    BY <2>1, <2>3, NoFillHonest
<1>6. ASSUME \/ CreditDividends
             \/ \E t \in Tickers : CloseOut(t)
             \/ CloseOutDone
             \/ \E i \in DOMAIN orders : AttemptBuy(i)
             \/ SizeBuys \/ MarkToMarket
             \/ \E s \in Signals : GenerateOrder(s)
      PROVE  HonestInv'
  <2>1. tx # Idle /\ OpenShape(tx)
    BY <1>0, <1>6, TxPhases
       DEF CreditDividends, CloseOut, CloseOutDone, AttemptBuy, SizeBuys, MarkToMarket, GenerateOrder, Phase
  <2>2. fills' = fills /\ bars' = bars
    BY <1>6 DEF CreditDividends, CloseOut, CloseOutDone, AttemptBuy, SizeBuys, MarkToMarket,
                GenerateOrder, market, book
  <2>3. tx' # Idle /\ tx'.saved = tx.saved
    <3>1. CASE CreditDividends \/ MarkToMarket
      BY <2>1, <3>1, OpenPhase DEF CreditDividends, MarkToMarket, Enter, OpenShape
    <3>2. CASE \E t \in Tickers : CloseOut(t)
      BY <2>1, <3>2 DEF CloseOut
    <3>3. CASE CloseOutDone
      <4> DEFINE R == {i \in PendingOrders : Due(i, tx.day)}
      <4>1. tx' = [tx EXCEPT !.phase = "fill", !.todo = R]
        BY <3>3 DEF CloseOutDone
      <4> HIDE DEF R
      <4>2. QED
        BY <2>1, <4>1, OpenPhase DEF OpenShape
    <3>4. ASSUME NEW i \in DOMAIN orders, AttemptBuy(i) PROVE tx' # Idle /\ tx'.saved = tx.saved
      <4> DEFINE y == Done(i)
                 R == y.buys \cup {i}
      <4>1. tx' \in {y, [y EXCEPT !.buys = R]}
        BY <3>4 DEF AttemptBuy
      <4>2. OpenShape(y) /\ y.saved = tx.saved
        BY <2>1 DEF Done, OpenShape
      <4> HIDE DEF y, R
      <4>3. OpenShape(tx') /\ tx'.saved = tx.saved
        BY <4>1, <4>2 DEF OpenShape
      <4>4. QED
        BY <4>3, OpenPhase
    <3>5. CASE SizeBuys
      <4> DEFINE w == Sum(tx.buys, Cost)
      <4>1. tx' = [tx EXCEPT !.phase = "buy", !.budget = cash, !.wanted = w]
        BY <3>5 DEF SizeBuys
      <4> HIDE DEF w
      <4>2. QED
        BY <2>1, <4>1, OpenPhase DEF OpenShape
    <3>6. ASSUME NEW s \in Signals, GenerateOrder(s) PROVE tx' # Idle /\ tx'.saved = tx.saved
      <4> DEFINE R == tx.signalled \cup {s}
      <4>1. tx' = [tx EXCEPT !.signalled = R]
        BY <3>6 DEF GenerateOrder
      <4> HIDE DEF R
      <4>2. QED
        BY <2>1, <4>1, OpenPhase DEF OpenShape
    <3>7. QED
      BY <1>6, <3>1, <3>2, <3>3, <3>4, <3>5, <3>6
  <2>4. ~Opens /\ ~RollsBack
    BY <2>1, <2>3 DEF Opens, RollsBack
  <2>5. OrdersStay
    BY <2>4, OrdersDo
  <2>6. QED
    BY <2>1, <2>2, <2>3, <2>5, NoFillHonest
<1>7. ASSUME Commit \/ UNCHANGED vars PROVE HonestInv'
  <2>1. UNCHANGED <<orders, fills, bars>> /\ tx' \in {tx, Idle}
    BY <1>7 DEF Commit, vars, market, book
  <2>2. OrdersStay
    BY <2>1 DEF OrdersStay
  <2>3. QED
    BY <2>1, <2>2, NoFillHonest
<1>8. QED
  BY <1>1, <1>2, <1>3, <1>4, <1>5, <1>6, <1>7 DEF Next

\* For every set of bars, orders and terms, in such a book: a fill comes after
\* its signal, at the price of the bar of its session, within its order and the
\* liquidity ceiling, whatever is collected, rerun or rolled back afterwards.
THEOREM HonestFills ==
  ASSUME ~Backdated, ~SettleAhead
  PROVE  Spec => []FillsHonest
<1>1. Init => HonestInv
  BY DEF Init, HonestInv, HonestIn
<1>2. BooksInv /\ LedgerInv /\ HonestInv /\ [Next]_vars => HonestInv'
  BY HonestStep
<1>3. HonestInv => FillsHonest
  BY DEF HonestInv, HonestIn, FillsHonest
<1>4. QED
  BY <1>1, <1>2, <1>3, LedgerSound, PTL DEF Spec

-----------------------------------------------------------------------------
(* A rerun over unchanged data.  Redo says of a book whose last session is *)
(* d that the fills, dividends and close-outs of d are what a step of d    *)
(* makes of the book without them, so that a rerun has no other choice.    *)

\* The collected data a step reads.
Data == [bars |-> bars, published |-> published, droppedOn |-> droppedOn,
         quarantined |-> quarantined]

\* The fills there are when sell i, or buy i, of session d has its turn, and
\* when its buys are sized; the orders that buy.
ToSell(fs, d, i) == {f \in fs : f.day # d \/ (f.side = "sell" /\ f.order < i)}
ToBuy(fs, d, i) == {f \in fs : f.day # d \/ f.side = "sell" \/ f.order < i}
BeforeBuys(fs, d) == {f \in fs : f.day # d \/ f.side = "sell"}
Bidders(fs, d) == {f.order : f \in BoughtOn(fs, d)}

Bids(m, os, S, d) == SumOver([i \in S |-> os[i].qty * BuyPx(m.bars[d][os[i].ticker])], S)
ScaledTo(q, w, b) == IF w > b THEN (q * b) \div w ELSE q

SellsPlanned(os, fs, ss, d) ==
    \A f \in SoldOn(fs, d) :
        f.qty = Min({os[f.order].qty, Shares(ToSell(fs, d, f.order), ss, f.ticker, LastDay + 1)})
BuysPlanned(os, fs, cs, ss, d, w) ==
    \A f \in BoughtOn(fs, d) :
        f.qty = Min({ScaledTo(os[f.order].qty, w, Money(BeforeBuys(fs, d), cs, ss, LastDay + 1)),
                     Money(ToBuy(fs, d, f.order), cs, ss, LastDay + 1) \div f.px})

\* A buy that is not put aside; the orders left pending have no bar.
Biddable(m, o, d) ==
    /\ o.ticker \notin m.quarantined
    /\ o.qty * m.bars[d][o.ticker].px <= m.bars[d][o.ticker].cap
Barless(m, os, S, d) ==
    \A i \in Pending(os) : i \notin S /\ os[i].sig < d => ~Printed(m.bars, os[i].ticker, d)
Planned(m, os, fs, ss, d, S) ==
    /\ SellsPlanned(os, fs, ss, d) /\ Barless(m, os, S, d)
    /\ \A f \in BoughtOn(fs, d) : Biddable(m, os[f.order], d)

\* The dividends and close-outs of d, over the fills before it.
HeldNames(fs, ss) == {f.ticker : f \in fs} \cup {x.into : x \in Conversions(ss)}
InWindow(e, d) == e > d - DIVIDEND_LOOKBACK_DAYS /\ e <= d
ClosedOut(t, ss) == \E x \in ss : x.auto /\ x.ticker = t
PaidToday(m, fs, cs, ss, d) ==
    \A c \in cs : c.ex = d =>
        /\ <<c.ticker, d>> \in m.published /\ InWindow(d, d)
        /\ c.ticker \in HeldNames(fs, ss) /\ c.qty # 0
        /\ ClosedOut(c.ticker, ss) \/ c.qty = Shares(fs, ss, c.ticker, d - 1)
AllPaid(m, fs, cs, ss, d) ==
    \A x \in m.published : InWindow(x[2], d) /\ x[1] \in HeldNames(fs, ss) =>
        \/ \E c \in cs : c.ticker = x[1] /\ c.ex = x[2]
        \/ Shares(fs, ss, x[1], x[2] - 1) = 0
LastPrinted(bs, t, d) == Max({e \in 1 .. d : Printed(bs, t, e)} \cup {0})
Gone(m, ss, t, d) ==
    LET last == LastPrinted(m.bars, t, d)
    IN /\ last > 0 /\ m.droppedOn[t] >= last /\ m.droppedOn[t] <= d
       /\ d - last >= DELISTED_AFTER_SESSIONS
       /\ \A x \in ss : ~(x.ticker = t /\ x.eff > last /\ ~x.auto)
       /\ \A e \in Days : e >= last + 1 => ~Printed(m.bars, t, e)
       /\ \A x \in ss : ~(x.ticker = t /\ x.eff = last + 1)
NoneToClose(m, fs, ss, d) ==
    \A t \in Tickers : Gone(m, ss, t, d) => Shares(fs, ss, t, LastDay + 1) = 0
Prepared(m, fs, cs, ss, d) ==
    PaidToday(m, fs, cs, ss, d) /\ AllPaid(m, fs, cs, ss, d) /\ NoneToClose(m, fs, ss, d)

\* No order of d was refused for want of cash, of the orders that count.
Unrefused(os, d) == \A i \in DOMAIN os : os[i].sig < d => os[i].reason # "insufficient_cash"
Redo(m, os, fs, cs, ss, d) ==
    /\ Prepared(m, FillsBut(fs, d), cs, ss, d) /\ Planned(m, os, fs, ss, d, {})
    /\ Unrefused(os, d) => BuysPlanned(os, fs, cs, ss, d, Bids(m, os, Bidders(fs, d), d))

\* An order that is pending or filled was never refused.
Reasoned(os) == \A i \in DOMAIN os : os[i].status \in {"pending", "filled"} => os[i].reason = "none"

\* The same for the session of an open transaction, as far as it has come.
Selling ==
    /\ Prepared(Data, FillsBut(fills, tx.day), credits, settlements, tx.day)
    /\ Planned(Data, orders, fills, settlements, tx.day, tx.todo \cup tx.buys)
    /\ \A i \in tx.buys : Biddable(Data, orders[i], tx.day)
    /\ \A f \in SoldOn(fills, tx.day), i \in TodoSells : f.order < i
Buying ==
    /\ Prepared(Data, FillsBut(fills, tx.day), credits, settlements, tx.day)
    /\ Planned(Data, orders, fills, settlements, tx.day, tx.buys)
    /\ \A i \in tx.buys : Biddable(Data, orders[i], tx.day)
    /\ \A f \in BoughtOn(fills, tx.day), i \in tx.buys : f.order < i
    /\ tx.budget = Money(BeforeBuys(fills, tx.day), credits, settlements, LastDay + 1)
    /\ Unrefused(orders, tx.day) =>
          /\ tx.wanted = Bids(Data, orders, tx.buys \cup Bidders(fills, tx.day), tx.day)
          /\ BuysPlanned(orders, fills, credits, settlements, tx.day, tx.wanted)
Planning ==
    /\ tx.phase = "dividends" => \A c \in credits : c.ex # tx.day
    /\ tx.phase = "closeout" => PaidToday(Data, fills, credits, settlements, tx.day)
    /\ tx.phase = "fill" => Selling
    /\ tx.phase = "buy" => Buying
    /\ tx.phase = "generate" => Redo(Data, orders, fills, credits, settlements, tx.day)

\* A rerun over unchanged data follows the copy it may have to restore.
AsOrdered(os, ot, d) ==
    \A i \in DOMAIN os : os[i].sig < d =>
        /\ i \in DOMAIN ot
        /\ ot[i].ticker = os[i].ticker /\ ot[i].side = os[i].side
        /\ ot[i].qty = os[i].qty /\ ot[i].sig = os[i].sig
        /\ os[i].reason = "insufficient_cash" =>
              ot[i].reason = "insufficient_cash" /\ ot[i].status # "pending"
ClearedOf(os, fs, d) ==
    [i \in {j \in DOMAIN os : os[j].sig # d \/ os[j].ticket} |->
        IF os[i].status = "filled" /\ ~\E f \in fs : f.order = i
        THEN Marked(os[i], "pending") ELSE os[i]]
Repeatable(m, os, ss, d) ==
    Unrefused(os, d) /\ \A x \in ss : x.auto => <<x.ticker, d>> \notin m.published
FollowedSells(m, os, fs, todo, buys, copy, d) ==
    /\ fs = {f \in copy : f.day # d \/ (f.side = "sell" /\ f.order \notin todo)}
    /\ Bidders(copy, d) \subseteq todo \cup buys /\ buys \subseteq Bidders(copy, d)
    /\ \A i \in todo : \/ \E f \in copy : f.order = i /\ f.day = d
                       \/ ~Printed(m.bars, os[i].ticker, d)
FollowedBuys(fs, buys, copy, d) ==
    /\ fs = {f \in copy : f.day # d \/ f.side = "sell" \/ f.order \notin buys}
    /\ buys \subseteq Bidders(copy, d)
Following(s, d) ==
    /\ settlements = s.settlements /\ AsOrdered(s.orders, orders, d)
    /\ tx.phase \in {"dividends", "closeout"} =>
          fills = FillsBut(s.fills, d) /\ orders = ClearedOf(s.orders, fills, d)
    /\ tx.phase = "dividends" => credits = CreditsBut(s.credits, d)
    /\ Repeatable(Data, s.orders, s.settlements, d) =>
          /\ tx.phase # "dividends" => credits = s.credits
          /\ tx.phase = "fill" => FollowedSells(Data, orders, fills, tx.todo, tx.buys, s.fills, d)
          /\ tx.phase = "buy" =>
                /\ FollowedBuys(fills, tx.buys, s.fills, d)
                /\ tx.wanted = Bids(Data, s.orders, Bidders(s.fills, d), d)
                /\ tx.budget = Money(BeforeBuys(s.fills, d), s.credits, s.settlements, LastDay + 1)
          /\ tx.phase = "generate" => fills = s.fills

SavedRedo ==
    ~changed /\ tx.saved.equity # {} =>
        Redo(Data, tx.saved.orders, tx.saved.fills, tx.saved.credits, tx.saved.settlements,
             LastOf(tx.saved.equity))

ReasonsInv == Reasoned(orders) /\ (tx # Idle => Reasoned(tx.saved.orders))
PlanInv ==
    IF tx = Idle
    THEN ~changed /\ equity # {} => Redo(Data, orders, fills, credits, settlements, LastOf(equity))
    ELSE SavedRedo /\ Planning
FollowInv ==
    tx # Idle => (tx.rerun => /\ tx.saved.equity # {} /\ tx.day = LastOf(tx.saved.equity)
                              /\ ~changed => Following(tx.saved, tx.day))

-----------------------------------------------------------------------------
(* What each step of the transaction does, in these terms.                 *)

\* A step inside the transaction: the data and the copy stay.
Steady ==
    /\ tx # Idle /\ tx' # Idle
    /\ Data' = Data /\ changed' = changed /\ bars' = bars /\ published' = published
    /\ tx'.day = tx.day /\ tx'.saved = tx.saved /\ tx'.rerun = tx.rerun

\* Only order i is changed, and only its status and reason.
Touched(i) ==
    /\ DOMAIN orders' = DOMAIN orders /\ \A j \in DOMAIN orders : j # i => orders'[j] = orders[j]
    /\ Kept(orders[i], orders'[i])

SellDoes(i) ==
    LET tk == orders[i].ticker
        b == bars[tx.day][tk]
    IN /\ Steady /\ tx.phase = "fill" /\ tx'.phase = "fill"
       /\ i \in TodoSells /\ \A j \in TodoSells : i <= j
       /\ tx'.todo = tx.todo \ {i} /\ tx'.buys = tx.buys
       /\ UNCHANGED <<credits, settlements>> /\ Touched(i)
       /\ orders'[i].status \in {"pending", "filled"} => orders'[i].reason = "none"
       /\ orders'[i].reason # "insufficient_cash"
       /\ \/ /\ fills' = fills
             /\ orders'[i].status = "pending" => ~Printed(bars, tk, tx.day)
             /\ SellQty(i) <= 0 \/ ~Printed(bars, tk, tx.day) \/ SellQty(i) * b.px > b.cap
          \/ /\ fills' = fills \cup {FillRow(i, SellQty(i), SellPx(b))}
             /\ Printed(bars, tk, tx.day) /\ orders'[i].status = "filled"

AttemptDoes(i) ==
    LET tk == orders[i].ticker
    IN /\ Steady /\ tx.phase = "fill" /\ tx'.phase = "fill" /\ TodoSells = {} /\ i \in tx.todo
       /\ tx'.todo = tx.todo \ {i} /\ UNCHANGED <<fills, credits, settlements>> /\ Touched(i)
       /\ orders'[i].status \in {"pending", "filled"} => orders'[i].reason = "none"
       /\ orders'[i].reason # "insufficient_cash"
       /\ \/ /\ tx'.buys = tx.buys \cup {i} /\ Biddable(Data, orders[i], tx.day)
             /\ Printed(bars, tk, tx.day)
          \/ /\ tx'.buys = tx.buys
             /\ orders'[i].status = "pending" => ~Printed(bars, tk, tx.day)
             /\ ~Biddable(Data, orders[i], tx.day) \/ ~Printed(bars, tk, tx.day)

SizeDoes ==
    /\ Steady /\ tx.phase = "fill" /\ tx'.phase = "buy" /\ tx.todo = {} /\ tx'.buys = tx.buys
    /\ tx'.budget = cash /\ tx'.wanted = Bids(Data, orders, tx.buys, tx.day)
    /\ UNCHANGED <<orders, fills, credits, settlements>>

BuyDoes(i) ==
    LET px == BuyPx(bars[tx.day][orders[i].ticker])
        qty == Min({ScaledTo(orders[i].qty, tx.wanted, tx.budget), cash \div px})
    IN /\ Steady /\ tx.phase = "buy" /\ tx'.phase = "buy"
       /\ i \in tx.buys /\ \A j \in tx.buys : i <= j
       /\ tx'.buys = tx.buys \ {i} /\ tx'.budget = tx.budget /\ tx'.wanted = tx.wanted
       /\ UNCHANGED <<credits, settlements>> /\ Touched(i)
       /\ \/ /\ qty = 0 /\ fills' = fills
             /\ orders'[i].status = "rejected" /\ orders'[i].reason = "insufficient_cash"
          \/ /\ qty # 0 /\ fills' = fills \cup {FillRow(i, qty, px)}
             /\ orders'[i].status = "filled" /\ orders'[i].reason = "none"

MarkDoes ==
    /\ Steady /\ tx.phase = "buy" /\ tx'.phase = "generate" /\ tx.buys = {}
    /\ UNCHANGED <<orders, fills, credits, settlements>>

GenerateDoes ==
    /\ Steady /\ tx.phase = "generate" /\ tx'.phase = "generate"
    /\ UNCHANGED <<fills, credits, settlements>>
    /\ \E n : /\ n \notin DOMAIN orders /\ DOMAIN orders' = DOMAIN orders \cup {n}
              /\ \A i \in DOMAIN orders : orders'[i] = orders[i]
              /\ orders'[n].sig = tx.day
              /\ orders'[n].status \in {"pending", "filled"} => orders'[n].reason = "none"

\* The dividends due, in the terms of the sums.
Owed == {x \in Unpaid : Shares(fills, settlements, x[1], x[2] - 1) # 0}
CreditFor(x) ==
    [ticker |-> x[1], ex |-> x[2], qty |-> Shares(fills, settlements, x[1], x[2] - 1)]

CreditDoes ==
    /\ Steady /\ tx.phase = "dividends" /\ tx'.phase = "closeout"
    /\ UNCHANGED <<orders, fills, settlements>>
    /\ \A c : c \in credits' <=> c \in credits \/ \E x \in Owed : c = CreditFor(x)

CloseOutDoes(t) ==
    /\ Steady /\ tx.phase = "closeout" /\ tx'.phase = "closeout" /\ UNCHANGED <<fills, credits>>
    /\ pos[t] # 0 /\ Gone(Data, settlements, t, tx.day)
    /\ \E y \in Settlement : /\ settlements' = settlements \cup {y} /\ y \notin settlements
                             /\ y.ticker = t /\ y.into = t /\ y.ratio = 0 /\ y.auto
    /\ DOMAIN orders' = DOMAIN orders
    /\ \A i \in DOMAIN orders :
          \/ orders'[i] = orders[i]
          \/ /\ orders[i].status = "pending" /\ Kept(orders[i], orders'[i])
             /\ orders'[i].status = "cancelled" /\ orders'[i].reason = orders[i].reason

CloseOutDoneDoes ==
    /\ Steady /\ tx.phase = "closeout" /\ tx'.phase = "fill" /\ tx.buys = {} /\ tx'.buys = {}
    /\ UNCHANGED <<orders, fills, credits, settlements>>
    /\ tx'.todo = {i \in Pending(orders) : orders[i].sig < tx.day}
    /\ \A t \in Tickers : Gone(Data, settlements, t, tx.day) => pos[t] = 0

\* The least of a set of naturals.
LEMMA MinLeast ==
  ASSUME NEW S \in SUBSET Nat, S # {}
  PROVE  Min(S) \in S /\ \A y \in S : Min(S) <= y
<1>1. \E x \in S : \A y \in S : x <= y
  BY Least
<1>2. QED
  BY <1>1 DEF Min

\* The copy of the record that a step changes.
LEMMA StatusReason ==
  ASSUME NEW i \in DOMAIN orders, \A j \in DOMAIN orders : orders[j] \in Order,
         NEW st \in {"pending", "filled", "rejected", "cancelled"},
         NEW why \in {"none", "no_bar", "illiquid", "quarantine",
                      "no_position", "insufficient_cash"},
         orders' = Status(i, st, why)
  PROVE  Touched(i) /\ orders'[i].status = st /\ orders'[i].reason = why
<1>1. Restated(orders, orders', i, st)
  BY StatusMeans
<1>2. orders'[i] = Resolved(orders[i], st, why)
  BY DEF Status
<1>3. orders'[i].reason = why
  BY <1>2 DEF Resolved, Order
<1>4. QED
  BY <1>1, <1>3 DEF Restated, Touched

LEMMA StaysTouched ==
  ASSUME NEW i \in DOMAIN orders, \A j \in DOMAIN orders : orders[j] \in Order, orders' = orders
  PROVE  Touched(i)
  BY DEF Touched, Kept

\* An open record keeps the fields that its steps do not name.
LEMMA TodoGone ==
  ASSUME OpenShape(tx), NEW i
  PROVE  LET y == Done(i) IN
         /\ OpenShape(y) /\ y.phase = tx.phase /\ y.day = tx.day /\ y.saved = tx.saved
         /\ y.rerun = tx.rerun /\ y.todo = tx.todo \ {i} /\ y.buys = tx.buys
  BY DEF Done, OpenShape

LEMMA SellEffect ==
  ASSUME BooksInv, LedgerInv, ReasonsInv, NEW i \in DOMAIN orders, FillSell(i)
  PROVE  SellDoes(i)
<1>0. /\ Shapes /\ TodoDue /\ tx.phase = "fill" /\ tx # Idle /\ OpenShape(tx) /\ tx.day \in Days
      /\ tx.day \in Nat
      /\ nextId \in Nat /\ DOMAIN orders \subseteq 1 .. nextId - 1
      /\ \A j \in DOMAIN orders : orders[j] \in Order
  BY TxPhases, Setting DEF BooksInv, FillSell, Phase
<1> DEFINE o == orders[i]
           qty == SellQty(i)
           b == bars[tx.day][o.ticker]
           outcome == IF qty <= 0 THEN "no_position" ELSE AttemptFill(o, qty, tx.day)
<1>2. /\ TodoSells # {} /\ i = Min(TodoSells) /\ tx' = Done(i)
      /\ Data' = Data /\ changed' = changed /\ bars' = bars /\ published' = published
      /\ UNCHANGED <<credits, settlements>>
  BY DEF FillSell, market, Data
<1>3. \/ /\ outcome = "filled" /\ fills' = fills \cup {FillRow(i, qty, SellPx(b))}
         /\ orders' = Status(i, "filled", "none")
      \/ /\ outcome # "filled" /\ UNCHANGED fills
         /\ orders' = IF outcome = "pending" THEN orders ELSE Status(i, "rejected", outcome)
  BY DEF FillSell
<1>4. outcome \in {"no_position", "no_bar", "pending", "illiquid", "filled"}
  BY DEF AttemptFill
<1>5. /\ outcome = "filled" => Printed(bars, o.ticker, tx.day)
      /\ outcome = "pending" => ~Printed(bars, o.ticker, tx.day)
      /\ outcome # "filled" => qty <= 0 \/ ~Printed(bars, o.ticker, tx.day) \/ qty * b.px > b.cap
  BY DEF AttemptFill, Traded, Printed
<1>6. i \in TodoSells /\ (\A j \in TodoSells : i <= j) /\ i \in Pending(orders)
  <2>1. TodoSells \subseteq DOMAIN orders
    BY <1>0 DEF TodoSells, TodoDue, Todo, Pending
  <2>2. TodoSells \in SUBSET Nat
    BY <1>0, <2>1
  <2>3. i \in TodoSells /\ \A j \in TodoSells : i <= j
    BY <1>2, <2>2, MinLeast
  <2>4. QED
    BY <1>0, <2>3 DEF TodoSells, TodoDue, Todo
<1>7. /\ OpenShape(tx') /\ tx'.phase = "fill" /\ tx'.day = tx.day /\ tx'.saved = tx.saved
      /\ tx'.rerun = tx.rerun /\ tx'.todo = tx.todo \ {i} /\ tx'.buys = tx.buys
  BY <1>0, <1>2, TodoGone
<1>8. Steady
  BY <1>0, <1>2, <1>7, OpenPhase DEF Steady
<1>9. o.reason = "none" /\ o.status = "pending"
  BY <1>6 DEF ReasonsInv, Reasoned, Pending
<1> HIDE DEF outcome
<1>10. CASE outcome = "filled"
  <2>1. Touched(i) /\ orders'[i].status = "filled" /\ orders'[i].reason = "none"
    BY <1>0, <1>3, <1>10, StatusReason
  <2>2. QED
    BY <1>0, <1>2, <1>3, <1>5, <1>6, <1>7, <1>8, <1>10, <2>1 DEF SellDoes
<1>11. CASE outcome = "pending"
  <2>1. orders' = orders /\ Touched(i)
    BY <1>0, <1>3, <1>11, StaysTouched
  <2>2. QED
    BY <1>0, <1>2, <1>3, <1>5, <1>6, <1>7, <1>8, <1>9, <1>11, <2>1 DEF SellDoes
<1>12. CASE outcome \in {"no_position", "no_bar", "illiquid"}
  <2>1. Touched(i) /\ orders'[i].status = "rejected" /\ orders'[i].reason = outcome
    BY <1>0, <1>3, <1>12, StatusReason
  <2>2. QED
    BY <1>0, <1>2, <1>3, <1>5, <1>6, <1>7, <1>8, <1>12, <2>1 DEF SellDoes
<1>13. QED
  BY <1>4, <1>10, <1>11, <1>12

LEMMA AttemptEffect ==
  ASSUME BooksInv, LedgerInv, ReasonsInv, NEW i \in DOMAIN orders, AttemptBuy(i)
  PROVE  AttemptDoes(i)
<1>0. /\ Shapes /\ TodoDue /\ tx.phase = "fill" /\ tx # Idle /\ OpenShape(tx) /\ tx.day \in Days
      /\ tx.day \in Nat
      /\ nextId \in Nat /\ DOMAIN orders \subseteq 1 .. nextId - 1
      /\ \A j \in DOMAIN orders : orders[j] \in Order
  BY TxPhases, Setting DEF BooksInv, AttemptBuy, Phase
<1>1. Market
  BY DEF LedgerInv
<1> DEFINE o == orders[i]
           b == bars[tx.day][o.ticker]
           outcome == IF o.ticker \in quarantined THEN "quarantine"
                      ELSE AttemptFill(o, o.qty, tx.day)
<1>2. /\ TodoSells = {} /\ tx.todo # {} /\ i = Min(tx.todo)
      /\ tx' = IF outcome = "filled" THEN [Done(i) EXCEPT !.buys = @ \cup {i}] ELSE Done(i)
      /\ orders' = IF outcome \in {"filled", "pending"} THEN orders
                   ELSE Status(i, "rejected", outcome)
      /\ Data' = Data /\ changed' = changed /\ bars' = bars /\ published' = published
      /\ UNCHANGED <<fills, credits, settlements>>
  BY DEF AttemptBuy, market, Data
<1>3. outcome \in {"quarantine", "no_bar", "pending", "illiquid", "filled"}
  BY DEF AttemptFill
<1>4. i \in tx.todo /\ i \in Pending(orders)
  <2>1. tx.todo \subseteq DOMAIN orders
    BY <1>0 DEF TodoDue, Todo, Pending
  <2>2. tx.todo \in SUBSET Nat
    BY <1>0, <2>1
  <2>3. i \in tx.todo
    BY <1>2, <2>2, MinIn
  <2>4. QED
    BY <1>0, <2>3 DEF TodoDue, Todo
<1>5. o.qty \in Nat /\ o.ticker \in Tickers
  BY <1>0 DEF Order
<1>6. b.px \in Nat /\ b.cap \in Nat
  BY <1>0, <1>1, <1>5, BarMeans
<1>7. /\ outcome = "filled" <=> Biddable(Data, o, tx.day) /\ Printed(bars, o.ticker, tx.day)
      /\ outcome = "pending" => ~Printed(bars, o.ticker, tx.day)
  <2>1. PICK v \in Nat : v = o.qty * b.px
    BY <1>5, <1>6
  <2>2. (o.qty * b.px > b.cap) <=> ~(o.qty * b.px <= b.cap)
    BY <1>6, <2>1
  <2>3. QED
    BY <2>2 DEF Biddable, Data, AttemptFill, Traded, Printed
<1>8. /\ OpenShape(tx') /\ tx'.phase = "fill" /\ tx'.day = tx.day /\ tx'.saved = tx.saved
      /\ tx'.rerun = tx.rerun /\ tx'.todo = tx.todo \ {i}
      /\ tx'.buys = IF outcome = "filled" THEN tx.buys \cup {i} ELSE tx.buys
  <2> HIDE DEF outcome
  <2> DEFINE y == Done(i)
  <2>1. /\ OpenShape(y) /\ y.phase = tx.phase /\ y.day = tx.day /\ y.saved = tx.saved
        /\ y.rerun = tx.rerun /\ y.todo = tx.todo \ {i} /\ y.buys = tx.buys
    BY <1>0, TodoGone
  <2>2. CASE outcome = "filled"
    <3>1. tx' = [y EXCEPT !.buys = y.buys \cup {i}]
      BY <1>2, <2>2
    <3> HIDE DEF y
    <3>2. QED
      BY <1>0, <2>1, <2>2, <3>1 DEF OpenShape
  <2>3. CASE outcome # "filled"
    BY <1>0, <1>2, <2>1, <2>3
  <2>4. QED
    BY <2>2, <2>3
<1>9. Steady
  BY <1>0, <1>2, <1>8, OpenPhase DEF Steady
<1>10. o.reason = "none" /\ o.status = "pending"
  BY <1>4 DEF ReasonsInv, Reasoned, Pending
<1> HIDE DEF outcome
<1>11. CASE outcome \in {"filled", "pending"}
  <2>1. orders' = orders /\ Touched(i)
    BY <1>0, <1>2, <1>11, StaysTouched
  <2>2. QED
    BY <1>0, <1>2, <1>4, <1>7, <1>8, <1>9, <1>10, <1>11, <2>1 DEF AttemptDoes
<1>12. CASE outcome \in {"quarantine", "no_bar", "illiquid"}
  <2>1. Touched(i) /\ orders'[i].status = "rejected" /\ orders'[i].reason = outcome
    BY <1>0, <1>2, <1>12, StatusReason
  <2>2. QED
    BY <1>0, <1>2, <1>4, <1>7, <1>8, <1>9, <1>12, <2>1 DEF AttemptDoes
<1>13. QED
  BY <1>3, <1>11, <1>12

LEMMA SizeEffect ==
  ASSUME BooksInv, SizeBuys
  PROVE  SizeDoes
<1>0. tx.phase = "fill" /\ tx # Idle /\ OpenShape(tx)
  BY TxPhases DEF BooksInv, SizeBuys, Phase
<1> DEFINE w == SumOver([i \in tx.buys |-> orders[i].qty * BuyPx(bars[tx.day][orders[i].ticker])], tx.buys)
<1>1. /\ tx' = [tx EXCEPT !.phase = "buy", !.budget = cash, !.wanted = w] /\ tx.todo = {}
      /\ Data' = Data /\ changed' = changed /\ bars' = bars /\ published' = published
      /\ UNCHANGED <<orders, fills, credits, settlements>>
  BY DEF SizeBuys, Sum, Cost, market, book, Data
<1>2. w = Bids(Data, orders, tx.buys, tx.day)
  BY DEF Bids, Data
<1> HIDE DEF w
<1>3. /\ OpenShape(tx') /\ tx'.phase = "buy" /\ tx'.day = tx.day /\ tx'.saved = tx.saved
      /\ tx'.rerun = tx.rerun /\ tx'.buys = tx.buys /\ tx'.budget = cash /\ tx'.wanted = w
  BY <1>0, <1>1 DEF OpenShape
<1>4. Steady
  BY <1>0, <1>1, <1>3, OpenPhase DEF Steady
<1>5. QED
  BY <1>0, <1>1, <1>2, <1>3, <1>4 DEF SizeDoes

LEMMA BuyEffect ==
  ASSUME BooksInv, LedgerInv, NEW i \in DOMAIN orders, FillBuy(i)
  PROVE  BuyDoes(i)
<1>0. /\ Shapes /\ TodoDue /\ tx.phase = "buy" /\ tx # Idle /\ OpenShape(tx)
      /\ nextId \in Nat /\ DOMAIN orders \subseteq 1 .. nextId - 1
      /\ \A j \in DOMAIN orders : orders[j] \in Order
  BY TxPhases DEF BooksInv, FillBuy, Phase
<1> DEFINE o == orders[i]
           px == BuyPx(bars[tx.day][o.ticker])
           qty == Min({ScaledTo(o.qty, tx.wanted, tx.budget), cash \div px})
<1>1. /\ tx.buys # {} /\ i = Min(tx.buys) /\ tx' = [tx EXCEPT !.buys = tx.buys \ {i}]
      /\ Data' = Data /\ changed' = changed /\ bars' = bars /\ published' = published
      /\ UNCHANGED <<credits, settlements>>
  BY DEF FillBuy, market, Data
<1>2. \/ /\ qty # 0 /\ fills' = fills \cup {FillRow(i, qty, px)}
         /\ orders' = Status(i, "filled", "none")
      \/ /\ qty = 0 /\ fills' = fills
         /\ orders' = Status(i, "rejected", "insufficient_cash")
  BY DEF FillBuy, Scaled, ScaledTo
<1>3. i \in tx.buys /\ \A j \in tx.buys : i <= j
  <2>1. tx.buys \subseteq DOMAIN orders
    BY <1>0 DEF TodoDue, Todo, Pending
  <2>2. tx.buys \in SUBSET Nat
    BY <1>0, <2>1
  <2>3. QED
    BY <1>1, <2>2, MinLeast
<1> DEFINE rest == tx.buys \ {i}
<1> HIDE DEF rest
<1>4. /\ OpenShape(tx') /\ tx'.phase = "buy" /\ tx'.day = tx.day /\ tx'.saved = tx.saved
      /\ tx'.rerun = tx.rerun /\ tx'.buys = rest
      /\ tx'.budget = tx.budget /\ tx'.wanted = tx.wanted
  <2>1. tx' = [tx EXCEPT !.buys = rest]
    BY <1>1 DEF rest
  <2>2. QED
    BY <1>0, <2>1 DEF OpenShape
<1>5. Steady
  BY <1>0, <1>1, <1>4, OpenPhase DEF Steady
<1> HIDE DEF qty
<1>6. CASE qty # 0
  <2>1. Touched(i) /\ orders'[i].status = "filled" /\ orders'[i].reason = "none"
    BY <1>0, <1>2, <1>6, StatusReason
  <2>2. QED
    BY <1>0, <1>1, <1>2, <1>3, <1>4, <1>5, <1>6, <2>1 DEF BuyDoes, qty, rest
<1>7. CASE qty = 0
  <2>1. Touched(i) /\ orders'[i].status = "rejected" /\ orders'[i].reason = "insufficient_cash"
    BY <1>0, <1>2, <1>7, StatusReason
  <2>2. QED
    BY <1>0, <1>1, <1>2, <1>3, <1>4, <1>5, <1>7, <2>1 DEF BuyDoes, qty, rest
<1>8. QED
  BY <1>6, <1>7

LEMMA MarkEffect ==
  ASSUME BooksInv, MarkToMarket
  PROVE  MarkDoes
<1>0. tx.phase = "buy" /\ tx # Idle /\ OpenShape(tx)
  BY TxPhases DEF BooksInv, MarkToMarket, Phase
<1>1. /\ tx' = [tx EXCEPT !.phase = "generate"] /\ tx.buys = {}
      /\ Data' = Data /\ changed' = changed /\ bars' = bars /\ published' = published
      /\ UNCHANGED <<orders, fills, credits, settlements>>
  BY DEF MarkToMarket, Enter, market, Data
<1>2. /\ OpenShape(tx') /\ tx'.phase = "generate" /\ tx'.day = tx.day /\ tx'.saved = tx.saved
      /\ tx'.rerun = tx.rerun
  BY <1>0, <1>1 DEF OpenShape
<1>3. Steady
  BY <1>0, <1>1, <1>2, OpenPhase DEF Steady
<1>4. QED
  BY <1>0, <1>1, <1>2, <1>3 DEF MarkDoes

\* What a new order looks like.
LEMMA NewOrderIs ==
  ASSUME NEW o, NEW sig, NEW st, NEW why, NEW tk, nextId \notin DOMAIN orders,
         orders' = NewOrder(o, sig, st, why, tk)
  PROVE  /\ DOMAIN orders' = DOMAIN orders \cup {nextId}
         /\ \A i \in DOMAIN orders : orders'[i] = orders[i]
         /\ orders'[nextId].sig = sig /\ orders'[nextId].status = st /\ orders'[nextId].reason = why
  BY DEF NewOrder

LEMMA GenerateEffect ==
  ASSUME BooksInv, NEW s \in Signals, GenerateOrder(s)
  PROVE  GenerateDoes
<1>0. /\ tx.phase = "generate" /\ tx # Idle /\ OpenShape(tx)
      /\ nextId \in Nat /\ DOMAIN orders \subseteq 1 .. nextId - 1
  BY TxPhases DEF BooksInv, GenerateOrder, Phase
<1> DEFINE R == tx.signalled \cup {s}
<1>1. /\ tx' = [tx EXCEPT !.signalled = R]
      /\ Data' = Data /\ changed' = changed /\ bars' = bars /\ published' = published
      /\ UNCHANGED <<fills, credits, settlements>>
      /\ \/ orders' = NewOrder(s, tx.day, "rejected", "quarantine", FALSE)
         \/ orders' = NewOrder(s, tx.day, "pending", "none", FALSE)
  BY DEF GenerateOrder, market, Data
<1> HIDE DEF R
<1>2. /\ OpenShape(tx') /\ tx'.phase = "generate" /\ tx'.day = tx.day /\ tx'.saved = tx.saved
      /\ tx'.rerun = tx.rerun
  BY <1>0, <1>1 DEF OpenShape
<1>3. Steady
  BY <1>0, <1>1, <1>2, OpenPhase DEF Steady
<1>4. nextId \notin DOMAIN orders
  BY <1>0
<1>5. /\ DOMAIN orders' = DOMAIN orders \cup {nextId}
      /\ \A i \in DOMAIN orders : orders'[i] = orders[i]
      /\ orders'[nextId].sig = tx.day
      /\ orders'[nextId].status \in {"pending", "filled"} => orders'[nextId].reason = "none"
  <2>1. CASE orders' = NewOrder(s, tx.day, "rejected", "quarantine", FALSE)
    BY <1>4, <2>1, NewOrderIs
  <2>2. CASE orders' = NewOrder(s, tx.day, "pending", "none", FALSE)
    BY <1>4, <2>2, NewOrderIs
  <2>3. QED
    BY <1>1, <2>1, <2>2
<1>6. QED
  BY <1>0, <1>1, <1>2, <1>3, <1>4, <1>5 DEF GenerateDoes

LEMMA CreditEffect ==
  ASSUME BooksInv, LedgerInv, CreditDividends
  PROVE  CreditDoes
<1>0. Shapes /\ tx.phase = "dividends" /\ tx # Idle /\ OpenShape(tx)
  BY TxPhases DEF BooksInv, CreditDividends, Phase
<1> DEFINE due == {x \in Unpaid : Entitled(x) # 0}
<1>1. /\ credits' = credits \cup {[ticker |-> x[1], ex |-> x[2], qty |-> Entitled(x)] : x \in due}
      /\ Data' = Data /\ changed' = changed /\ bars' = bars /\ published' = published
      /\ UNCHANGED <<orders, fills, settlements>>
      /\ tx' = [tx EXCEPT !.phase = "closeout"]
  BY DEF CreditDividends, Enter, market, Data
<1>2. \A x \in Unpaid : Entitled(x) = Shares(fills, settlements, x[1], x[2] - 1)
  BY <1>0, EntitledMeans
<1>3. due = Owed
  BY <1>2 DEF Owed
<1>4. \A x \in Owed : [ticker |-> x[1], ex |-> x[2], qty |-> Entitled(x)] = CreditFor(x)
  BY <1>2 DEF Owed, CreditFor
<1> HIDE DEF due
<1>5. \A c : c \in credits' <=> c \in credits \/ \E x \in Owed : c = CreditFor(x)
  BY <1>1, <1>3, <1>4
<1>6. /\ OpenShape(tx') /\ tx'.phase = "closeout" /\ tx'.day = tx.day /\ tx'.saved = tx.saved
      /\ tx'.rerun = tx.rerun
  BY <1>0, <1>1 DEF OpenShape
<1>7. Steady
  BY <1>0, <1>1, <1>6, OpenPhase DEF Steady
<1>8. QED
  BY <1>0, <1>1, <1>5, <1>6, <1>7 DEF CreditDoes

\* A holding that is delisted and can be settled is one that is gone.
LEMMA GoneMeans ==
  ASSUME NEW t \in Tickers, NEW d, NEW pr
  PROVE  pos[t] # 0 /\ Gone(Data, settlements, t, d)
         <=> /\ Delisted(t, d)
             /\ Settleable(t, [price |-> pr, into |-> t, ratio |-> 0], LastTraded(t, d) + 1)
<1>1. LastTraded(t, d) = LastPrinted(bars, t, d)
  BY DEF LastTraded, LastPrinted, Traded, Printed
<1> DEFINE last == LastTraded(t, d)
           term == [price |-> pr, into |-> t, ratio |-> 0]
<1>2. term.ratio = 0
  OBVIOUS
<1>3. ~(term.ratio > 0)
  BY <1>2
<1>4. Settleable(t, term, last + 1) <=>
        /\ \A e \in Days : e >= last + 1 => ~Traded(t, e)
        /\ \A x \in settlements : ~(x.ticker = t /\ x.eff = last + 1)
  BY <1>3 DEF Settleable
<1>5. Delisted(t, d) <=>
        /\ pos[t] # 0 /\ last > 0 /\ droppedOn[t] >= last /\ droppedOn[t] <= d
        /\ d - last >= DELISTED_AFTER_SESSIONS
        /\ \A x \in settlements : ~(x.ticker = t /\ x.eff > last /\ ~x.auto)
  BY DEF Delisted
<1>6. Gone(Data, settlements, t, d) <=>
        /\ last > 0 /\ droppedOn[t] >= last /\ droppedOn[t] <= d
        /\ d - last >= DELISTED_AFTER_SESSIONS
        /\ \A x \in settlements : ~(x.ticker = t /\ x.eff > last /\ ~x.auto)
        /\ \A e \in Days : e >= last + 1 => ~Traded(t, e)
        /\ \A x \in settlements : ~(x.ticker = t /\ x.eff = last + 1)
  <2>1. Data.bars = bars /\ Data.droppedOn = droppedOn
    BY DEF Data
  <2> HIDE DEF last
  <2>2. LastPrinted(Data.bars, t, d) = last
    BY <1>1, <2>1 DEF last
  <2>3. QED
    BY <2>1, <2>2 DEF Gone, Traded, Printed
<1> HIDE DEF last, term
<1>7. (pos[t] # 0 /\ Gone(Data, settlements, t, d)) <=> (Delisted(t, d) /\ Settleable(t, term, last + 1))
  BY <1>4, <1>5, <1>6
<1>8. QED
  BY <1>7 DEF last, term

LEMMA CloseOutEffect ==
  ASSUME BooksInv, LedgerInv, NEW t \in Tickers, CloseOut(t)
  PROVE  CloseOutDoes(t)
<1>0. /\ Shapes /\ tx.phase = "closeout" /\ tx # Idle /\ OpenShape(tx) /\ tx.day \in Days
      /\ tx.day \in Nat /\ \A j \in DOMAIN orders : orders[j] \in Order
  BY TxPhases, Setting DEF BooksInv, CloseOut, Phase
<1>1. Market /\ Ledger(bars, fills, credits, settlements, cash, pos, tx.day)
  BY <1>0 DEF LedgerInv, LedgerInTx
<1> DEFINE last == LastTraded(t, tx.day)
           term == [price |-> bars[last][t].px, into |-> t, ratio |-> 0]
           y == [ticker |-> t, qty |-> pos[t], price |-> term.price, into |-> term.into,
                 ratio |-> term.ratio, eff |-> last + 1, auto |-> TRUE]
<1>2. /\ Delisted(t, tx.day) /\ Settleable(t, term, last + 1)
      /\ ApplySettlement(t, term, last + 1, TRUE)
      /\ Data' = Data /\ changed' = changed /\ bars' = bars /\ published' = published
      /\ UNCHANGED <<fills, credits, tx>>
  BY DEF CloseOut, market, Data
<1>3. Steady
  BY <1>0, <1>2 DEF Steady
<1>4. pos[t] # 0 /\ Gone(Data, settlements, t, tx.day)
  BY <1>2, GoneMeans
<1>5. last > 0 /\ tx.day - last >= DELISTED_AFTER_SESSIONS
  BY <1>2 DEF Delisted
<1>6. last \in 0 .. tx.day
  BY <1>0, LastTradedIn
<1>7. /\ settlements' = settlements \cup {y} /\ y \notin settlements
      /\ y.ticker = t /\ y.into = t /\ y.ratio = 0 /\ y.auto
  BY <1>2 DEF ApplySettlement, Settleable
<1>8. y \in Settlement
  <2> HIDE DEF last
  <2>1. last \in Days /\ last + 1 \in 1 .. LastDay + 1
    BY <1>0, <1>5, <1>6, DaysNat DEF Days
  <2>2. bars[last][t].px \in Nat
    BY <1>1, <2>1, BarMeans
  <2>3. pos \in [Tickers -> Nat]
    <3>1. tx.day \in 0 .. LastDay /\ tx.day \in tx.day .. LastDay + 1
      BY <1>0, DaysNat DEF Days
    <3>2. QED
      BY <1>1, <3>1, BookEnds
  <2>4. QED
    BY <2>1, <2>2, <2>3 DEF Settlement
<1>9. \E z \in Settlement : /\ settlements' = settlements \cup {z} /\ z \notin settlements
                            /\ z.ticker = t /\ z.into = t /\ z.ratio = 0 /\ z.auto
  <2> HIDE DEF y
  <2>1. QED
    BY <1>7, <1>8
<1>10. /\ DOMAIN orders' = DOMAIN orders
       /\ \A i \in DOMAIN orders :
             \/ orders'[i] = orders[i]
             \/ orders[i].status = "pending" /\ orders'[i] = Marked(orders[i], "cancelled")
  BY <1>2 DEF ApplySettlement, PendingOrders
<1>11. \A i \in DOMAIN orders :
         LET o == Marked(orders[i], "cancelled")
         IN Kept(orders[i], o) /\ o.status = "cancelled" /\ o.reason = orders[i].reason
  <2> SUFFICES ASSUME NEW i \in DOMAIN orders
               PROVE  LET o == Marked(orders[i], "cancelled")
                      IN Kept(orders[i], o) /\ o.status = "cancelled" /\ o.reason = orders[i].reason
    OBVIOUS
  <2>1. PICK o \in Order : o = orders[i]
    BY <1>0
  <2>2. Kept(o, Marked(o, "cancelled")) /\ Marked(o, "cancelled").status = "cancelled"
    BY OrderKept
  <2>3. Marked(o, "cancelled").reason = o.reason
    BY DEF Marked, Order
  <2>4. QED
    BY <2>1, <2>2, <2>3
<1>12. \A i \in DOMAIN orders :
          \/ orders'[i] = orders[i]
          \/ /\ orders[i].status = "pending" /\ Kept(orders[i], orders'[i])
             /\ orders'[i].status = "cancelled" /\ orders'[i].reason = orders[i].reason
  BY <1>10, <1>11
<1>13. tx'.phase = "closeout"
  BY <1>0, <1>2
<1> HIDE DEF last, y
<1>14. QED
  BY <1>0, <1>2, <1>3, <1>4, <1>9, <1>10, <1>12, <1>13 DEF CloseOutDoes

LEMMA CloseOutDoneEffect ==
  ASSUME BooksInv, CloseOutDone
  PROVE  CloseOutDoneDoes
<1>0. tx.phase = "closeout" /\ tx # Idle /\ OpenShape(tx) /\ tx.buys = {}
  BY TxPhases DEF BooksInv, CloseOutDone, Phase, TodoDue
<1> DEFINE todo == {i \in Pending(orders) : orders[i].sig < tx.day}
<1>1. /\ tx' = [tx EXCEPT !.phase = "fill", !.todo = todo]
      /\ Data' = Data /\ changed' = changed /\ bars' = bars /\ published' = published
      /\ UNCHANGED <<orders, fills, credits, settlements>>
  BY DEF CloseOutDone, market, book, Data, PendingOrders, Pending, Due
<1>2. \A t \in Tickers : Gone(Data, settlements, t, tx.day) => pos[t] = 0
  <2> SUFFICES ASSUME NEW t \in Tickers, Gone(Data, settlements, t, tx.day), pos[t] # 0 PROVE FALSE
    OBVIOUS
  <2>1. /\ Delisted(t, tx.day)
        /\ Settleable(t, [price |-> 0, into |-> t, ratio |-> 0], LastTraded(t, tx.day) + 1)
    BY GoneMeans
  <2>2. QED
    BY <2>1 DEF CloseOutDone
<1> HIDE DEF todo
<1>3. /\ OpenShape(tx') /\ tx'.phase = "fill" /\ tx'.day = tx.day /\ tx'.saved = tx.saved
      /\ tx'.rerun = tx.rerun /\ tx'.buys = {} /\ tx'.todo = todo
  BY <1>0, <1>1 DEF OpenShape
<1>4. Steady
  BY <1>0, <1>1, <1>3, OpenPhase DEF Steady
<1>5. QED
  BY <1>0, <1>1, <1>2, <1>3, <1>4 DEF CloseOutDoneDoes, todo

\* A transaction opens with a copy of the book.
LEMMA OpeningCopies ==
  ASSUME NEW d, NEW re, tx' = OpenTx(d, re)
  PROVE  /\ tx' # Idle /\ tx'.phase = "dividends" /\ tx'.day = d /\ tx'.rerun = re
         /\ tx'.saved.orders = orders /\ tx'.saved.fills = fills /\ tx'.saved.credits = credits
         /\ tx'.saved.settlements = settlements /\ tx'.saved.equity = equity
<1>1. OpenShape(tx') /\ tx'.rerun = re
  BY DEF OpenTx, OpenShape
<1>2. QED
  BY <1>1, OpenTxSaves, OpenPhase

-----------------------------------------------------------------------------
(* The reasons.                                                            *)

LEMMA TouchedReasoned ==
  ASSUME Reasoned(orders), NEW i \in DOMAIN orders, Touched(i),
         orders'[i].status \in {"pending", "filled"} => orders'[i].reason = "none"
  PROVE  Reasoned(orders')
  BY DEF Reasoned, Touched

\* Outside the transaction orders are only added, cancelled or settled away.
LEMMA OutsideReasons ==
  ASSUME BooksInv, Reasoned(orders),
         \/ Collect
         \/ \E x \in LateBars : LateBar(x)
         \/ \E x \in Dividends : Publish(x)
         \/ \E t \in Dropped : Drop(t)
         \/ \E t \in Quarantinable : Quarantine(t)
         \/ \E o \in Tickets, sig \in 1 .. LastDay + 1 : SubmitTicket(o, sig)
         \/ \E i \in DOMAIN orders : CancelTicket(i)
         \/ \E t \in Tickers, x \in Terms, e \in 1 .. LastDay + 1 : Settle(t, x, e)
  PROVE  Reasoned(orders') /\ tx = Idle /\ tx' = Idle
<1>0. Shapes /\ (tx.phase = "idle" => tx = Idle)
  BY TxPhases DEF BooksInv
<1>1. /\ nextId \in Nat /\ DOMAIN orders \subseteq 1 .. nextId - 1
      /\ \A j \in DOMAIN orders : orders[j] \in Order
  BY <1>0, TxPhases
<1>2. CASE \/ Collect
           \/ \E x \in LateBars : LateBar(x)
           \/ \E x \in Dividends : Publish(x)
           \/ \E t \in Dropped : Drop(t)
           \/ \E t \in Quarantinable : Quarantine(t)
  <2>1. tx.phase = "idle" /\ orders' = orders /\ tx' = tx
    BY <1>2 DEF Collect, LateBar, Publish, Drop, Quarantine, book
  <2>2. QED
    BY <1>0, <2>1
<1>3. ASSUME NEW o \in Tickets, NEW sig \in 1 .. LastDay + 1, SubmitTicket(o, sig)
      PROVE  Reasoned(orders') /\ tx = Idle /\ tx' = Idle
  <2>1. tx.phase = "idle" /\ tx' = tx /\ orders' = NewOrder(o, sig, "pending", "none", TRUE)
    BY <1>3 DEF SubmitTicket
  <2>2. nextId \notin DOMAIN orders
    BY <1>1
  <2>3. /\ DOMAIN orders' = DOMAIN orders \cup {nextId}
        /\ \A i \in DOMAIN orders : orders'[i] = orders[i]
        /\ orders'[nextId].reason = "none"
    BY <2>1, <2>2, NewOrderIs
  <2>4. QED
    BY <1>0, <2>1, <2>3 DEF Reasoned
<1>4. ASSUME NEW i \in DOMAIN orders, CancelTicket(i)
      PROVE  Reasoned(orders') /\ tx = Idle /\ tx' = Idle
  <2>1. tx.phase = "idle" /\ tx' = tx /\ orders' = Status(i, "cancelled", "none")
    BY <1>4 DEF CancelTicket
  <2>2. Touched(i) /\ orders'[i].status = "cancelled"
    BY <1>1, <2>1, StatusReason
  <2>3. QED
    BY <1>0, <2>1, <2>2, TouchedReasoned
<1>5. ASSUME NEW t \in Tickers, NEW x \in Terms, NEW e \in 1 .. LastDay + 1, Settle(t, x, e)
      PROVE  Reasoned(orders') /\ tx = Idle /\ tx' = Idle
  <2>1. tx.phase = "idle" /\ tx' = tx /\ ApplySettlement(t, x, e, FALSE)
    BY <1>5 DEF Settle
  <2>2. /\ DOMAIN orders' = DOMAIN orders
        /\ \A i \in DOMAIN orders :
              orders'[i] = orders[i] \/ orders'[i] = Marked(orders[i], "cancelled")
    BY <2>1 DEF ApplySettlement
  <2>3. \A i \in DOMAIN orders : Marked(orders[i], "cancelled").status = "cancelled"
    BY <1>1, OrderKept
  <2>4. QED
    BY <1>0, <2>1, <2>2, <2>3 DEF Reasoned
<1>6. QED
  BY <1>2, <1>3, <1>4, <1>5

\* A rerun returns orders to pending, and those had been filled.
LEMMA ClearedReasoned ==
  ASSUME NEW d, NEW fs, Reasoned(orders), \A j \in DOMAIN orders : orders[j] \in Order
  PROVE  Reasoned(Cleared(d, fs))
<1> DEFINE D == {j \in DOMAIN orders : orders[j].sig # d \/ orders[j].ticket}
           os == Cleared(d, fs)
<1>1. /\ DOMAIN os = D
      /\ \A i \in D : \/ os[i] = orders[i]
                      \/ orders[i].status = "filled" /\ os[i] = Marked(orders[i], "pending")
  BY DEF Cleared
<1>2. D \subseteq DOMAIN orders
  OBVIOUS
<1> HIDE DEF D, os
<1>3. ASSUME NEW i \in D, os[i].status \in {"pending", "filled"} PROVE os[i].reason = "none"
  <2>1. CASE os[i] = orders[i]
    BY <1>2, <1>3, <2>1 DEF Reasoned
  <2>2. CASE orders[i].status = "filled" /\ os[i] = Marked(orders[i], "pending")
    <3>1. orders[i].reason = "none" /\ orders[i] \in Order
      BY <1>2, <2>2 DEF Reasoned
    <3>2. Marked(orders[i], "pending").reason = orders[i].reason
      BY <3>1 DEF Marked, Order
    <3>3. QED
      BY <2>2, <3>1, <3>2
  <2>3. QED
    BY <1>1, <2>1, <2>2
<1>4. QED
  BY <1>1, <1>3 DEF Reasoned, os

LEMMA ReasonsStep ==
  ASSUME BooksInv, LedgerInv, ReasonsInv, [Next]_vars
  PROVE  ReasonsInv'
<1>0. Reasoned(orders) /\ Idle' = Idle
  BY DEF ReasonsInv, Idle
<1>1. /\ \A j \in DOMAIN orders : orders[j] \in Order
      /\ tx.phase = "idle" <=> tx = Idle
  BY TxPhases DEF BooksInv
<1>2. ASSUME Reasoned(orders'), tx' # Idle => tx # Idle /\ tx'.saved = tx.saved PROVE ReasonsInv'
  BY <1>0, <1>2 DEF ReasonsInv
<1>3. ASSUME UNCHANGED vars PROVE ReasonsInv'
  <2>1. orders' = orders /\ tx' = tx
    BY <1>3 DEF vars, book
  <2>2. QED
    BY <1>0, <1>2, <2>1
<1>4. CASE \/ Collect
           \/ \E x \in LateBars : LateBar(x)
           \/ \E x \in Dividends : Publish(x)
           \/ \E t \in Dropped : Drop(t)
           \/ \E t \in Quarantinable : Quarantine(t)
           \/ \E o \in Tickets, sig \in 1 .. LastDay + 1 : SubmitTicket(o, sig)
           \/ \E i \in DOMAIN orders : CancelTicket(i)
           \/ \E t \in Tickers, x \in Terms, e \in 1 .. LastDay + 1 : Settle(t, x, e)
  <2>1. Reasoned(orders') /\ tx' = Idle
    BY <1>0, <1>4, OutsideReasons
  <2>2. QED
    BY <1>2, <2>1
<1>5. ASSUME NEW d \in Days, BeginNightly(d) \/ BeginManual(d) PROVE ReasonsInv'
  <2>1. tx' = OpenTx(d, FALSE) /\ orders' = orders
    BY <1>5 DEF BeginNightly, BeginManual, book
  <2>2. tx'.saved.orders = orders
    BY <2>1, OpeningCopies
  <2>3. QED
    BY <1>0, <2>1, <2>2 DEF ReasonsInv
<1>6. ASSUME NEW d \in Days, BeginRerun(d) PROVE ReasonsInv'
  <2>1. tx' = OpenTx(d, TRUE) /\ orders' = Cleared(d, fills')
    BY <1>6 DEF BeginRerun
  <2>2. tx'.saved.orders = orders
    BY <2>1, OpeningCopies
  <2>3. Reasoned(orders')
    BY <1>0, <1>1, <2>1, ClearedReasoned
  <2>4. QED
    BY <1>0, <2>2, <2>3 DEF ReasonsInv
<1>7. CASE CreditDividends
  <2>1. CreditDoes
    BY <1>7, CreditEffect
  <2>2. QED
    BY <1>0, <1>2, <2>1 DEF CreditDoes, Steady
<1>8. ASSUME NEW t \in Tickers, CloseOut(t) PROVE ReasonsInv'
  <2>1. CloseOutDoes(t)
    BY <1>8, CloseOutEffect
  <2>2. Reasoned(orders')
    BY <1>0, <2>1 DEF CloseOutDoes, Reasoned
  <2>3. QED
    BY <1>2, <2>1, <2>2 DEF CloseOutDoes, Steady
<1>9. CASE CloseOutDone
  <2>1. CloseOutDoneDoes
    BY <1>9, CloseOutDoneEffect
  <2>2. QED
    BY <1>0, <1>2, <2>1 DEF CloseOutDoneDoes, Steady
<1>10. ASSUME NEW i \in DOMAIN orders, FillSell(i) PROVE ReasonsInv'
  <2>1. SellDoes(i)
    BY <1>10, SellEffect
  <2>2. Reasoned(orders')
    BY <1>0, <2>1, TouchedReasoned DEF SellDoes
  <2>3. QED
    BY <1>2, <2>1, <2>2 DEF SellDoes, Steady
<1>11. ASSUME NEW i \in DOMAIN orders, AttemptBuy(i) PROVE ReasonsInv'
  <2>1. AttemptDoes(i)
    BY <1>11, AttemptEffect
  <2>2. Reasoned(orders')
    BY <1>0, <2>1, TouchedReasoned DEF AttemptDoes
  <2>3. QED
    BY <1>2, <2>1, <2>2 DEF AttemptDoes, Steady
<1>12. ASSUME NEW i \in DOMAIN orders, FillBuy(i) PROVE ReasonsInv'
  <2>1. BuyDoes(i)
    BY <1>12, BuyEffect
  <2>2. /\ Steady /\ Touched(i)
        /\ orders'[i].status \in {"pending", "filled"} => orders'[i].reason = "none"
    BY <2>1 DEF BuyDoes
  <2>3. Reasoned(orders')
    BY <1>0, <2>2, TouchedReasoned
  <2>4. QED
    BY <1>2, <2>2, <2>3 DEF Steady
<1>13. CASE SizeBuys
  <2>1. SizeDoes
    BY <1>13, SizeEffect
  <2>2. QED
    BY <1>0, <1>2, <2>1 DEF SizeDoes, Steady
<1>14. CASE MarkToMarket
  <2>1. MarkDoes
    BY <1>14, MarkEffect
  <2>2. QED
    BY <1>0, <1>2, <2>1 DEF MarkDoes, Steady
<1>15. ASSUME NEW s \in Signals, GenerateOrder(s) PROVE ReasonsInv'
  <2>1. GenerateDoes
    BY <1>15, GenerateEffect
  <2>2. Reasoned(orders')
    BY <1>0, <2>1 DEF GenerateDoes, Reasoned
  <2>3. QED
    BY <1>2, <2>1, <2>2 DEF GenerateDoes, Steady
<1>16. CASE Commit
  <2>1. tx' = Idle /\ orders' = orders
    BY <1>16 DEF Commit, book
  <2>2. QED
    BY <1>0, <1>2, <2>1
<1>17. CASE Rollback
  <2>1. tx # Idle /\ tx' = Idle /\ orders' = tx.saved.orders
    BY <1>1, <1>17 DEF Rollback, Phase
  <2>2. Reasoned(orders')
    BY <2>1 DEF ReasonsInv
  <2>3. QED
    BY <1>2, <2>1, <2>2
<1>18. QED
  BY <1>3, <1>4, <1>5, <1>6, <1>7, <1>8, <1>9, <1>10, <1>11, <1>12, <1>13, <1>14, <1>15,
     <1>16, <1>17 DEF Next

-----------------------------------------------------------------------------
(* What the terms of a session depend on.                                  *)

\* Orders with the same names and quantities plan the same session.
LEMMA SameBids ==
  ASSUME NEW m, NEW os, NEW ot, NEW d, NEW S,
         \A i \in S : ot[i].qty = os[i].qty /\ ot[i].ticker = os[i].ticker
  PROVE  Bids(m, ot, S, d) = Bids(m, os, S, d)
<1> DEFINE A(i) == ot[i].qty * BuyPx(m.bars[d][ot[i].ticker])
           B(i) == os[i].qty * BuyPx(m.bars[d][os[i].ticker])
<1>1. \A i \in S : A(i) = B(i)
  OBVIOUS
<1> HIDE DEF A, B
<1>2. [i \in S |-> A(i)] = [i \in S |-> B(i)]
  BY <1>1
<1>3. QED
  BY <1>2 DEF Bids, A, B

LEMMA SameSells ==
  ASSUME NEW os, NEW ot, NEW fs, NEW ss, NEW d, SellsPlanned(os, fs, ss, d),
         \A f \in fs : ot[f.order].qty = os[f.order].qty
  PROVE  SellsPlanned(ot, fs, ss, d)
  BY DEF SellsPlanned, SoldOn

LEMMA SameBuys ==
  ASSUME NEW os, NEW ot, NEW fs, NEW cs, NEW ss, NEW d, NEW w, BuysPlanned(os, fs, cs, ss, d, w),
         \A f \in fs : ot[f.order].qty = os[f.order].qty
  PROVE  BuysPlanned(ot, fs, cs, ss, d, w)
  BY DEF BuysPlanned, BoughtOn

LEMMA SameBiddable ==
  ASSUME NEW m, NEW o, NEW p, NEW d, Biddable(m, o, d), p.qty = o.qty, p.ticker = o.ticker
  PROVE  Biddable(m, p, d)
  BY DEF Biddable

LEMMA RedoOrders ==
  ASSUME NEW m, NEW os, NEW ot, NEW fs, NEW cs, NEW ss, NEW d, Redo(m, os, fs, cs, ss, d),
         \A f \in fs : /\ ot[f.order].qty = os[f.order].qty
                       /\ ot[f.order].ticker = os[f.order].ticker,
         \A i \in Pending(ot) : ot[i].sig < d =>
            i \in Pending(os) /\ os[i].sig < d /\ ot[i].ticker = os[i].ticker,
         Unrefused(ot, d) => Unrefused(os, d)
  PROVE  Redo(m, ot, fs, cs, ss, d)
<1> DEFINE S == Bidders(fs, d)
<1>1. \A i \in S : ot[i].qty = os[i].qty /\ ot[i].ticker = os[i].ticker
  BY DEF Bidders, BoughtOn
<1> HIDE DEF S
<1>2. Bids(m, ot, S, d) = Bids(m, os, S, d)
  BY <1>1, SameBids
<1>3. SellsPlanned(ot, fs, ss, d)
  <2>1. SellsPlanned(os, fs, ss, d)
    BY DEF Redo, Planned
  <2>2. QED
    BY <2>1, SameSells
<1>4. Barless(m, ot, {}, d)
  BY DEF Redo, Planned, Barless
<1>5. \A f \in BoughtOn(fs, d) : Biddable(m, ot[f.order], d)
  BY DEF Redo, Planned, BoughtOn, Biddable
<1>6. ASSUME Unrefused(ot, d) PROVE BuysPlanned(ot, fs, cs, ss, d, Bids(m, ot, S, d))
  <2>1. BuysPlanned(os, fs, cs, ss, d, Bids(m, os, S, d))
    BY <1>6 DEF Redo, S
  <2>2. BuysPlanned(ot, fs, cs, ss, d, Bids(m, os, S, d))
    BY <2>1, SameBuys
  <2>3. QED
    BY <1>2, <2>2
<1>7. Prepared(m, FillsBut(fs, d), cs, ss, d)
  BY DEF Redo
<1>8. QED
  BY <1>3, <1>4, <1>5, <1>6, <1>7 DEF Redo, Planned, S

\* Bars of later sessions do not matter, but that a name trades again.
LEMMA RedoData ==
  ASSUME NEW m, NEW n, NEW os, NEW fs, NEW cs, NEW ss, NEW d, Redo(m, os, fs, cs, ss, d),
         n.bars[d] = m.bars[d], n.published = m.published, n.quarantined = m.quarantined,
         \A t \in Tickers : Gone(n, ss, t, d) => Gone(m, ss, t, d)
  PROVE  Redo(n, os, fs, cs, ss, d)
<1>1. Prepared(n, FillsBut(fs, d), cs, ss, d)
  BY DEF Redo, Prepared, PaidToday, AllPaid, NoneToClose
<1>2. Planned(n, os, fs, ss, d, {})
  BY DEF Redo, Planned, Barless, Printed, Biddable
<1>3. Bids(n, os, Bidders(fs, d), d) = Bids(m, os, Bidders(fs, d), d)
  BY DEF Bids
<1>4. QED
  BY <1>1, <1>2, <1>3 DEF Redo

\* The collector stores a later session.
LEMMA CollectRedo ==
  ASSUME Shapes, Market, Collect, NEW os, NEW fs, NEW cs, NEW ss, NEW d \in 1 .. latest,
         Redo(Data, os, fs, cs, ss, d)
  PROVE  Redo(Data', os, fs, cs, ss, d)
<1>0. latest \in Nat /\ latest < LastDay /\ LastDay \in Nat
  BY TxPhases DEF Collect
<1>1. PICK row \in [Tickers -> BarChoices \cup {NoBar}] : bars' = [bars EXCEPT ![latest + 1] = row]
  BY DEF Collect
<1>2. UNCHANGED <<published, droppedOn, quarantined>>
  BY DEF Collect
<1>3. \A e \in Days : e # latest + 1 => bars'[e] = bars[e]
  BY <1>1 DEF Market
<1>4. \A t \in Tickers : ~Printed(bars, t, latest + 1)
  <2>1. latest + 1 \in Days
    BY <1>0 DEF Days
  <2>2. QED
    BY <1>0, <2>1 DEF Market, Printed, NoBar
<1>5. d \in Days /\ d # latest + 1 /\ d \in Nat
  BY <1>0 DEF Days
<1>6. ASSUME NEW t \in Tickers, Gone(Data', ss, t, d) PROVE Gone(Data, ss, t, d)
  <2>1. Data'.bars = bars' /\ Data'.droppedOn = droppedOn /\ Data.bars = bars /\ Data.droppedOn = droppedOn
    BY <1>2 DEF Data
  <2>2. \A e \in 1 .. d : Printed(bars', t, e) <=> Printed(bars, t, e)
    BY <1>0, <1>3, <1>5 DEF Days, Printed
  <2>3. {e \in 1 .. d : Printed(bars', t, e)} = {e \in 1 .. d : Printed(bars, t, e)}
    BY <2>2
  <2>4. LastPrinted(bars', t, d) = LastPrinted(bars, t, d)
    BY <2>3 DEF LastPrinted
  <2>5. \A e \in Days : ~Printed(bars', t, e) => ~Printed(bars, t, e)
    BY <1>3, <1>4 DEF Printed
  <2>6. QED
    BY <1>6, <2>1, <2>4, <2>5 DEF Gone
<1>7. /\ Data'.bars[d] = Data.bars[d] /\ Data'.published = Data.published
      /\ Data'.quarantined = Data.quarantined
  BY <1>2, <1>3, <1>5 DEF Data
<1>8. QED
  BY <1>6, <1>7, RedoData

-----------------------------------------------------------------------------
(* The plan of the session.                                                *)

LEMMA InSession ==
  ASSUME BooksInv, LedgerInv, tx # Idle
  PROVE  /\ tx.day \in Days /\ tx.day \in Nat
         /\ \A f \in fills : /\ f \in Fill /\ f.order \in Nat /\ f.side \in {"buy", "sell"}
                             /\ f.order \in DOMAIN orders
         /\ \A i \in DOMAIN orders : i \in Nat /\ orders[i] \in Order
         /\ Records(fills, credits, settlements)
         /\ cash = Money(fills, credits, settlements, LastDay + 1)
         /\ \A t \in Tickers : pos[t] = Shares(fills, settlements, t, LastDay + 1)
<1>1. Shapes /\ BookMatched
  BY DEF BooksInv
<1>2. Ledger(bars, fills, credits, settlements, cash, pos, tx.day)
  BY DEF LedgerInv, LedgerInTx
<1>3. Records(fills, credits, settlements) /\ Balanced(fills, credits, settlements, cash, pos)
  BY <1>2 DEF Ledger
<1>4. \A f \in fills : f \in Fill /\ f.order \in DOMAIN orders
  BY <1>1, <1>3, RecordsMean, FillOrders
<1>5. \A f \in Fill : f.order \in Nat /\ f.side \in {"buy", "sell"}
  BY DEF Fill
<1>6. tx.day \in Days /\ tx.day \in Nat
  BY <1>1, Setting
<1>7. \A i \in DOMAIN orders : i \in Nat /\ orders[i] \in Order
  BY <1>1, TxPhases
<1>8. QED
  BY <1>3, <1>4, <1>5, <1>6, <1>7 DEF Balanced

\* An order put aside, refused or filled leaves the others without a bar.
LEMMA BarlessTouched ==
  ASSUME NEW i \in DOMAIN orders, Touched(i), NEW S, NEW T, NEW d, Barless(Data, orders, S, d),
         S \subseteq T \cup {i},
         orders'[i].status = "pending" => i \in T \/ ~Printed(bars, orders[i].ticker, d)
  PROVE  Barless(Data, orders', T, d)
<1> SUFFICES ASSUME NEW j \in Pending(orders'), j \notin T, orders'[j].sig < d
             PROVE  ~Printed(Data.bars, orders'[j].ticker, d)
  BY DEF Barless
<1>1. Data.bars = bars
  BY DEF Data
<1>2. CASE j = i
  BY <1>1, <1>2 DEF Touched, Kept, Pending
<1>3. CASE j # i
  BY <1>3 DEF Touched, Pending, Barless
<1>4. QED
  BY <1>2, <1>3

\* The fills of a session one sell later.
LEMMA SellsGrow ==
  ASSUME NEW os, NEW fs, NEW ss, NEW d, NEW f, SellsPlanned(os, fs, ss, d),
         f.side = "sell", f.day = d, f.order \in Nat,
         \A g \in fs : g.order \in Nat /\ (g.day = d => g.side = "sell"),
         \A g \in SoldOn(fs, d) : g.order < f.order,
         f.qty = Min({os[f.order].qty, Shares(fs, ss, f.ticker, LastDay + 1)})
  PROVE  SellsPlanned(os, fs \cup {f}, ss, d)
<1> SUFFICES ASSUME NEW g \in SoldOn(fs \cup {f}, d)
             PROVE  g.qty = Min({os[g.order].qty,
                                 Shares(ToSell(fs \cup {f}, d, g.order), ss, g.ticker, LastDay + 1)})
  BY DEF SellsPlanned
<1>1. CASE g = f
  <2>1. ToSell(fs \cup {f}, d, f.order) = fs
    BY DEF ToSell, SoldOn
  <2>2. QED
    BY <1>1, <2>1
<1>2. CASE g \in SoldOn(fs, d)
  <2>1. ToSell(fs \cup {f}, d, g.order) = ToSell(fs, d, g.order)
    BY <1>2 DEF ToSell, SoldOn
  <2>2. QED
    BY <1>2, <2>1 DEF SellsPlanned
<1>3. QED
  BY <1>1, <1>2 DEF SoldOn

\* The fills of a session one buy later.
LEMMA BuyBeside ==
  ASSUME NEW os, NEW fs, NEW ss, NEW d, NEW f, SellsPlanned(os, fs, ss, d), f.side = "buy", f.day = d
  PROVE  /\ SellsPlanned(os, fs \cup {f}, ss, d)
         /\ BeforeBuys(fs \cup {f}, d) = BeforeBuys(fs, d)
         /\ Bidders(fs \cup {f}, d) = Bidders(fs, d) \cup {f.order}
<1>1. SoldOn(fs \cup {f}, d) = SoldOn(fs, d)
  BY DEF SoldOn
<1>2. \A n : ToSell(fs \cup {f}, d, n) = ToSell(fs, d, n)
  BY DEF ToSell
<1>3. SellsPlanned(os, fs \cup {f}, ss, d)
  BY <1>1, <1>2 DEF SellsPlanned
<1>4. BeforeBuys(fs \cup {f}, d) = BeforeBuys(fs, d)
  BY DEF BeforeBuys
<1>5. BoughtOn(fs \cup {f}, d) = BoughtOn(fs, d) \cup {f}
  BY DEF BoughtOn
<1>6. Bidders(fs \cup {f}, d) = Bidders(fs, d) \cup {f.order}
  BY <1>5 DEF Bidders
<1>7. QED
  BY <1>3, <1>4, <1>6

LEMMA BuysGrow ==
  ASSUME NEW os, NEW fs, NEW cs, NEW ss, NEW d, NEW w, NEW f, BuysPlanned(os, fs, cs, ss, d, w),
         f.side = "buy", f.day = d, f.order \in Nat,
         \A g \in fs : g.order \in Nat /\ g.side \in {"buy", "sell"},
         \A g \in BoughtOn(fs, d) : g.order < f.order,
         f.qty = Min({ScaledTo(os[f.order].qty, w, Money(BeforeBuys(fs, d), cs, ss, LastDay + 1)),
                      Money(fs, cs, ss, LastDay + 1) \div f.px})
  PROVE  BuysPlanned(os, fs \cup {f}, cs, ss, d, w)
<1>1. BeforeBuys(fs \cup {f}, d) = BeforeBuys(fs, d)
  BY DEF BeforeBuys
<1> SUFFICES ASSUME NEW g \in BoughtOn(fs \cup {f}, d)
             PROVE  g.qty = Min({ScaledTo(os[g.order].qty, w,
                                          Money(BeforeBuys(fs, d), cs, ss, LastDay + 1)),
                                 Money(ToBuy(fs \cup {f}, d, g.order), cs, ss, LastDay + 1) \div g.px})
  BY <1>1 DEF BuysPlanned
<1>2. CASE g = f
  <2>1. ToBuy(fs \cup {f}, d, f.order) = fs
    BY DEF ToBuy, BoughtOn
  <2>2. QED
    BY <1>2, <2>1
<1>3. CASE g \in BoughtOn(fs, d)
  <2>1. ToBuy(fs \cup {f}, d, g.order) = ToBuy(fs, d, g.order)
    BY <1>3 DEF ToBuy, BoughtOn
  <2>2. QED
    BY <1>3, <2>1 DEF BuysPlanned
<1>4. QED
  BY <1>2, <1>3 DEF BoughtOn

LEMMA RowIs ==
  ASSUME NEW i, NEW q, NEW px
  PROVE  LET f == FillRow(i, q, px) IN
         /\ f.order = i /\ f.ticker = orders[i].ticker /\ f.side = orders[i].side
         /\ f.qty = q /\ f.px = px /\ f.day = tx.day
  BY DEF FillRow

LEMMA SellPlans ==
  ASSUME BooksInv, LedgerInv, NEW i \in DOMAIN orders, SellDoes(i), Selling
  PROVE  Selling'
<1> DEFINE d == tx.day
           T == tx'.todo \cup tx'.buys
<1>0. /\ Steady /\ tx.phase = "fill" /\ i \in TodoSells /\ (\A j \in TodoSells : i <= j)
      /\ tx'.todo = tx.todo \ {i} /\ tx'.buys = tx.buys
      /\ credits' = credits /\ settlements' = settlements /\ Touched(i)
  BY DEF SellDoes
<1>1. /\ d \in Days /\ d \in Nat /\ i \in Nat /\ orders[i].side = "sell" /\ orders[i] \in Order
      /\ \A f \in fills : f.order \in Nat /\ f.side \in {"buy", "sell"} /\ f.order \in DOMAIN orders
      /\ \A t \in Tickers : pos[t] = Shares(fills, settlements, t, LastDay + 1)
      /\ \A j \in DOMAIN orders : j \in Nat
  BY <1>0, InSession DEF Steady, TodoSells
<1>2. \A f \in fills : f.day = d => f.side = "sell"
  <2>1. \A f \in fills : f.side = "buy" => f.day < d
    BY <1>0 DEF Steady, LedgerInv, LedgerInTx
  <2>2. QED
    BY <1>1, <2>1
<1>3. i \in tx.todo /\ i \notin tx.buys /\ tx.buys \subseteq DOMAIN orders /\ tx.todo \subseteq DOMAIN orders
  BY <1>0 DEF TodoSells, BooksInv, TodoDue, Todo, Pending
<1>4. \A j \in DOMAIN orders : /\ orders'[j].qty = orders[j].qty /\ orders'[j].ticker = orders[j].ticker
                               /\ orders'[j].side = orders[j].side
  BY <1>0 DEF Touched, Kept
<1> DEFINE f == FillRow(i, SellQty(i), SellPx(bars[tx.day][orders[i].ticker]))
<1>5. /\ f.order = i /\ f.ticker = orders[i].ticker /\ f.side = "sell" /\ f.day = d
      /\ f.qty = SellQty(i)
  BY <1>1, RowIs
<1>6. f.qty = Min({orders[f.order].qty, Shares(fills, settlements, f.ticker, LastDay + 1)})
  <2>1. orders[i].ticker \in Tickers
    BY <1>1 DEF Order
  <2>2. QED
    BY <1>1, <1>5, <2>1 DEF SellQty
<1>7. \/ fills' = fills /\ (orders'[i].status = "pending" => ~Printed(bars, orders[i].ticker, d))
      \/ fills' = fills \cup {f} /\ orders'[i].status = "filled"
  BY DEF SellDoes
<1> HIDE DEF f
<1>8. /\ Prepared(Data, FillsBut(fills, d), credits, settlements, d)
      /\ SellsPlanned(orders, fills, settlements, d) /\ Barless(Data, orders, tx.todo \cup tx.buys, d)
      /\ \A g \in BoughtOn(fills, d) : Biddable(Data, orders[g.order], d)
      /\ \A j \in tx.buys : Biddable(Data, orders[j], d)
      /\ \A g \in SoldOn(fills, d), j \in TodoSells : g.order < j
  BY DEF Selling, Planned
<1>9. FillsBut(fills', d) = FillsBut(fills, d)
  BY <1>5, <1>7 DEF FillsBut
<1>10. SellsPlanned(orders, fills', settlements, d)
  <2>1. CASE fills' = fills
    BY <1>8, <2>1
  <2>2. CASE fills' = fills \cup {f}
    <3>1. \A g \in SoldOn(fills, d) : g.order < f.order
      BY <1>0, <1>5, <1>8
    <3>2. \A g \in fills : g.order \in Nat /\ (g.day = d => g.side = "sell")
      BY <1>1, <1>2
    <3>3. f.order \in Nat
      BY <1>1, <1>5
    <3>4. SellsPlanned(orders, fills, settlements, d)
      BY <1>8
    <3> HIDE DEF d
    <3>5. SellsPlanned(orders, fills \cup {f}, settlements, d)
      BY <1>5, <1>6, <3>1, <3>2, <3>3, <3>4, SellsGrow
    <3>6. QED
      BY <2>2, <3>5
  <2>3. QED
    BY <1>7, <2>1, <2>2
<1>11. \A g \in fills' : g.order \in DOMAIN orders
  BY <1>1, <1>5, <1>7
<1>12. SellsPlanned(orders', fills', settlements, d)
  BY <1>4, <1>10, <1>11, SameSells
<1>13. Barless(Data, orders', T, d)
  <2>1. tx.todo \cup tx.buys \subseteq T \cup {i}
    BY <1>0
  <2>2. orders'[i].status = "pending" => i \in T \/ ~Printed(bars, orders[i].ticker, d)
    BY <1>7
  <2>3. Barless(Data, orders, tx.todo \cup tx.buys, d)
    BY <1>8
  <2> HIDE DEF T, d
  <2>4. QED
    BY <1>0, <2>1, <2>2, <2>3, BarlessTouched
<1>14. BoughtOn(fills', d) = {}
  BY <1>2, <1>5, <1>7 DEF BoughtOn
<1>15. \A j \in tx'.buys : Biddable(Data, orders'[j], d)
  BY <1>0, <1>3, <1>4, <1>8 DEF Biddable
<1>16. ASSUME NEW g \in SoldOn(fills', d), NEW j \in tx'.todo, orders'[j].side = "sell"
       PROVE  g.order < j
  <2>1. j \in TodoSells /\ j # i /\ j \in Nat
    BY <1>0, <1>1, <1>3, <1>4, <1>16 DEF TodoSells
  <2>2. CASE g \in SoldOn(fills, d)
    BY <1>8, <2>1, <2>2
  <2>3. CASE g = f
    BY <1>0, <1>1, <1>5, <2>1, <2>3
  <2>4. QED
    BY <1>7, <1>16, <2>2, <2>3 DEF SoldOn
<1>17. Prepared(Data, FillsBut(fills', d), credits', settlements', d)
  BY <1>0, <1>8, <1>9
<1>18. Planned(Data, orders', fills', settlements', d, T)
  BY <1>0, <1>12, <1>13, <1>14 DEF Planned
<1>19. tx'.day = d /\ Data' = Data
  BY <1>0 DEF Steady
<1> HIDE DEF d
<1>20. QED
  BY <1>15, <1>16, <1>17, <1>18, <1>19 DEF Selling, TodoSells

LEMMA AttemptPlans ==
  ASSUME BooksInv, LedgerInv, NEW i \in DOMAIN orders, AttemptDoes(i), Selling
  PROVE  Selling'
<1> DEFINE d == tx.day
           T == tx'.todo \cup tx'.buys
<1>0. /\ Steady /\ tx.phase = "fill" /\ TodoSells = {} /\ i \in tx.todo /\ tx'.todo = tx.todo \ {i}
      /\ fills' = fills /\ credits' = credits /\ settlements' = settlements /\ Touched(i)
  BY DEF AttemptDoes
<1>1. \/ tx'.buys = tx.buys \cup {i} /\ Biddable(Data, orders[i], d)
      \/ tx'.buys = tx.buys /\ (orders'[i].status = "pending" => ~Printed(bars, orders[i].ticker, d))
  BY DEF AttemptDoes
<1>2. \A f \in fills : f.order \in DOMAIN orders
  BY <1>0, InSession DEF Steady
<1>3. tx.buys \subseteq DOMAIN orders /\ tx.todo \subseteq DOMAIN orders
  BY <1>0 DEF BooksInv, TodoDue, Todo, Pending
<1>4. \A j \in DOMAIN orders : /\ orders'[j].qty = orders[j].qty /\ orders'[j].ticker = orders[j].ticker
                               /\ orders'[j].side = orders[j].side
  BY <1>0 DEF Touched, Kept
<1>5. /\ Prepared(Data, FillsBut(fills, d), credits, settlements, d)
      /\ SellsPlanned(orders, fills, settlements, d) /\ Barless(Data, orders, tx.todo \cup tx.buys, d)
      /\ \A g \in BoughtOn(fills, d) : Biddable(Data, orders[g.order], d)
      /\ \A j \in tx.buys : Biddable(Data, orders[j], d)
  BY DEF Selling, Planned
<1>6. SellsPlanned(orders', fills, settlements, d)
  BY <1>2, <1>4, <1>5, SameSells
<1>7. Barless(Data, orders', T, d)
  <2>1. tx.todo \cup tx.buys \subseteq T \cup {i}
    BY <1>0, <1>1
  <2>2. orders'[i].status = "pending" => i \in T \/ ~Printed(bars, orders[i].ticker, d)
    BY <1>1
  <2>3. Barless(Data, orders, tx.todo \cup tx.buys, d)
    BY <1>5
  <2> HIDE DEF T, d
  <2>4. QED
    BY <1>0, <2>1, <2>2, <2>3, BarlessTouched
<1>8. \A g \in BoughtOn(fills, d) : Biddable(Data, orders'[g.order], d)
  BY <1>2, <1>4, <1>5 DEF Biddable, BoughtOn
<1>9. \A j \in tx'.buys : Biddable(Data, orders[j], d) /\ j \in DOMAIN orders
  BY <1>1, <1>3, <1>5
<1>10. \A j \in tx'.buys : Biddable(Data, orders'[j], d)
  BY <1>4, <1>9 DEF Biddable
<1>11. \A j \in tx'.todo : orders'[j].side # "sell"
  BY <1>0, <1>3, <1>4 DEF TodoSells
<1>12. Prepared(Data, FillsBut(fills', d), credits', settlements', d)
  BY <1>0, <1>5
<1>13. Planned(Data, orders', fills', settlements', d, T)
  BY <1>0, <1>6, <1>7, <1>8 DEF Planned
<1>14. tx'.day = d /\ Data' = Data
  BY <1>0 DEF Steady
<1> HIDE DEF d
<1>15. QED
  BY <1>10, <1>11, <1>12, <1>13, <1>14 DEF Selling, TodoSells

\* Before the first buy of a session its fills are sells.
LEMMA NoBuysYet ==
  ASSUME NEW fs, NEW d \in Int, \A f \in fs : f.side \in {"buy", "sell"} /\ (f.side = "buy" => f.day < d)
  PROVE  BoughtOn(fs, d) = {} /\ Bidders(fs, d) = {} /\ BeforeBuys(fs, d) = fs
<1>1. BoughtOn(fs, d) = {}
  BY DEF BoughtOn
<1>2. QED
  BY <1>1 DEF Bidders, BeforeBuys

LEMMA SizePlans ==
  ASSUME BooksInv, LedgerInv, SizeDoes, Selling
  PROVE  Buying'
<1> DEFINE d == tx.day
<1>0. /\ Steady /\ tx.phase = "fill" /\ tx.todo = {} /\ tx'.buys = tx.buys
      /\ tx'.budget = cash /\ tx'.wanted = Bids(Data, orders, tx.buys, d)
      /\ orders' = orders /\ fills' = fills /\ credits' = credits /\ settlements' = settlements
  BY DEF SizeDoes
<1>1. /\ d \in Nat /\ \A f \in fills : f.side \in {"buy", "sell"}
      /\ cash = Money(fills, credits, settlements, LastDay + 1)
  BY <1>0, InSession DEF Steady
<1>2. \A f \in fills : f.side = "buy" => f.day < d
  BY <1>0 DEF Steady, LedgerInv, LedgerInTx
<1>3. BoughtOn(fills, d) = {} /\ Bidders(fills, d) = {} /\ BeforeBuys(fills, d) = fills
  <2>1. d \in Int
    BY <1>1
  <2> HIDE DEF d
  <2>2. QED
    BY <1>1, <1>2, <2>1, NoBuysYet
<1>4. /\ Prepared(Data, FillsBut(fills, d), credits, settlements, d)
      /\ Planned(Data, orders, fills, settlements, d, tx.todo \cup tx.buys)
      /\ \A j \in tx.buys : Biddable(Data, orders[j], d)
  BY DEF Selling
<1>5. tx.todo \cup tx.buys = tx'.buys /\ tx'.buys \cup {} = tx.buys
  BY <1>0
<1>6. Planned(Data, orders', fills', settlements', d, tx'.buys)
  BY <1>0, <1>4, <1>5
<1>7. BuysPlanned(orders, fills, credits, settlements, d, tx'.wanted)
  BY <1>3 DEF BuysPlanned
<1>8. tx'.wanted = Bids(Data, orders, tx'.buys \cup Bidders(fills, d), d)
  BY <1>0, <1>3, <1>5
<1>9. tx'.budget = Money(BeforeBuys(fills, d), credits, settlements, LastDay + 1)
  BY <1>0, <1>1, <1>3
<1>10. tx'.day = d /\ Data' = Data
  BY <1>0 DEF Steady
<1> HIDE DEF d
<1>11. QED
  BY <1>0, <1>3, <1>4, <1>6, <1>7, <1>8, <1>9, <1>10 DEF Buying

LEMMA BuyPlans ==
  ASSUME BooksInv, LedgerInv, ReasonsInv, NEW i \in DOMAIN orders, BuyDoes(i), Buying
  PROVE  Buying'
<1> DEFINE d == tx.day
           px == BuyPx(bars[tx.day][orders[i].ticker])
           qty == Min({ScaledTo(orders[i].qty, tx.wanted, tx.budget), cash \div px})
           f == FillRow(i, qty, px)
<1>0. /\ Steady /\ tx.phase = "buy" /\ i \in tx.buys /\ (\A j \in tx.buys : i <= j)
      /\ tx'.buys = tx.buys \ {i} /\ tx'.budget = tx.budget /\ tx'.wanted = tx.wanted
      /\ credits' = credits /\ settlements' = settlements /\ Touched(i)
  BY DEF BuyDoes
<1>1. \/ /\ fills' = fills
         /\ orders'[i].status = "rejected" /\ orders'[i].reason = "insufficient_cash"
      \/ /\ fills' = fills \cup {f}
         /\ orders'[i].status = "filled" /\ orders'[i].reason = "none"
  BY DEF BuyDoes
<1>2. /\ d \in Nat /\ i \in Nat
      /\ \A g \in fills : g.order \in Nat /\ g.side \in {"buy", "sell"} /\ g.order \in DOMAIN orders
      /\ cash = Money(fills, credits, settlements, LastDay + 1)
      /\ \A j \in DOMAIN orders : j \in Nat
  BY <1>0, InSession DEF Steady
<1>3. /\ tx.buys \subseteq DOMAIN orders /\ i \in Pending(orders) /\ orders[i].sig < d
      /\ orders[i].side = "buy"
  <2>1. BuysReady
    BY <1>0 DEF Steady, LedgerInv, LedgerInTx
  <2>2. QED
    BY <1>0, <2>1 DEF BooksInv, TodoDue, Todo, Pending, BuysReady
<1>4. \A j \in DOMAIN orders : /\ orders'[j].qty = orders[j].qty /\ orders'[j].ticker = orders[j].ticker
                               /\ orders'[j].sig = orders[j].sig
  BY <1>0 DEF Touched, Kept
<1>5. /\ f.order = i /\ f.ticker = orders[i].ticker /\ f.side = "buy" /\ f.day = d
      /\ f.qty = qty /\ f.px = px
  BY <1>3, RowIs
<1>6. /\ Prepared(Data, FillsBut(fills, d), credits, settlements, d)
      /\ SellsPlanned(orders, fills, settlements, d) /\ Barless(Data, orders, tx.buys, d)
      /\ \A g \in BoughtOn(fills, d) : Biddable(Data, orders[g.order], d)
      /\ \A j \in tx.buys : Biddable(Data, orders[j], d)
      /\ \A g \in BoughtOn(fills, d), j \in tx.buys : g.order < j
      /\ tx.budget = Money(BeforeBuys(fills, d), credits, settlements, LastDay + 1)
      /\ Unrefused(orders, d) =>
            /\ tx.wanted = Bids(Data, orders, tx.buys \cup Bidders(fills, d), d)
            /\ BuysPlanned(orders, fills, credits, settlements, d, tx.wanted)
  BY DEF Buying, Planned
<1>7. f.qty = Min({ScaledTo(orders[f.order].qty, tx.wanted,
                            Money(BeforeBuys(fills, d), credits, settlements, LastDay + 1)),
                   Money(fills, credits, settlements, LastDay + 1) \div f.px})
  BY <1>2, <1>5, <1>6
<1> HIDE DEF qty, f, px, d
<1>8. /\ SellsPlanned(orders, fills \cup {f}, settlements, d)
      /\ BeforeBuys(fills \cup {f}, d) = BeforeBuys(fills, d)
      /\ Bidders(fills \cup {f}, d) = Bidders(fills, d) \cup {f.order}
  <2>1. SellsPlanned(orders, fills, settlements, d) /\ f.side = "buy" /\ f.day = d
    BY <1>5, <1>6
  <2>2. QED
    BY <2>1, BuyBeside
<1>8a. ASSUME BuysPlanned(orders, fills, credits, settlements, d, tx.wanted)
       PROVE  BuysPlanned(orders, fills \cup {f}, credits, settlements, d, tx.wanted)
  <2>1. \A g \in BoughtOn(fills, d) : g.order < f.order
    BY <1>0, <1>5, <1>6
  <2>2. f.order \in Nat /\ f.side = "buy" /\ f.day = d
    BY <1>2, <1>5
  <2>3. \A g \in fills : g.order \in Nat /\ g.side \in {"buy", "sell"}
    BY <1>2
  <2>4. QED
    BY <1>7, <1>8a, <2>1, <2>2, <2>3, BuysGrow
<1>9. FillsBut(fills', d) = FillsBut(fills, d) /\ BeforeBuys(fills', d) = BeforeBuys(fills, d)
  BY <1>1, <1>5, <1>8 DEF FillsBut
<1>10. \A g \in fills' : g.order \in DOMAIN orders
  BY <1>1, <1>2, <1>5
<1>11. SellsPlanned(orders', fills', settlements, d)
  <2>1. SellsPlanned(orders, fills', settlements, d)
    BY <1>1, <1>6, <1>8
  <2>2. QED
    BY <1>4, <1>10, <2>1, SameSells
<1>12. Barless(Data, orders', tx'.buys, d)
  <2>1. tx.buys \subseteq tx'.buys \cup {i}
    BY <1>0
  <2>2. orders'[i].status # "pending"
    BY <1>1
  <2>3. QED
    BY <1>0, <1>6, <2>1, <2>2, BarlessTouched
<1>13. \A g \in BoughtOn(fills', d) : g \in BoughtOn(fills, d) \/ (g = f /\ fills' = fills \cup {f})
  BY <1>1 DEF BoughtOn
<1>14. \A g \in BoughtOn(fills', d) : Biddable(Data, orders'[g.order], d)
  <2> SUFFICES ASSUME NEW g \in BoughtOn(fills', d) PROVE Biddable(Data, orders'[g.order], d)
    OBVIOUS
  <2>1. g.order \in DOMAIN orders
    BY <1>10 DEF BoughtOn
  <2>2. Biddable(Data, orders[g.order], d)
    BY <1>0, <1>5, <1>6, <1>13
  <2>3. QED
    BY <1>4, <2>1, <2>2, SameBiddable
<1>15. \A j \in tx'.buys : Biddable(Data, orders'[j], d)
  <2> SUFFICES ASSUME NEW j \in tx'.buys PROVE Biddable(Data, orders'[j], d)
    OBVIOUS
  <2>1. j \in DOMAIN orders /\ Biddable(Data, orders[j], d)
    BY <1>0, <1>3, <1>6
  <2>2. QED
    BY <1>4, <2>1, SameBiddable
<1>16. \A g \in BoughtOn(fills', d), j \in tx'.buys : g.order < j
  <2> SUFFICES ASSUME NEW g \in BoughtOn(fills', d), NEW j \in tx'.buys PROVE g.order < j
    OBVIOUS
  <2>1. j \in tx.buys /\ j # i /\ i <= j /\ j \in Nat
    BY <1>0, <1>2, <1>3
  <2>2. QED
    BY <1>2, <1>5, <1>6, <1>13, <2>1
<1>17. ASSUME Unrefused(orders', d)
       PROVE  /\ tx'.wanted = Bids(Data, orders', tx'.buys \cup Bidders(fills', d), d)
              /\ BuysPlanned(orders', fills', credits, settlements, d, tx'.wanted)
  <2>1. fills' = fills \cup {f} /\ orders'[i].reason = "none"
    <3>1. DOMAIN orders' = DOMAIN orders
      BY <1>0 DEF Touched
    <3>2. orders'[i].reason # "insufficient_cash"
      BY <1>3, <1>4, <1>17, <3>1 DEF Unrefused
    <3>3. QED
      BY <1>1, <3>2
  <2>2. Unrefused(orders, d)
    <3>1. orders[i].reason = "none"
      BY <1>3 DEF ReasonsInv, Reasoned, Pending
    <3>2. \A j \in DOMAIN orders : j # i => orders'[j] = orders[j] /\ j \in DOMAIN orders'
      BY <1>0 DEF Touched
    <3>3. QED
      BY <1>17, <3>1, <3>2 DEF Unrefused
  <2>3. /\ tx.wanted = Bids(Data, orders, tx.buys \cup Bidders(fills, d), d)
        /\ BuysPlanned(orders, fills, credits, settlements, d, tx.wanted)
    BY <1>6, <2>2
  <2> DEFINE S == tx.buys \cup Bidders(fills, d)
  <2>4. tx'.buys \cup Bidders(fills', d) = S
    BY <1>0, <1>5, <1>8, <2>1
  <2>5. S \subseteq DOMAIN orders
    BY <1>2, <1>3 DEF Bidders, BoughtOn
  <2> HIDE DEF S
  <2>6. Bids(Data, orders', S, d) = Bids(Data, orders, S, d)
    BY <1>4, <2>5, SameBids
  <2>7. BuysPlanned(orders, fills', credits, settlements, d, tx.wanted)
    BY <1>8a, <2>1, <2>3
  <2>8. BuysPlanned(orders', fills', credits, settlements, d, tx.wanted)
    BY <1>4, <1>10, <2>7, SameBuys
  <2>9. QED
    BY <1>0, <2>3, <2>4, <2>6, <2>8 DEF S
<1>18. Prepared(Data, FillsBut(fills', d), credits', settlements', d)
  BY <1>0, <1>6, <1>9
<1>19. Planned(Data, orders', fills', settlements', d, tx'.buys)
  BY <1>0, <1>11, <1>12, <1>14 DEF Planned
<1>20. tx'.budget = Money(BeforeBuys(fills', d), credits', settlements', LastDay + 1)
  BY <1>0, <1>6, <1>9
<1>21. tx'.day = d /\ Data' = Data
  BY <1>0 DEF Steady, d
<1>22. QED
  BY <1>0, <1>15, <1>16, <1>17, <1>18, <1>19, <1>20, <1>21 DEF Buying

LEMMA CreditPlans ==
  ASSUME BooksInv, LedgerInv, CreditDoes, \A c \in credits : c.ex # tx.day
  PROVE  PaidToday(Data, fills, credits', settlements, tx.day)
<1>0. Shapes /\ Market /\ tx # Idle
  BY DEF CreditDoes, Steady, BooksInv, LedgerInv
<1> SUFFICES ASSUME NEW c \in credits', c.ex = tx.day
             PROVE  /\ <<c.ticker, tx.day>> \in Data.published /\ InWindow(tx.day, tx.day)
                    /\ c.ticker \in HeldNames(fills, settlements) /\ c.qty # 0
                    /\ c.qty = Shares(fills, settlements, c.ticker, tx.day - 1)
  BY DEF PaidToday
<1>1. PICK x \in Owed : c = CreditFor(x)
  BY DEF CreditDoes
<1>2. x \in Unpaid /\ Shares(fills, settlements, x[1], x[2] - 1) # 0
  BY <1>1 DEF Owed
<1>3. x \in published /\ x = <<x[1], x[2]>>
  BY <1>0, <1>2, UnpaidMeans
<1>4. c.ticker = x[1] /\ c.ex = x[2] /\ c.qty = Shares(fills, settlements, x[1], x[2] - 1)
  BY <1>1 DEF CreditFor
<1>5. x[1] \in EverHeld /\ x[2] > tx.day - DIVIDEND_LOOKBACK_DAYS /\ x[2] <= tx.day
  BY <1>2 DEF Unpaid
<1>6. EverHeld = HeldNames(fills, settlements) /\ Data.published = published
  BY DEF EverHeld, HeldNames, Data
<1>7. QED
  BY <1>2, <1>3, <1>4, <1>5, <1>6 DEF InWindow

\* A close-out turns no other holding.
LEMMA CloseOutElsewhere ==
  ASSUME NEW fs, NEW cs, NEW ss, Records(fs, cs, ss), NEW y \in Settlement, y \notin ss,
         y.ratio = 0, NEW t, t # y.ticker, NEW e \in Int
  PROVE  Shares(fs, ss \cup {y}, t, e) = Shares(fs, ss, t, e)
<1>1. Shares(fs, ss \cup {y}, t, e) = Shares(fs, ss, t, e) + SettledShares(y, t, e)
  BY SettlementAdds
<1>2. y.qty * y.ratio = 0
  BY SettledInts
<1>3. SettledShares(y, t, e) = 0
  BY <1>2 DEF SettledShares
<1>4. Shares(fs, ss, t, e) \in Int
  BY SumsTyped
<1>5. QED
  BY <1>1, <1>3, <1>4

LEMMA CloseOutPlans ==
  ASSUME BooksInv, LedgerInv, NEW t \in Tickers, CloseOutDoes(t),
         PaidToday(Data, fills, credits, settlements, tx.day)
  PROVE  PaidToday(Data, fills, credits, settlements', tx.day)
<1>0. tx # Idle
  BY DEF CloseOutDoes, Steady
<1>1. PICK y \in Settlement :
         /\ settlements' = settlements \cup {y} /\ y \notin settlements
         /\ y.ticker = t /\ y.into = t /\ y.ratio = 0 /\ y.auto
  BY DEF CloseOutDoes
<1>2. Records(fills, credits, settlements) /\ tx.day \in Nat
  BY <1>0, InSession
<1>3. HeldNames(fills, settlements') = HeldNames(fills, settlements)
  BY <1>1 DEF HeldNames, Conversions
<1> SUFFICES ASSUME NEW c \in credits, c.ex = tx.day
             PROVE  \/ ClosedOut(c.ticker, settlements')
                    \/ c.qty = Shares(fills, settlements', c.ticker, tx.day - 1)
  BY <1>3 DEF PaidToday
<1>4. \/ ClosedOut(c.ticker, settlements)
      \/ c.qty = Shares(fills, settlements, c.ticker, tx.day - 1)
  BY DEF PaidToday
<1>5. CASE ClosedOut(c.ticker, settlements) \/ c.ticker = t
  BY <1>1, <1>5 DEF ClosedOut
<1>6. CASE c.ticker # t /\ c.qty = Shares(fills, settlements, c.ticker, tx.day - 1)
  <2>1. PICK e \in Int : e = tx.day - 1
    BY <1>2
  <2>2. PICK u : u = c.ticker /\ u # y.ticker
    BY <1>1, <1>6
  <2>3. Shares(fills, settlements \cup {y}, u, e) = Shares(fills, settlements, u, e)
    BY <1>1, <1>2, <2>2, CloseOutElsewhere
  <2>4. QED
    BY <1>1, <1>6, <2>1, <2>2, <2>3
<1>7. QED
  BY <1>4, <1>5, <1>6

LEMMA CloseOutDonePlans ==
  ASSUME BooksInv, LedgerInv, CloseOutDoneDoes, PaidToday(Data, fills, credits, settlements, tx.day)
  PROVE  Selling'
<1> DEFINE d == tx.day
<1>0. /\ Steady /\ tx.phase = "closeout" /\ tx'.buys = {}
      /\ orders' = orders /\ fills' = fills /\ credits' = credits /\ settlements' = settlements
      /\ tx'.todo = {i \in Pending(orders) : orders[i].sig < d}
      /\ \A t \in Tickers : Gone(Data, settlements, t, d) => pos[t] = 0
  BY DEF CloseOutDoneDoes
<1>1. /\ d \in Nat /\ \A t \in Tickers : pos[t] = Shares(fills, settlements, t, LastDay + 1)
      /\ \A f \in fills : f.side \in {"buy", "sell"}
  BY <1>0, InSession DEF Steady
<1>2. /\ \A f \in fills : f.day < d
      /\ \A x \in Unpaid : Shares(fills, settlements, x[1], x[2] - 1) = 0
  BY <1>0 DEF Steady, LedgerInv, LedgerInTx
<1>3. \A f \in fills : f.day # d
  BY <1>1, <1>2
<1>4. FillsBut(fills, d) = fills /\ SoldOn(fills, d) = {} /\ BoughtOn(fills, d) = {}
  BY <1>3 DEF FillsBut, SoldOn, BoughtOn
<1>5. AllPaid(Data, fills, credits, settlements, d)
  <2> SUFFICES ASSUME NEW x \in published, InWindow(x[2], d), x[1] \in HeldNames(fills, settlements),
                      ~\E c \in credits : c.ticker = x[1] /\ c.ex = x[2]
               PROVE  Shares(fills, settlements, x[1], x[2] - 1) = 0
    BY DEF AllPaid, Data
  <2>1. x \in Unpaid
    BY DEF Unpaid, EverHeld, HeldNames, InWindow
  <2>2. QED
    BY <1>2, <2>1
<1>6. NoneToClose(Data, fills, settlements, d)
  BY <1>0, <1>1 DEF NoneToClose
<1>7. Prepared(Data, FillsBut(fills', d), credits', settlements', d)
  BY <1>0, <1>4, <1>5, <1>6 DEF Prepared
<1>8. Barless(Data, orders, tx'.todo \cup tx'.buys, d)
  BY <1>0 DEF Barless
<1>9. Planned(Data, orders', fills', settlements', d, tx'.todo \cup tx'.buys)
  BY <1>0, <1>4, <1>8 DEF Planned, SellsPlanned
<1>10. tx'.day = d /\ Data' = Data
  BY <1>0 DEF Steady
<1> HIDE DEF d
<1>11. QED
  BY <1>0, <1>4, <1>7, <1>9, <1>10 DEF Selling

LEMMA MarkPlans ==
  ASSUME MarkDoes, Buying
  PROVE  Redo(Data', orders', fills', credits', settlements', tx'.day)
<1> DEFINE d == tx.day
<1>0. /\ Steady /\ tx.buys = {}
      /\ orders' = orders /\ fills' = fills /\ credits' = credits /\ settlements' = settlements
  BY DEF MarkDoes
<1>1. tx'.day = d /\ Data' = Data
  BY <1>0 DEF Steady
<1>2. tx.buys \cup Bidders(fills, d) = Bidders(fills, d)
  BY <1>0
<1>3. /\ Prepared(Data, FillsBut(fills, d), credits, settlements, d)
      /\ Planned(Data, orders, fills, settlements, d, {})
      /\ Unrefused(orders, d) =>
            /\ tx.wanted = Bids(Data, orders, Bidders(fills, d), d)
            /\ BuysPlanned(orders, fills, credits, settlements, d, tx.wanted)
  BY <1>0, <1>2 DEF Buying
<1> HIDE DEF d
<1>4. Redo(Data, orders, fills, credits, settlements, d)
  BY <1>3 DEF Redo
<1>5. QED
  BY <1>0, <1>1, <1>4

\* A new order of the session, or of a later one, changes no plan.
LEMMA NewOrderRedo ==
  ASSUME NEW m, NEW os, NEW ot, NEW fs, NEW cs, NEW ss, NEW d \in Int, Redo(m, os, fs, cs, ss, d),
         \A f \in fs : f.order \in DOMAIN os,
         NEW n, n \notin DOMAIN os, DOMAIN ot = DOMAIN os \cup {n},
         \A i \in DOMAIN os : ot[i] = os[i], ot[n].sig \in Int, ot[n].sig >= d
  PROVE  Redo(m, ot, fs, cs, ss, d)
<1>1. \A f \in fs : ot[f.order].qty = os[f.order].qty /\ ot[f.order].ticker = os[f.order].ticker
  OBVIOUS
<1>2. ~(ot[n].sig < d)
  OBVIOUS
<1>3. \A i \in Pending(ot) : ot[i].sig < d =>
         i \in Pending(os) /\ os[i].sig < d /\ ot[i].ticker = os[i].ticker
  BY <1>2 DEF Pending
<1>4. Unrefused(ot, d) => Unrefused(os, d)
  BY DEF Unrefused
<1>5. QED
  BY <1>1, <1>3, <1>4, RedoOrders

LEMMA GeneratePlans ==
  ASSUME BooksInv, LedgerInv, GenerateDoes, Redo(Data, orders, fills, credits, settlements, tx.day)
  PROVE  Redo(Data', orders', fills', credits', settlements', tx'.day)
<1>0. /\ Steady /\ fills' = fills /\ credits' = credits /\ settlements' = settlements
  BY DEF GenerateDoes
<1>1. PICK n : /\ n \notin DOMAIN orders /\ DOMAIN orders' = DOMAIN orders \cup {n}
               /\ \A i \in DOMAIN orders : orders'[i] = orders[i]
               /\ orders'[n].sig = tx.day
  BY DEF GenerateDoes
<1>2. tx.day \in Int /\ \A f \in fills : f.order \in DOMAIN orders
  BY <1>0, InSession DEF Steady
<1>3. tx'.day = tx.day /\ Data' = Data
  BY <1>0 DEF Steady
<1>4. orders'[n].sig \in Int /\ orders'[n].sig >= tx.day
  BY <1>1, <1>2
<1>5. Redo(Data, orders', fills, credits, settlements, tx.day)
  BY <1>1, <1>2, <1>4, NewOrderRedo
<1>6. QED
  BY <1>0, <1>3, <1>5

LEMMA OutsidePlans ==
  ASSUME BooksInv, LedgerInv, ReasonsInv, PlanInv,
         \/ Collect
         \/ \E x \in LateBars : LateBar(x)
         \/ \E x \in Dividends : Publish(x)
         \/ \E t \in Dropped : Drop(t)
         \/ \E t \in Quarantinable : Quarantine(t)
         \/ \E o \in Tickets, sig \in 1 .. LastDay + 1 : SubmitTicket(o, sig)
         \/ \E i \in DOMAIN orders : CancelTicket(i)
         \/ \E t \in Tickers, x \in Terms, e \in 1 .. LastDay + 1 : Settle(t, x, e)
  PROVE  PlanInv'
<1>0. tx = Idle /\ tx' = Idle /\ Idle' = Idle /\ Shapes /\ BookMatched /\ Market
  BY OutsideReasons DEF ReasonsInv, Idle, BooksInv, LedgerInv
<1>1. /\ latest \in Nat /\ equity \subseteq 1 .. latest /\ nextId \in Nat
      /\ DOMAIN orders \subseteq 1 .. nextId - 1 /\ \A j \in DOMAIN orders : orders[j] \in Order
  BY <1>0, TxPhases
<1> DEFINE d == LastOf(equity)
<1>2. ASSUME ~changed, equity # {} PROVE Redo(Data, orders, fills, credits, settlements, d)
  BY <1>0, <1>2 DEF PlanInv
<1>3. ASSUME equity # {} PROVE d \in 1 .. latest /\ d \in Int
  <2>1. d \in equity
    BY <1>1, <1>3, LastOfMeans
  <2> HIDE DEF d
  <2>2. d \in 1 .. latest
    BY <1>1, <2>1
  <2>3. QED
    BY <1>1, <2>2
<1>4. \A f \in fills : f.order \in DOMAIN orders
  BY <1>0, FillOrders
<1> HIDE DEF d
<1>5. ASSUME changed' = TRUE PROVE PlanInv'
  BY <1>0, <1>5 DEF PlanInv
<1>6. ASSUME changed' = changed, equity' = equity,
             equity # {} /\ Redo(Data, orders, fills, credits, settlements, d) =>
                Redo(Data', orders', fills', credits', settlements', d)
      PROVE  PlanInv'
  BY <1>0, <1>2, <1>6 DEF PlanInv, d
<1>7. CASE Collect
  <2>1. UNCHANGED <<changed, orders, fills, credits, settlements, equity>>
    BY <1>7 DEF Collect, book
  <2>2. ASSUME equity # {}, Redo(Data, orders, fills, credits, settlements, d)
        PROVE  Redo(Data', orders, fills, credits, settlements, d)
    BY <1>0, <1>3, <1>7, <2>2, CollectRedo
  <2>3. QED
    BY <1>6, <2>1, <2>2
<1>8. CASE \/ \E x \in LateBars : LateBar(x)
           \/ \E x \in Dividends : Publish(x)
           \/ \E t \in Dropped : Drop(t)
           \/ \E t \in Quarantinable : Quarantine(t)
           \/ \E t \in Tickers, x \in Terms, e \in 1 .. LastDay + 1 : Settle(t, x, e)
  <2>1. changed' = TRUE
    BY <1>8 DEF LateBar, Publish, Drop, Quarantine, Settle
  <2>2. QED
    BY <1>5, <2>1
<1>9. ASSUME NEW o \in Tickets, NEW sig \in 1 .. LastDay + 1, SubmitTicket(o, sig) PROVE PlanInv'
  <2>1. /\ Data' = Data /\ UNCHANGED <<changed, fills, credits, settlements, equity>>
        /\ orders' = NewOrder(o, sig, "pending", "none", TRUE) /\ sig \in {latest, latest + 1}
    BY <1>9 DEF SubmitTicket, market, Data
  <2>2. nextId \notin DOMAIN orders
    BY <1>1
  <2>3. /\ DOMAIN orders' = DOMAIN orders \cup {nextId}
        /\ \A i \in DOMAIN orders : orders'[i] = orders[i]
        /\ orders'[nextId].sig = sig
    BY <2>1, <2>2, NewOrderIs
  <2>4. ASSUME equity # {}, Redo(Data, orders, fills, credits, settlements, d)
        PROVE  Redo(Data, orders', fills, credits, settlements, d)
    <3>1. d \in 1 .. latest /\ d \in Int
      BY <1>3, <2>4
    <3>2. latest \in Nat /\ sig \in {latest, latest + 1}
      BY <1>1, <2>1
    <3>3. sig \in Int /\ sig >= d
      BY <3>1, <3>2
    <3>4. QED
      BY <1>4, <2>2, <2>3, <2>4, <3>1, <3>3, NewOrderRedo
  <2>5. QED
    BY <1>6, <2>1, <2>4
<1>10. ASSUME NEW i \in DOMAIN orders, CancelTicket(i) PROVE PlanInv'
  <2>1. /\ Data' = Data /\ UNCHANGED <<changed, fills, credits, settlements, equity>>
        /\ orders' = Status(i, "cancelled", "none") /\ i \in Pending(orders)
    BY <1>10 DEF CancelTicket, market, Data, PendingOrders, Pending
  <2>2. Touched(i) /\ orders'[i].status = "cancelled"
    BY <1>1, <2>1, StatusReason
  <2>3. orders[i].reason = "none"
    BY <2>1 DEF ReasonsInv, Reasoned, Pending
  <2>4. \A f \in fills : /\ orders'[f.order].qty = orders[f.order].qty
                         /\ orders'[f.order].ticker = orders[f.order].ticker
    BY <1>4, <2>2 DEF Touched, Kept
  <2>5. \A j \in Pending(orders') : orders'[j].sig < d =>
           j \in Pending(orders) /\ orders[j].sig < d /\ orders'[j].ticker = orders[j].ticker
    BY <2>2 DEF Touched, Pending
  <2>6. Unrefused(orders', d) => Unrefused(orders, d)
    BY <2>2, <2>3 DEF Touched, Unrefused
  <2>7. ASSUME Redo(Data, orders, fills, credits, settlements, d)
        PROVE  Redo(Data, orders', fills, credits, settlements, d)
    BY <2>4, <2>5, <2>6, <2>7, RedoOrders
  <2>8. QED
    BY <1>6, <2>1, <2>7
<1>11. QED
  BY <1>7, <1>8, <1>9, <1>10

\* The transaction opens on a session without dividends.
LEMMA OpeningPlans ==
  ASSUME ~Backdated, BooksInv, LedgerInv, PlanInv, NEW d \in Days,
         BeginNightly(d) \/ BeginManual(d) \/ BeginRerun(d)
  PROVE  PlanInv'
<1>0. /\ Shapes /\ tx = Idle /\ LastStep \in 0 .. LastDay /\ Idle' = Idle
      /\ (LastStep # 0 => LastStep \in equity)
  BY Setting, TxPhases DEF BooksInv, BeginNightly, BeginManual, BeginRerun, Open, Idle
<1>1. Ledger(bars, fills, credits, settlements, cash, pos, LastStep)
  BY <1>0 DEF LedgerInv
<1>2. PICK re : tx' = OpenTx(d, re)
  BY DEF BeginNightly, BeginManual, BeginRerun
<1>3. /\ tx' # Idle /\ tx'.phase = "dividends" /\ tx'.day = d
      /\ tx'.saved.orders = orders /\ tx'.saved.fills = fills /\ tx'.saved.credits = credits
      /\ tx'.saved.settlements = settlements /\ tx'.saved.equity = equity
  BY <1>2, OpeningCopies
<1>4. Data' = Data /\ changed' = changed
  BY DEF BeginNightly, BeginManual, BeginRerun, market, Data
<1>5. SavedRedo'
  BY <1>0, <1>3, <1>4 DEF PlanInv, SavedRedo
<1>6. \A c \in credits' : c.ex # d
  <2>1. CASE BeginRerun(d)
    BY <2>1 DEF BeginRerun
  <2>2. CASE BeginNightly(d) \/ BeginManual(d)
    <3>1. d \in Nat /\ d >= 1 /\ LastStep \in Nat
      BY <1>0, DaysNat DEF Days
    <3>2. d > LastStep
      <4>1. CASE BeginNightly(d) /\ equity = {}
        BY <1>0, <3>1, <4>1
      <4>2. CASE BeginNightly(d) /\ d = LastStep + 1
        BY <3>1, <4>2
      <4>3. CASE BeginManual(d)
        BY <4>3 DEF BeginManual
      <4>4. QED
        BY <2>2, <4>1, <4>2, <4>3 DEF BeginNightly
    <3>3. credits' = credits
      BY <2>2 DEF BeginNightly, BeginManual, book
    <3>4. \A c \in credits : c.ex <= LastStep /\ c \in Credit
      BY <1>1, RecordsMean DEF Ledger, Placed
    <3>5. \A c \in credits : c.ex \in Nat
      BY <3>4 DEF Credit, Days
    <3>6. QED
      BY <3>1, <3>2, <3>3, <3>4, <3>5
  <2>3. QED
    BY <2>1, <2>2
<1>7. Planning'
  BY <1>3, <1>6 DEF Planning
<1>8. QED
  BY <1>0, <1>3, <1>5, <1>7 DEF PlanInv

LEMMA SteadySaved ==
  ASSUME Steady, SavedRedo, Planning'
  PROVE  PlanInv'
<1>1. SavedRedo'
  BY DEF Steady, SavedRedo
<1>2. tx' # Idle /\ Idle' = Idle
  BY DEF Steady, Idle
<1>3. QED
  BY <1>1, <1>2 DEF PlanInv

LEMMA EndingPlans ==
  ASSUME BooksInv, WaitingInv, PlanInv, Commit \/ Rollback
  PROVE  PlanInv'
<1>0. /\ Shapes /\ BookMatched /\ tx # Idle /\ tx' = Idle /\ Idle' = Idle
      /\ SavedRedo /\ Planning /\ tx.day \in Nat
  BY TxPhases DEF BooksInv, Commit, Rollback, Phase, PlanInv, Idle
<1>1. Data' = Data
  BY DEF Commit, Rollback, market, Data
<1>2. CASE Commit
  <2>1. /\ tx.phase = "generate" /\ UNCHANGED <<orders, fills, credits, settlements, equity>>
    BY <1>2 DEF Commit, Phase, book
  <2>2. tx.day \in equity /\ \A e \in equity : e <= tx.day
    BY <1>0, <2>1 DEF BookMatched, WaitingInv, WaitingInTx
  <2>3. equity \subseteq 1 .. latest /\ latest \in Nat
    BY <1>0, TxPhases
  <2>4. LastOf(equity) \in equity /\ \A e \in equity : e <= LastOf(equity)
    BY <2>2, <2>3, LastOfMeans
  <2>5. LastOf(equity) = tx.day
    <3>1. PICK v : v = LastOf(equity)
      OBVIOUS
    <3>2. v \in equity /\ v >= tx.day /\ v <= tx.day
      BY <2>2, <2>4, <3>1
    <3>3. v \in 1 .. latest /\ tx.day \in Nat
      BY <1>0, <2>3, <3>2
    <3>4. v = tx.day
      BY <2>3, <3>2, <3>3
    <3>5. QED
      BY <3>1, <3>4
  <2>6. Redo(Data, orders, fills, credits, settlements, LastOf(equity))
    BY <1>0, <2>1, <2>5 DEF Planning
  <2>7. QED
    BY <1>0, <1>1, <2>1, <2>6 DEF PlanInv
<1>3. CASE Rollback
  <2>1. /\ orders' = tx.saved.orders /\ fills' = tx.saved.fills /\ credits' = tx.saved.credits
        /\ settlements' = tx.saved.settlements /\ equity' = tx.saved.equity /\ changed' = changed
    BY <1>3 DEF Rollback, market
  <2>2. QED
    BY <1>0, <1>1, <2>1 DEF PlanInv, SavedRedo
<1>4. QED
  BY <1>2, <1>3

LEMMA PlanStep ==
  ASSUME ~Backdated, BooksInv, WaitingInv, LedgerInv, ReasonsInv, PlanInv, [Next]_vars
  PROVE  PlanInv'
<1>1. tx # Idle => SavedRedo /\ Planning
  BY DEF PlanInv
<1>2. CASE UNCHANGED vars
  <2>1. UNCHANGED <<orders, fills, credits, settlements, equity, tx, changed, bars, published,
                    droppedOn, quarantined, nextId>>
    BY <1>2 DEF vars, book, market
  <2>2. Data' = Data /\ Idle' = Idle /\ TodoSells' = TodoSells
    BY <2>1 DEF Data, Idle, TodoSells
  <2>3. (Selling <=> Selling') /\ (Buying <=> Buying')
    BY <2>1, <2>2 DEF Selling, Buying
  <2>4. (Planning <=> Planning') /\ (SavedRedo <=> SavedRedo')
    BY <2>1, <2>2, <2>3 DEF Planning, SavedRedo
  <2>5. QED
    BY <2>1, <2>2, <2>4 DEF PlanInv
<1>3. CASE \/ Collect
           \/ \E x \in LateBars : LateBar(x)
           \/ \E x \in Dividends : Publish(x)
           \/ \E t \in Dropped : Drop(t)
           \/ \E t \in Quarantinable : Quarantine(t)
           \/ \E o \in Tickets, sig \in 1 .. LastDay + 1 : SubmitTicket(o, sig)
           \/ \E i \in DOMAIN orders : CancelTicket(i)
           \/ \E t \in Tickers, x \in Terms, e \in 1 .. LastDay + 1 : Settle(t, x, e)
  BY <1>3, OutsidePlans
<1>4. ASSUME NEW d \in Days, BeginNightly(d) \/ BeginManual(d) \/ BeginRerun(d) PROVE PlanInv'
  BY <1>4, OpeningPlans
<1>5. CASE CreditDividends
  <2>1. CreditDoes
    BY <1>5, CreditEffect
  <2>2. Steady /\ tx.phase = "dividends" /\ tx'.phase = "closeout" /\ fills' = fills /\ settlements' = settlements
    BY <2>1 DEF CreditDoes
  <2>3. SavedRedo /\ \A c \in credits : c.ex # tx.day
    BY <1>1, <2>2 DEF Steady, Planning
  <2>4. PaidToday(Data, fills, credits', settlements, tx.day)
    BY <2>1, <2>3, CreditPlans
  <2>5. Planning'
    BY <2>2, <2>4 DEF Planning, Steady
  <2>6. QED
    BY <2>2, <2>3, <2>5, SteadySaved
<1>6. ASSUME NEW t \in Tickers, CloseOut(t) PROVE PlanInv'
  <2>1. CloseOutDoes(t)
    BY <1>6, CloseOutEffect
  <2>2. Steady /\ tx.phase = "closeout" /\ tx'.phase = "closeout" /\ fills' = fills /\ credits' = credits
    BY <2>1 DEF CloseOutDoes
  <2>3. SavedRedo /\ PaidToday(Data, fills, credits, settlements, tx.day)
    BY <1>1, <2>2 DEF Steady, Planning
  <2>4. PaidToday(Data, fills, credits, settlements', tx.day)
    BY <2>1, <2>3, CloseOutPlans
  <2>5. Planning'
    BY <2>2, <2>4 DEF Planning, Steady
  <2>6. QED
    BY <2>2, <2>3, <2>5, SteadySaved
<1>7. CASE CloseOutDone
  <2>1. CloseOutDoneDoes
    BY <1>7, CloseOutDoneEffect
  <2>2. Steady /\ tx.phase = "closeout" /\ tx'.phase = "fill"
    BY <2>1 DEF CloseOutDoneDoes
  <2>3. SavedRedo /\ PaidToday(Data, fills, credits, settlements, tx.day)
    BY <1>1, <2>2 DEF Steady, Planning
  <2>4. Selling'
    BY <2>1, <2>3, CloseOutDonePlans
  <2>5. Planning'
    BY <2>2, <2>4 DEF Planning
  <2>6. QED
    BY <2>2, <2>3, <2>5, SteadySaved
<1>8. ASSUME NEW i \in DOMAIN orders, FillSell(i) PROVE PlanInv'
  <2>1. SellDoes(i)
    BY <1>8, SellEffect
  <2>2. Steady /\ tx.phase = "fill" /\ tx'.phase = "fill"
    BY <2>1 DEF SellDoes
  <2>3. SavedRedo /\ Selling
    BY <1>1, <2>2 DEF Steady, Planning
  <2>4. Selling'
    BY <2>1, <2>3, SellPlans
  <2>5. Planning'
    BY <2>2, <2>4 DEF Planning
  <2>6. QED
    BY <2>2, <2>3, <2>5, SteadySaved
<1>9. ASSUME NEW i \in DOMAIN orders, AttemptBuy(i) PROVE PlanInv'
  <2>1. AttemptDoes(i)
    BY <1>9, AttemptEffect
  <2>2. Steady /\ tx.phase = "fill" /\ tx'.phase = "fill"
    BY <2>1 DEF AttemptDoes
  <2>3. SavedRedo /\ Selling
    BY <1>1, <2>2 DEF Steady, Planning
  <2>4. Selling'
    BY <2>1, <2>3, AttemptPlans
  <2>5. Planning'
    BY <2>2, <2>4 DEF Planning
  <2>6. QED
    BY <2>2, <2>3, <2>5, SteadySaved
<1>10. ASSUME NEW i \in DOMAIN orders, FillBuy(i) PROVE PlanInv'
  <2>1. BuyDoes(i)
    BY <1>10, BuyEffect
  <2>2. Steady /\ tx.phase = "buy" /\ tx'.phase = "buy"
    BY <2>1 DEF BuyDoes
  <2>3. SavedRedo /\ Buying
    BY <1>1, <2>2 DEF Steady, Planning
  <2>4. Buying'
    BY <2>1, <2>3, BuyPlans
  <2>5. Planning'
    BY <2>2, <2>4 DEF Planning
  <2>6. QED
    BY <2>2, <2>3, <2>5, SteadySaved
<1>11. CASE SizeBuys
  <2>1. SizeDoes
    BY <1>11, SizeEffect
  <2>2. Steady /\ tx.phase = "fill" /\ tx'.phase = "buy"
    BY <2>1 DEF SizeDoes
  <2>3. SavedRedo /\ Selling
    BY <1>1, <2>2 DEF Steady, Planning
  <2>4. Buying'
    BY <2>1, <2>3, SizePlans
  <2>5. Planning'
    BY <2>2, <2>4 DEF Planning
  <2>6. QED
    BY <2>2, <2>3, <2>5, SteadySaved
<1>12. CASE MarkToMarket
  <2>1. MarkDoes
    BY <1>12, MarkEffect
  <2>2. Steady /\ tx.phase = "buy" /\ tx'.phase = "generate"
    BY <2>1 DEF MarkDoes
  <2>3. SavedRedo /\ Buying
    BY <1>1, <2>2 DEF Steady, Planning
  <2>4. Redo(Data', orders', fills', credits', settlements', tx'.day)
    BY <2>1, <2>3, MarkPlans
  <2>5. Planning'
    BY <2>2, <2>4 DEF Planning
  <2>6. QED
    BY <2>2, <2>3, <2>5, SteadySaved
<1>13. ASSUME NEW s \in Signals, GenerateOrder(s) PROVE PlanInv'
  <2>1. GenerateDoes
    BY <1>13, GenerateEffect
  <2>2. Steady /\ tx.phase = "generate" /\ tx'.phase = "generate"
    BY <2>1 DEF GenerateDoes
  <2>3. SavedRedo /\ Redo(Data, orders, fills, credits, settlements, tx.day)
    BY <1>1, <2>2 DEF Steady, Planning
  <2>4. Redo(Data', orders', fills', credits', settlements', tx'.day)
    BY <2>1, <2>3, GeneratePlans
  <2>5. Planning'
    BY <2>2, <2>4 DEF Planning
  <2>6. QED
    BY <2>2, <2>3, <2>5, SteadySaved
<1>14. CASE Commit \/ Rollback
  BY <1>14, EndingPlans
<1>15. QED
  BY <1>2, <1>3, <1>4, <1>5, <1>6, <1>7, <1>8, <1>9, <1>10, <1>11, <1>12, <1>13, <1>14 DEF Next

-----------------------------------------------------------------------------
(* A rerun follows the copy.                                               *)

\* What is known of the copy a rerun may have to restore.
Copied(os, fs, cs, ss, d) ==
    /\ Redo(Data, os, fs, cs, ss, d) /\ Reasoned(os)
    /\ \A i \in DOMAIN os : os[i] \in Order
    /\ \A i \in DOMAIN os : os[i].status = "filled" => \E f \in fs : f.order = i
    /\ \A f, g \in fs : f.order = g.order => f = g
    /\ \A f \in fs : /\ f.order \in DOMAIN os /\ os[f.order].status = "filled"
                     /\ f.day > os[f.order].sig
    /\ HonestIn(bars, os, fs)
    /\ \A f \in fs : f \in Fill /\ Printed(bars, f.ticker, f.day)
    /\ \A c \in cs : c \in Credit

LEMMA CopyIs ==
  ASSUME BooksInv, LedgerInv, HonestInv, ReasonsInv, SavedRedo, tx # Idle, ~changed,
         tx.saved.equity # {}, tx.day = LastOf(tx.saved.equity)
  PROVE  Copied(tx.saved.orders, tx.saved.fills, tx.saved.credits, tx.saved.settlements, tx.day)
<1> DEFINE s == tx.saved
<1>1. Redo(Data, s.orders, s.fills, s.credits, s.settlements, tx.day) /\ Reasoned(s.orders)
  BY DEF SavedRedo, ReasonsInv
<1>2. Matched(s.orders, s.fills, s.equity) /\ Formed(s.orders, s.equity, tx.id)
  BY TxPhases DEF BooksInv, BookMatched, Shapes, TxFormed
<1>3. HonestIn(bars, s.orders, s.fills)
  BY DEF HonestInv
<1>4. Records(s.fills, s.credits, s.settlements)
      /\ \A f \in s.fills : Printed(bars, f.ticker, f.day)
  BY DEF LedgerInv, LedgerInTx, Ledger, Placed
<1>5. (\A f \in s.fills : f \in Fill) /\ (\A c \in s.credits : c \in Credit)
  BY <1>4, RecordsMean
<1> HIDE DEF s
<1>6. Copied(s.orders, s.fills, s.credits, s.settlements, tx.day)
  BY <1>1, <1>2, <1>3, <1>4, <1>5 DEF Copied, Matched, Formed
<1>7. QED
  BY <1>6 DEF s

\* The orders that a rerun starts from.
LEMMA ClearedIs ==
  ASSUME NEW os, NEW fs, NEW d, \A i \in DOMAIN os : os[i] \in Order
  PROVE  LET ot == ClearedOf(os, fs, d) IN
         /\ \A i \in DOMAIN os : os[i].sig # d => i \in DOMAIN ot
         /\ \A i \in DOMAIN ot :
               /\ i \in DOMAIN os /\ ot[i].ticker = os[i].ticker /\ ot[i].side = os[i].side
               /\ ot[i].qty = os[i].qty /\ ot[i].sig = os[i].sig
               /\ \/ /\ os[i].status = "filled" /\ ~(\E f \in fs : f.order = i)
                     /\ ot[i].status = "pending"
                  \/ /\ ot[i] = os[i] /\ ~(os[i].status = "filled" /\ ~(\E f \in fs : f.order = i))
<1> DEFINE D == {j \in DOMAIN os : os[j].sig # d \/ os[j].ticket}
           ot == ClearedOf(os, fs, d)
<1>1. DOMAIN ot = D /\ D \subseteq DOMAIN os
  BY DEF ClearedOf
<1>2. \A i \in D : ot[i] = IF os[i].status = "filled" /\ ~\E f \in fs : f.order = i
                           THEN Marked(os[i], "pending") ELSE os[i]
  BY DEF ClearedOf
<1>3. \A i \in D : Kept(os[i], Marked(os[i], "pending")) /\ Marked(os[i], "pending").status = "pending"
  BY OrderKept
<1>4. \A i \in DOMAIN os : os[i].sig # d => i \in D
  OBVIOUS
<1> HIDE DEF D, ot
<1>5. ASSUME NEW i \in D
      PROVE  /\ ot[i].ticker = os[i].ticker /\ ot[i].side = os[i].side
             /\ ot[i].qty = os[i].qty /\ ot[i].sig = os[i].sig
             /\ \/ /\ os[i].status = "filled" /\ ~(\E f \in fs : f.order = i)
                   /\ ot[i].status = "pending"
                \/ /\ ot[i] = os[i] /\ ~(os[i].status = "filled" /\ ~(\E f \in fs : f.order = i))
  <2>1. CASE os[i].status = "filled" /\ ~\E f \in fs : f.order = i
    BY <1>2, <1>3, <2>1 DEF Kept
  <2>2. CASE ~(os[i].status = "filled" /\ ~\E f \in fs : f.order = i)
    BY <1>2, <2>2
  <2>3. QED
    BY <2>1, <2>2
<1>6. QED
  BY <1>1, <1>4, <1>5 DEF ot

LEMMA ClearedAsOrdered ==
  ASSUME NEW os, NEW fs, NEW d \in Int, \A i \in DOMAIN os : os[i] \in Order, Reasoned(os)
  PROVE  AsOrdered(os, ClearedOf(os, fs, d), d)
<1>1. PICK ot : ot = ClearedOf(os, fs, d)
  OBVIOUS
<1>2. /\ \A i \in DOMAIN os : os[i].sig # d => i \in DOMAIN ot
      /\ \A i \in DOMAIN ot :
            /\ ot[i].ticker = os[i].ticker /\ ot[i].side = os[i].side
            /\ ot[i].qty = os[i].qty /\ ot[i].sig = os[i].sig
            /\ os[i].status = "filled" \/ ot[i] = os[i]
  BY <1>1, ClearedIs
<1>3. ASSUME NEW i \in DOMAIN os, os[i].sig < d
      PROVE  /\ i \in DOMAIN ot
             /\ ot[i].ticker = os[i].ticker /\ ot[i].side = os[i].side
             /\ ot[i].qty = os[i].qty /\ ot[i].sig = os[i].sig
             /\ os[i].reason = "insufficient_cash" =>
                   ot[i].reason = "insufficient_cash" /\ ot[i].status # "pending"
  <2>1. os[i].sig \in Nat
    BY OrderFields
  <2>2. os[i].sig # d
    BY <1>3, <2>1
  <2>3. i \in DOMAIN ot
    BY <1>2, <2>2
  <2>4. os[i].reason = "insufficient_cash" => os[i].status \notin {"pending", "filled"}
    BY DEF Reasoned
  <2>5. QED
    BY <1>2, <2>3, <2>4
<1>4. QED
  BY <1>1, <1>3 DEF AsOrdered

\* An order that is put aside, refused or filled was pending.
LEMMA TouchedAsOrdered ==
  ASSUME NEW os, NEW d, AsOrdered(os, orders, d), NEW i \in DOMAIN orders, Touched(i),
         orders[i].status = "pending"
  PROVE  AsOrdered(os, orders', d)
<1> SUFFICES ASSUME NEW j \in DOMAIN os, os[j].sig < d
             PROVE  /\ j \in DOMAIN orders'
                    /\ orders'[j].ticker = os[j].ticker /\ orders'[j].side = os[j].side
                    /\ orders'[j].qty = os[j].qty /\ orders'[j].sig = os[j].sig
                    /\ os[j].reason = "insufficient_cash" =>
                          orders'[j].reason = "insufficient_cash" /\ orders'[j].status # "pending"
  BY DEF AsOrdered
<1>1. /\ j \in DOMAIN orders /\ orders[j].ticker = os[j].ticker /\ orders[j].side = os[j].side
      /\ orders[j].qty = os[j].qty /\ orders[j].sig = os[j].sig
      /\ os[j].reason = "insufficient_cash" =>
            orders[j].reason = "insufficient_cash" /\ orders[j].status # "pending"
  BY DEF AsOrdered
<1>2. CASE j = i
  BY <1>1, <1>2 DEF Touched, Kept
<1>3. CASE j # i
  BY <1>1, <1>3 DEF Touched
<1>4. QED
  BY <1>2, <1>3

\* The dividends of the session are credited as they were.
LEMMA CreditFollows ==
  ASSUME BooksInv, LedgerInv, CreditDoes, NEW os, NEW fs, NEW cs,
         Copied(os, fs, cs, settlements, tx.day),
         fills = FillsBut(fs, tx.day), credits = CreditsBut(cs, tx.day),
         Repeatable(Data, os, settlements, tx.day)
  PROVE  credits' = cs
<1> DEFINE d == tx.day
<1>0. Shapes /\ Market /\ tx # Idle /\ Data.published = published
  BY DEF CreditDoes, Steady, BooksInv, LedgerInv, Data
<1>1. PaidToday(Data, fills, cs, settlements, d) /\ AllPaid(Data, fills, cs, settlements, d)
  BY DEF Copied, Redo, Prepared
<1>2. EverHeld = HeldNames(fills, settlements)
  BY DEF EverHeld, HeldNames
<1>3. ASSUME NEW c \in cs, c.ex = d
      PROVE  /\ <<c.ticker, d>> \in published /\ InWindow(d, d) /\ c.ticker \in EverHeld
             /\ c.qty # 0 /\ c.qty = Shares(fills, settlements, c.ticker, d - 1)
  <2>1. /\ <<c.ticker, d>> \in published /\ InWindow(d, d) /\ c.ticker \in EverHeld /\ c.qty # 0
        /\ ClosedOut(c.ticker, settlements) \/ c.qty = Shares(fills, settlements, c.ticker, d - 1)
    BY <1>0, <1>1, <1>2, <1>3 DEF PaidToday
  <2>2. ~ClosedOut(c.ticker, settlements)
    BY <1>0, <2>1 DEF Repeatable, ClosedOut
  <2>3. QED
    BY <2>1, <2>2
<1>4. \A c \in cs : c = [ticker |-> c.ticker, ex |-> c.ex, qty |-> c.qty]
  BY DEF Copied, Credit
<1>5. ASSUME NEW c \in cs PROVE c \in credits'
  <2>1. CASE c.ex # d
    <3>1. c \in credits
      BY <2>1 DEF CreditsBut
    <3>2. QED
      BY <3>1 DEF CreditDoes
  <2>2. CASE c.ex = d
    <3>1. PICK x : x = <<c.ticker, d>>
      OBVIOUS
    <3>2. x[1] = c.ticker /\ x[2] = d
      BY <3>1
    <3>3. ~\E k \in credits : k.ticker = x[1] /\ k.ex = x[2]
      BY <3>2 DEF CreditsBut
    <3>4. /\ x \in published /\ InWindow(x[2], d) /\ x[1] \in EverHeld
          /\ c.qty # 0 /\ c.qty = Shares(fills, settlements, x[1], x[2] - 1)
      BY <1>3, <2>2, <3>1, <3>2
    <3>5. x \in Unpaid
      BY <3>3, <3>4 DEF Unpaid, InWindow
    <3>6. x \in Owed
      BY <3>4, <3>5 DEF Owed
    <3>7. c = CreditFor(x)
      BY <1>4, <2>2, <3>2, <3>4 DEF CreditFor
    <3>8. QED
      BY <3>6, <3>7 DEF CreditDoes
  <2>3. QED
    BY <2>1, <2>2
<1>6. ASSUME NEW x \in Owed PROVE CreditFor(x) \in cs
  <2>1. x \in Unpaid /\ Shares(fills, settlements, x[1], x[2] - 1) # 0
    BY DEF Owed
  <2>2. x \in published /\ ~\E k \in credits : k.ticker = x[1] /\ k.ex = x[2]
    BY <1>0, <2>1, UnpaidMeans
  <2>3. x[1] \in EverHeld /\ InWindow(x[2], d)
    BY <2>1 DEF Unpaid, InWindow
  <2>4. PICK c \in cs : c.ticker = x[1] /\ c.ex = x[2]
    BY <1>0, <1>1, <1>2, <2>1, <2>2, <2>3 DEF AllPaid
  <2>5. c.ex = d
    BY <2>2, <2>4 DEF CreditsBut
  <2>6. c.qty = Shares(fills, settlements, x[1], x[2] - 1)
    BY <1>3, <2>4, <2>5
  <2>7. c = CreditFor(x)
    BY <1>4, <2>4, <2>6 DEF CreditFor
  <2>8. QED
    BY <2>7
<1>7. ASSUME NEW c \in credits' PROVE c \in cs
  <2>1. CASE c \in credits
    BY <2>1 DEF CreditsBut
  <2>2. CASE \E x \in Owed : c = CreditFor(x)
    BY <1>6, <2>2
  <2>3. QED
    BY <2>1, <2>2 DEF CreditDoes
<1>8. QED
  BY <1>5, <1>7

\* A rerun finds nothing left to close out.
LEMMA CloseOutNever ==
  ASSUME BooksInv, LedgerInv, NEW t \in Tickers, CloseOutDoes(t), NEW os, NEW fs, NEW cs,
         Copied(os, fs, cs, settlements, tx.day), fills = FillsBut(fs, tx.day)
  PROVE  FALSE
<1>1. tx # Idle /\ pos[t] # 0 /\ Gone(Data, settlements, t, tx.day)
  BY DEF CloseOutDoes, Steady
<1>2. pos[t] = Shares(fills, settlements, t, LastDay + 1)
  BY <1>1, InSession
<1>3. NoneToClose(Data, fills, settlements, tx.day)
  BY DEF Copied, Redo, Prepared
<1>4. QED
  BY <1>1, <1>2, <1>3 DEF NoneToClose

\* The orders looked up are those of the session, or have no bar.
LEMMA LookUpFollows ==
  ASSUME BooksInv, CloseOutDoneDoes, NEW os, NEW fs, NEW cs, NEW ss,
         Copied(os, fs, cs, ss, tx.day), tx.day \in Nat,
         fills = FillsBut(fs, tx.day), orders = ClearedOf(os, fills, tx.day)
  PROVE  FollowedSells(Data, orders, fills, tx'.todo, tx'.buys, fs, tx.day)
<1>1. PICK d \in Nat : d = tx.day
  OBVIOUS
<1>2. /\ tx'.buys = {} /\ tx'.todo = {i \in Pending(orders) : orders[i].sig < d}
      /\ fills = FillsBut(fs, d)
  BY <1>1 DEF CloseOutDoneDoes
<1>3. /\ \A i \in DOMAIN os : os[i].sig # d => i \in DOMAIN orders
      /\ \A i \in DOMAIN orders :
            /\ i \in DOMAIN os /\ orders[i].ticker = os[i].ticker /\ orders[i].sig = os[i].sig
            /\ \/ /\ os[i].status = "filled" /\ ~(\E f \in fills : f.order = i)
                  /\ orders[i].status = "pending"
               \/ /\ orders[i] = os[i]
                  /\ ~(os[i].status = "filled" /\ ~(\E f \in fills : f.order = i))
  BY <1>1, ClearedIs DEF Copied
<1>4. /\ \A i \in DOMAIN os : os[i].status = "filled" => \E f \in fs : f.order = i
      /\ \A f, g \in fs : f.order = g.order => f = g
      /\ \A f \in fs : /\ f.order \in DOMAIN os /\ os[f.order].status = "filled"
                       /\ f.day > os[f.order].sig /\ os[f.order] \in Order /\ f \in Fill
      /\ Barless(Data, os, {}, d)
  BY <1>1 DEF Copied, Redo, Planned
<1>5. ASSUME NEW f \in fs, f.day = d PROVE f.order \in tx'.todo
  <2>1. os[f.order].sig \in Nat /\ os[f.order].sig < d /\ os[f.order].sig # d
    BY <1>4, <1>5, OrderFields
  <2>2. f.order \in DOMAIN orders
    BY <1>3, <1>4, <2>1
  <2>3. ~\E g \in fills : g.order = f.order
    BY <1>2, <1>4, <1>5 DEF FillsBut
  <2>4. orders[f.order].status = "pending" /\ orders[f.order].sig < d
    BY <1>3, <1>4, <2>1, <2>2, <2>3
  <2>5. QED
    BY <1>2, <2>2, <2>4 DEF Pending
<1>6. fills = {f \in fs : f.day # d \/ (f.side = "sell" /\ f.order \notin tx'.todo)}
  BY <1>2, <1>5 DEF FillsBut
<1>7. Bidders(fs, d) \subseteq tx'.todo \cup tx'.buys
  BY <1>5 DEF Bidders, BoughtOn
<1>8. ASSUME NEW i \in tx'.todo
      PROVE  (\E f \in fs : f.order = i /\ f.day = d) \/ ~Printed(Data.bars, orders[i].ticker, d)
  <2>1. i \in DOMAIN orders /\ orders[i].status = "pending" /\ orders[i].sig < d
    BY <1>2 DEF Pending
  <2>2. CASE os[i].status = "filled" /\ ~(\E f \in fills : f.order = i)
    <3>1. PICK f \in fs : f.order = i
      BY <1>3, <1>4, <2>1, <2>2
    <3>2. f.day = d
      BY <1>2, <2>2, <3>1 DEF FillsBut
    <3>3. QED
      BY <3>1, <3>2
  <2>3. CASE orders[i] = os[i]
    BY <1>3, <1>4, <2>1, <2>3 DEF Barless, Pending
  <2>4. QED
    BY <1>3, <2>1, <2>2, <2>3
<1>9. FollowedSells(Data, orders, fills, tx'.todo, tx'.buys, fs, d)
  BY <1>2, <1>6, <1>7, <1>8 DEF FollowedSells
<1>10. QED
  BY <1>1, <1>9

\* A fill of the copy, of an order of the session.
LEMMA CopiedFill ==
  ASSUME NEW os, NEW fs, NEW cs, NEW ss, NEW d \in Nat, Copied(os, fs, cs, ss, d),
         AsOrdered(os, orders, d), NEW f \in fs, f.day = d
  PROVE  LET i == f.order
             b == bars[d][f.ticker]
         IN /\ i \in DOMAIN os /\ i \in DOMAIN orders
            /\ f.ticker = orders[i].ticker /\ f.side = orders[i].side
            /\ orders[i].qty = os[i].qty /\ orders[i].ticker = os[i].ticker
            /\ f.side \in {"buy", "sell"} /\ f.qty \in Nat \ {0} /\ Printed(bars, f.ticker, d)
            /\ f.px = (IF f.side = "buy" THEN BuyPx(b) ELSE SellPx(b))
            /\ f.qty * b.px <= b.cap
            /\ f = [order |-> i, ticker |-> f.ticker, side |-> f.side,
                    qty |-> f.qty, px |-> f.px, day |-> d]
<1>1. f.order \in DOMAIN os /\ d > os[f.order].sig /\ os[f.order] \in Order /\ f \in Fill
      /\ Printed(bars, f.ticker, d)
  BY DEF Copied
<1>2. os[f.order].sig < d
  BY <1>1, OrderFields
<1>3. /\ f.ticker = os[f.order].ticker /\ f.side = os[f.order].side
      /\ f.px = (IF f.side = "buy" THEN BuyPx(bars[d][f.ticker]) ELSE SellPx(bars[d][f.ticker]))
      /\ f.qty * bars[d][f.ticker].px <= bars[d][f.ticker].cap
  BY DEF Copied, HonestIn
<1>4. /\ f.order \in DOMAIN orders /\ orders[f.order].ticker = os[f.order].ticker
      /\ orders[f.order].side = os[f.order].side /\ orders[f.order].qty = os[f.order].qty
  BY <1>1, <1>2 DEF AsOrdered
<1>5. /\ f.side \in {"buy", "sell"} /\ f.qty \in Nat \ {0}
      /\ f = [order |-> f.order, ticker |-> f.ticker, side |-> f.side,
              qty |-> f.qty, px |-> f.px, day |-> d]
  BY <1>1 DEF Fill
<1>6. QED
  BY <1>1, <1>3, <1>4, <1>5

LEMMA SellFollows ==
  ASSUME BooksInv, LedgerInv, Selling, NEW i \in DOMAIN orders, SellDoes(i),
         NEW os, NEW fs, NEW cs, NEW d \in Nat, d = tx.day,
         Copied(os, fs, cs, settlements, d), AsOrdered(os, orders, d),
         FollowedSells(Data, orders, fills, tx.todo, tx.buys, fs, d)
  PROVE  FollowedSells(Data, orders', fills', tx'.todo, tx'.buys, fs, d)
<1>0. /\ tx # Idle /\ i \in TodoSells /\ (\A j \in TodoSells : i <= j)
      /\ tx'.todo = tx.todo \ {i} /\ tx'.buys = tx.buys /\ Touched(i)
  BY DEF SellDoes, Steady
<1>1. /\ i \in tx.todo /\ orders[i].side = "sell" /\ i \in Nat
      /\ tx.todo \subseteq DOMAIN orders /\ orders[i] \in Order
  BY <1>0, InSession DEF TodoSells, SellDoes, BooksInv, TodoDue, Todo, Pending
<1>2. /\ fills = {f \in fs : f.day # d \/ (f.side = "sell" /\ f.order \notin tx.todo)}
      /\ Bidders(fs, d) \subseteq tx.todo \cup tx.buys /\ tx.buys \subseteq Bidders(fs, d)
      /\ \A j \in tx.todo : \/ \E f \in fs : f.order = j /\ f.day = d
                            \/ ~Printed(Data.bars, orders[j].ticker, d)
  BY DEF FollowedSells
<1>3. Data.bars = bars
  BY DEF Data
<1>4. \A j \in DOMAIN orders : orders'[j].ticker = orders[j].ticker
  BY <1>0 DEF Touched, Kept
<1>5. ASSUME NEW f \in fs, f.day = d
      PROVE  /\ f.ticker = orders[f.order].ticker /\ f.side = orders[f.order].side
             /\ Printed(bars, f.ticker, d) /\ f.side \in {"buy", "sell"}
  BY <1>5, CopiedFill
<1>6. Bidders(fs, d) \subseteq tx'.todo \cup tx'.buys
  <2>1. i \notin Bidders(fs, d)
    BY <1>1, <1>5 DEF Bidders, BoughtOn
  <2>2. QED
    BY <1>0, <1>2, <2>1
<1>7. \A j \in tx'.todo : \/ \E f \in fs : f.order = j /\ f.day = d
                          \/ ~Printed(Data.bars, orders'[j].ticker, d)
  BY <1>0, <1>1, <1>2, <1>4
<1>8. fills' = {f \in fs : f.day # d \/ (f.side = "sell" /\ f.order \notin tx'.todo)}
  <2>1. ASSUME NEW f \in fs, f.order = i, f.day = d PROVE fills' = fills \cup {f}
    <3>1. f.side = "sell"
      BY <1>1, <1>5, <2>1
    <3>2. /\ f.ticker = orders[i].ticker /\ orders[i].qty = os[i].qty
          /\ f.qty \in Nat \ {0} /\ Printed(bars, f.ticker, d)
          /\ f.px = SellPx(bars[d][f.ticker]) /\ f.qty * bars[d][f.ticker].px <= bars[d][f.ticker].cap
          /\ f = [order |-> i, ticker |-> f.ticker, side |-> "sell",
                  qty |-> f.qty, px |-> f.px, day |-> d]
      BY <2>1, <3>1, CopiedFill
    <3>3. ToSell(fs, d, i) = fills
      <4>1. ASSUME NEW g \in fs, g.day = d, g.side = "sell"
            PROVE  g.order < i <=> g.order \notin tx.todo
        <5>1. orders[g.order].side = "sell" /\ g.order \in Nat
          BY <1>5, <4>1 DEF Copied, Fill
        <5>2. CASE g.order \in tx.todo
          <6>1. g.order \in TodoSells
            BY <5>1, <5>2 DEF TodoSells
          <6>2. i <= g.order
            BY <1>0, <6>1
          <6>3. QED
            BY <1>1, <5>1, <5>2, <6>2
        <5>3. CASE g.order \notin tx.todo
          <6>1. g \in SoldOn(fills, tx.day)
            BY <1>2, <4>1, <5>3 DEF SoldOn
          <6>2. g.order < i
            BY <1>0, <6>1 DEF Selling
          <6>3. QED
            BY <5>3, <6>2
        <5>4. QED
          BY <5>2, <5>3
      <4>2. QED
        BY <1>2, <4>1 DEF ToSell
    <3>4. f.qty = Min({os[i].qty, Shares(ToSell(fs, d, i), settlements, f.ticker, LastDay + 1)})
      <4>1. SellsPlanned(os, fs, settlements, d) /\ f \in SoldOn(fs, d)
        BY <2>1, <3>1 DEF Copied, Redo, Planned, SoldOn
      <4>2. QED
        BY <2>1, <4>1 DEF SellsPlanned
    <3>5. pos[f.ticker] = Shares(fills, settlements, f.ticker, LastDay + 1)
      <4>1. f.ticker \in Tickers
        BY <1>1, <3>2 DEF Order
      <4>2. QED
        BY <1>0, <4>1, InSession
    <3>6. f.qty = SellQty(i)
      BY <3>2, <3>3, <3>4, <3>5 DEF SellQty
    <3>7. f = FillRow(i, SellQty(i), SellPx(bars[tx.day][orders[i].ticker]))
      BY <1>1, <3>2, <3>6 DEF FillRow
    <3>8. ~(SellQty(i) <= 0)
      BY <3>2, <3>6
    <3>9. bars[d][f.ticker].px \in Nat /\ bars[d][f.ticker].cap \in Nat
      <4>1. f.ticker \in Tickers /\ d \in Days
        BY <1>0, <1>1, <3>2, InSession DEF Order
      <4>2. QED
        BY <4>1, BarMeans DEF LedgerInv
    <3>10. ~(SellQty(i) * bars[d][f.ticker].px > bars[d][f.ticker].cap)
      <4>1. f.qty * bars[d][f.ticker].px \in Nat
        BY <3>2, <3>9
      <4>2. QED
        BY <3>2, <3>6, <3>9, <4>1
    <3>11. QED
      BY <3>2, <3>7, <3>8, <3>10 DEF SellDoes
  <2>2. CASE \E f \in fs : f.order = i /\ f.day = d
    <3>1. PICK f \in fs : f.order = i /\ f.day = d
      BY <2>2
    <3>2. fills' = fills \cup {f} /\ f.side = "sell"
      BY <1>1, <1>5, <2>1, <3>1
    <3>3. \A g \in fs : g.order = i => g = f
      BY <3>1 DEF Copied
    <3>4. QED
      BY <1>0, <1>1, <1>2, <3>1, <3>2, <3>3
  <2>3. CASE ~\E f \in fs : f.order = i /\ f.day = d
    <3>1. ~Printed(bars, orders[i].ticker, d)
      BY <1>1, <1>2, <1>3, <2>3
    <3>2. fills' = fills
      BY <3>1 DEF SellDoes
    <3>3. QED
      BY <1>0, <1>2, <2>3, <3>2
  <2>4. QED
    BY <2>2, <2>3
<1>9. QED
  BY <1>0, <1>2, <1>6, <1>7, <1>8 DEF FollowedSells

LEMMA AttemptFollows ==
  ASSUME BooksInv, LedgerInv, NEW i \in DOMAIN orders, AttemptDoes(i),
         NEW os, NEW fs, NEW cs, NEW ss, NEW d \in Nat, d = tx.day,
         Copied(os, fs, cs, ss, d), AsOrdered(os, orders, d),
         FollowedSells(Data, orders, fills, tx.todo, tx.buys, fs, d)
  PROVE  FollowedSells(Data, orders', fills', tx'.todo, tx'.buys, fs, d)
<1>0. /\ tx # Idle /\ TodoSells = {} /\ i \in tx.todo /\ fills' = fills
      /\ tx'.todo = tx.todo \ {i} /\ Touched(i)
      /\ \/ tx'.buys = tx.buys \cup {i} /\ Printed(bars, orders[i].ticker, d)
         \/ /\ tx'.buys = tx.buys
            /\ ~Biddable(Data, orders[i], d) \/ ~Printed(bars, orders[i].ticker, d)
  BY DEF AttemptDoes, Steady
<1>1. tx.todo \subseteq DOMAIN orders /\ orders[i].side # "sell"
  BY <1>0 DEF TodoSells, AttemptDoes, BooksInv, TodoDue, Todo, Pending
<1>2. /\ fills = {f \in fs : f.day # d \/ (f.side = "sell" /\ f.order \notin tx.todo)}
      /\ Bidders(fs, d) \subseteq tx.todo \cup tx.buys /\ tx.buys \subseteq Bidders(fs, d)
      /\ \A j \in tx.todo : \/ \E f \in fs : f.order = j /\ f.day = d
                            \/ ~Printed(Data.bars, orders[j].ticker, d)
  BY DEF FollowedSells
<1>3. Data.bars = bars
  BY DEF Data
<1>4. \A j \in DOMAIN orders : orders'[j].ticker = orders[j].ticker
  BY <1>0 DEF Touched, Kept
<1>5. ASSUME NEW f \in fs, f.day = d
      PROVE  /\ f.ticker = orders[f.order].ticker /\ f.side = orders[f.order].side
             /\ Printed(bars, f.ticker, d) /\ f.side \in {"buy", "sell"}
             /\ orders[f.order].qty = os[f.order].qty /\ orders[f.order].ticker = os[f.order].ticker
  BY <1>5, CopiedFill
<1>6. ASSUME NEW f \in fs, f.order = i, f.day = d PROVE i \in Bidders(fs, d) /\ tx'.buys = tx.buys \cup {i}
  <2>1. f.side = "buy" /\ Printed(bars, orders[i].ticker, d)
    BY <1>1, <1>5, <1>6
  <2>2. f \in BoughtOn(fs, d)
    BY <1>6, <2>1 DEF BoughtOn
  <2>3. Biddable(Data, os[i], d)
    BY <1>6, <2>2 DEF Copied, Redo, Planned
  <2>4. orders[i].qty = os[i].qty /\ orders[i].ticker = os[i].ticker
    BY <1>5, <1>6
  <2>5. Biddable(Data, orders[i], d)
    BY <2>3, <2>4, SameBiddable
  <2>6. QED
    BY <1>0, <1>6, <2>1, <2>2, <2>5 DEF Bidders
<1>7. CASE \E f \in fs : f.order = i /\ f.day = d
  <2>1. i \in Bidders(fs, d) /\ tx'.buys = tx.buys \cup {i}
    BY <1>6, <1>7
  <2>2. \A f \in fs : f.day = d /\ f.order = i => f.side # "sell"
    BY <1>1, <1>5
  <2>3. fills' = {f \in fs : f.day # d \/ (f.side = "sell" /\ f.order \notin tx'.todo)}
    BY <1>0, <1>2, <2>2
  <2>4. \A j \in tx'.todo : \/ \E f \in fs : f.order = j /\ f.day = d
                            \/ ~Printed(Data.bars, orders'[j].ticker, d)
    BY <1>0, <1>1, <1>2, <1>4
  <2>5. Bidders(fs, d) \subseteq tx'.todo \cup tx'.buys /\ tx'.buys \subseteq Bidders(fs, d)
    BY <1>0, <1>2, <2>1
  <2>6. QED
    BY <2>3, <2>4, <2>5 DEF FollowedSells
<1>8. CASE ~\E f \in fs : f.order = i /\ f.day = d
  <2>1. ~Printed(bars, orders[i].ticker, d)
    BY <1>0, <1>2, <1>3, <1>8
  <2>2. tx'.buys = tx.buys /\ i \notin Bidders(fs, d)
    BY <1>0, <1>8, <2>1 DEF Bidders, BoughtOn
  <2>3. fills' = {f \in fs : f.day # d \/ (f.side = "sell" /\ f.order \notin tx'.todo)}
    BY <1>0, <1>2, <1>8
  <2>4. \A j \in tx'.todo : \/ \E f \in fs : f.order = j /\ f.day = d
                            \/ ~Printed(Data.bars, orders'[j].ticker, d)
    BY <1>0, <1>1, <1>2, <1>4
  <2>5. Bidders(fs, d) \subseteq tx'.todo \cup tx'.buys /\ tx'.buys \subseteq Bidders(fs, d)
    BY <1>0, <1>2, <2>2
  <2>6. QED
    BY <2>3, <2>4, <2>5 DEF FollowedSells
<1>9. QED
  BY <1>7, <1>8

LEMMA SizeFollows ==
  ASSUME BooksInv, LedgerInv, SizeDoes, NEW os, NEW fs, NEW cs, NEW d \in Nat, d = tx.day,
         Copied(os, fs, cs, settlements, d), AsOrdered(os, orders, d), credits = cs,
         FollowedSells(Data, orders, fills, tx.todo, tx.buys, fs, d)
  PROVE  /\ FollowedBuys(fills', tx'.buys, fs, d)
         /\ tx'.wanted = Bids(Data, os, Bidders(fs, d), d)
         /\ tx'.budget = Money(BeforeBuys(fs, d), cs, settlements, LastDay + 1)
<1>0. /\ tx # Idle /\ tx.todo = {} /\ tx'.buys = tx.buys /\ fills' = fills
      /\ tx'.budget = cash /\ tx'.wanted = Bids(Data, orders, tx.buys, d)
  BY DEF SizeDoes, Steady
<1>1. /\ fills = {f \in fs : f.day # d \/ (f.side = "sell" /\ f.order \notin tx.todo)}
      /\ Bidders(fs, d) \subseteq tx.todo \cup tx.buys /\ tx.buys \subseteq Bidders(fs, d)
  BY DEF FollowedSells
<1>2. tx.buys = Bidders(fs, d) /\ fills = BeforeBuys(fs, d)
  BY <1>0, <1>1 DEF BeforeBuys
<1>3. \A f \in fs : f.day = d /\ f.side # "sell" => f.order \in tx.buys
  <2>1. \A f \in fs : f.side \in {"buy", "sell"}
    BY DEF Copied, Fill
  <2>2. QED
    BY <1>2, <2>1 DEF Bidders, BoughtOn
<1>4. fills = {f \in fs : f.day # d \/ f.side = "sell" \/ f.order \notin tx.buys}
  BY <1>0, <1>1, <1>3
<1>5. \A j \in tx.buys : orders[j].qty = os[j].qty /\ orders[j].ticker = os[j].ticker
  <2>1. ASSUME NEW f \in fs, f.day = d
        PROVE  orders[f.order].qty = os[f.order].qty /\ orders[f.order].ticker = os[f.order].ticker
    BY <2>1, CopiedFill
  <2>2. QED
    BY <1>2, <2>1 DEF Bidders, BoughtOn
<1>6. Bids(Data, orders, tx.buys, d) = Bids(Data, os, tx.buys, d)
  BY <1>5, SameBids
<1>7. cash = Money(fills, cs, settlements, LastDay + 1)
  BY <1>0, InSession
<1>8. QED
  BY <1>0, <1>1, <1>2, <1>4, <1>6, <1>7 DEF FollowedBuys

LEMMA BuyFollows ==
  ASSUME BooksInv, LedgerInv, Buying, NEW i \in DOMAIN orders, BuyDoes(i),
         NEW os, NEW fs, NEW cs, NEW d \in Nat, d = tx.day,
         Copied(os, fs, cs, settlements, d), AsOrdered(os, orders, d), credits = cs,
         Unrefused(os, d), FollowedBuys(fills, tx.buys, fs, d),
         tx.wanted = Bids(Data, os, Bidders(fs, d), d),
         tx.budget = Money(BeforeBuys(fs, d), cs, settlements, LastDay + 1)
  PROVE  FollowedBuys(fills', tx'.buys, fs, d)
<1>0. /\ tx # Idle /\ i \in tx.buys /\ (\A j \in tx.buys : i <= j) /\ tx'.buys = tx.buys \ {i}
  BY DEF BuyDoes, Steady
<1>1. /\ fills = {f \in fs : f.day # d \/ f.side = "sell" \/ f.order \notin tx.buys}
      /\ tx.buys \subseteq Bidders(fs, d)
  BY DEF FollowedBuys
<1>2. PICK f \in fs : f.order = i /\ f.day = d /\ f.side = "buy"
  BY <1>0, <1>1 DEF Bidders, BoughtOn
<1>3. /\ f.ticker = orders[i].ticker /\ orders[i].side = "buy" /\ orders[i].qty = os[i].qty
      /\ f.qty \in Nat \ {0} /\ f.px = BuyPx(bars[d][f.ticker])
      /\ f = [order |-> i, ticker |-> f.ticker, side |-> "buy",
              qty |-> f.qty, px |-> f.px, day |-> d]
  BY <1>2, CopiedFill
<1>4. ToBuy(fs, d, i) = fills
  <2>1. ASSUME NEW g \in fs, g.day = d, g.side # "sell"
        PROVE  g.order < i <=> g.order \notin tx.buys
    <3>1. g.order \in Nat /\ i \in Nat /\ g.side = "buy"
      BY <1>0, <2>1, InSession DEF Copied, Fill
    <3>2. CASE g.order \in tx.buys
      <4>1. i <= g.order
        BY <1>0, <3>2
      <4>2. QED
        BY <3>1, <3>2, <4>1
    <3>3. CASE g.order \notin tx.buys
      <4>1. g \in BoughtOn(fills, tx.day)
        BY <1>1, <2>1, <3>1, <3>3 DEF BoughtOn
      <4>2. g.order < i
        BY <1>0, <4>1 DEF Buying
      <4>3. QED
        BY <3>3, <4>2
    <3>4. QED
      BY <3>2, <3>3
  <2>2. QED
    BY <1>1, <2>1 DEF ToBuy
<1>5. f.qty = Min({ScaledTo(os[i].qty, tx.wanted, tx.budget),
                   Money(ToBuy(fs, d, i), cs, settlements, LastDay + 1) \div f.px})
  <2>1. BuysPlanned(os, fs, cs, settlements, d, tx.wanted) /\ f \in BoughtOn(fs, d)
    BY <1>2 DEF Copied, Redo, BoughtOn
  <2>2. QED
    BY <1>2, <2>1 DEF BuysPlanned
<1>6. cash = Money(fills, cs, settlements, LastDay + 1)
  BY <1>0, InSession
<1>7. f.qty = Min({ScaledTo(orders[i].qty, tx.wanted, tx.budget),
                   cash \div BuyPx(bars[tx.day][orders[i].ticker])})
  BY <1>3, <1>4, <1>5, <1>6
<1>8. fills' = fills \cup {FillRow(i, f.qty, BuyPx(bars[tx.day][orders[i].ticker]))}
  BY <1>3, <1>7 DEF BuyDoes
<1>9. fills' = fills \cup {f}
  BY <1>3, <1>8 DEF FillRow
<1>10. \A g \in fs : g.order = i => g = f
  BY <1>2 DEF Copied
<1>11. fills' = {g \in fs : g.day # d \/ g.side = "sell" \/ g.order \notin tx'.buys}
  BY <1>0, <1>1, <1>2, <1>9, <1>10
<1>12. QED
  BY <1>0, <1>1, <1>11 DEF FollowedBuys

\* The session goes on as the copy did.
FollowedOn(os, fs, cs, ss, d) ==
    /\ settlements' = ss /\ AsOrdered(os, orders', d)
    /\ tx'.phase = "closeout" => fills' = FillsBut(fs, d) /\ orders' = ClearedOf(os, fills', d)
    /\ Repeatable(Data, os, ss, d) =>
          /\ credits' = cs
          /\ tx'.phase = "fill" => FollowedSells(Data, orders', fills', tx'.todo, tx'.buys, fs, d)
          /\ tx'.phase = "buy" =>
                /\ FollowedBuys(fills', tx'.buys, fs, d)
                /\ tx'.wanted = Bids(Data, os, Bidders(fs, d), d)
                /\ tx'.budget = Money(BeforeBuys(fs, d), cs, ss, LastDay + 1)
          /\ tx'.phase = "generate" => fills' = fs

LEMMA FollowsOn ==
  ASSUME FollowInv, Steady, tx'.phase # "dividends",
         NEW s, s = tx.saved, NEW d, d = tx.day,
         tx.rerun /\ ~changed => FollowedOn(s.orders, s.fills, s.credits, s.settlements, d)
  PROVE  FollowInv'
<1>1. tx' # Idle /\ tx # Idle /\ Idle' = Idle
  BY DEF Steady, Idle
<1> SUFFICES ASSUME tx'.rerun
             PROVE  /\ tx'.saved.equity # {} /\ tx'.day = LastOf(tx'.saved.equity)
                    /\ ~changed' => Following(tx.saved, tx.day)'
  BY <1>1 DEF FollowInv
<1>2. /\ tx'.saved = s /\ tx'.day = d /\ Data' = Data /\ changed' = changed /\ tx.rerun
  BY DEF Steady
<1>3. s.equity # {} /\ d = LastOf(s.equity)
  BY <1>1, <1>2 DEF FollowInv
<1>4. ASSUME ~changed' PROVE Following(tx.saved, tx.day)'
  <2>1. FollowedOn(s.orders, s.fills, s.credits, s.settlements, d)
    BY <1>2, <1>4
  <2>2. QED
    BY <1>2, <2>1 DEF FollowedOn, Following
<1>5. QED
  BY <1>2, <1>3, <1>4

LEMMA OpeningFollows ==
  ASSUME BooksInv, ReasonsInv, NEW d \in Days, BeginNightly(d) \/ BeginManual(d) \/ BeginRerun(d)
  PROVE  FollowInv'
<1>0. Idle' = Idle /\ Shapes
  BY DEF Idle, BooksInv
<1>1. CASE BeginNightly(d) \/ BeginManual(d)
  <2>1. tx' = OpenTx(d, FALSE)
    BY <1>1 DEF BeginNightly, BeginManual
  <2>2. ~tx'.rerun
    BY <2>1, OpeningCopies
  <2>3. QED
    BY <2>2 DEF FollowInv
<1>2. CASE BeginRerun(d)
  <2>1. /\ tx' = OpenTx(d, TRUE) /\ d \in equity /\ d = LastStep /\ fills' = FillsBut(fills, d)
        /\ credits' = CreditsBut(credits, d) /\ settlements' = settlements
        /\ orders' = ClearedOf(orders, fills', d)
    BY <1>2 DEF BeginRerun, FillsBut, CreditsBut, Cleared, ClearedOf
  <2>2. /\ tx'.phase = "dividends" /\ tx'.day = d
        /\ tx'.saved.orders = orders /\ tx'.saved.fills = fills /\ tx'.saved.credits = credits
        /\ tx'.saved.settlements = settlements /\ tx'.saved.equity = equity
    BY <2>1, OpeningCopies
  <2>3. equity # {} /\ d = LastOf(equity)
    BY <1>0, <2>1, Setting
  <2>4. AsOrdered(orders, orders', d)
    <3>1. d \in Int /\ Reasoned(orders) /\ \A i \in DOMAIN orders : orders[i] \in Order
      BY <1>0, TxPhases DEF Days, ReasonsInv
    <3>2. QED
      BY <2>1, <3>1, ClearedAsOrdered
  <2>5. Following(tx.saved, tx.day)'
    BY <2>1, <2>2, <2>4 DEF Following
  <2>6. QED
    BY <2>2, <2>3, <2>5 DEF FollowInv
<1>3. QED
  BY <1>1, <1>2

LEMMA FollowStep ==
  ASSUME BooksInv, LedgerInv, HonestInv, ReasonsInv, PlanInv, FollowInv, [Next]_vars
  PROVE  FollowInv'
<1>0. Idle' = Idle /\ Shapes
  BY DEF Idle, BooksInv
<1>1. PICK s, os, fs, cs, ss, d : /\ s = tx.saved /\ os = s.orders /\ fs = s.fills /\ cs = s.credits
                                  /\ ss = s.settlements /\ d = tx.day
  OBVIOUS
<1>2. ASSUME tx # Idle, tx.rerun, ~changed
      PROVE  Copied(os, fs, cs, ss, d) /\ Following(s, d) /\ d \in Nat
  <2>1. tx.saved.equity # {} /\ tx.day = LastOf(tx.saved.equity) /\ Following(tx.saved, tx.day)
    BY <1>2 DEF FollowInv
  <2>2. SavedRedo /\ tx.day \in Nat
    BY <1>0, <1>2, TxPhases DEF PlanInv
  <2>3. Copied(tx.saved.orders, tx.saved.fills, tx.saved.credits, tx.saved.settlements, tx.day)
    BY <1>2, <2>1, <2>2, CopyIs
  <2>4. QED
    BY <1>1, <2>1, <2>2, <2>3
<1>3. ASSUME Steady, tx'.phase # "dividends", tx.rerun /\ ~changed => FollowedOn(os, fs, cs, ss, d)
      PROVE  FollowInv'
  BY <1>1, <1>3, FollowsOn
<1>4. ASSUME NEW i \in DOMAIN orders, i \in Pending(orders), Touched(i), AsOrdered(os, orders, d)
      PROVE  AsOrdered(os, orders', d)
  BY <1>4, TouchedAsOrdered DEF Pending
<1>5. CASE UNCHANGED vars
  <2>1. UNCHANGED <<orders, fills, credits, settlements, equity, tx, changed>> /\ Data' = Data
    BY <1>5 DEF vars, book, market, Data
  <2>2. Following(tx.saved, tx.day) => Following(tx.saved, tx.day)'
    BY <2>1 DEF Following
  <2>3. QED
    BY <1>0, <2>1, <2>2 DEF FollowInv
<1>6. CASE \/ Collect
           \/ \E x \in LateBars : LateBar(x)
           \/ \E x \in Dividends : Publish(x)
           \/ \E t \in Dropped : Drop(t)
           \/ \E t \in Quarantinable : Quarantine(t)
           \/ \E o \in Tickets, sig \in 1 .. LastDay + 1 : SubmitTicket(o, sig)
           \/ \E i \in DOMAIN orders : CancelTicket(i)
           \/ \E t \in Tickers, x \in Terms, e \in 1 .. LastDay + 1 : Settle(t, x, e)
  <2>1. tx' = Idle
    BY <1>6, OutsideReasons DEF ReasonsInv
  <2>2. QED
    BY <1>0, <2>1 DEF FollowInv
<1>7. ASSUME NEW e \in Days, BeginNightly(e) \/ BeginManual(e) \/ BeginRerun(e) PROVE FollowInv'
  BY <1>7, OpeningFollows
<1>8. CASE CreditDividends
  <2>1. CreditDoes
    BY <1>8, CreditEffect
  <2>2. /\ Steady /\ tx.phase = "dividends" /\ tx'.phase = "closeout"
        /\ orders' = orders /\ fills' = fills /\ settlements' = settlements
    BY <2>1 DEF CreditDoes
  <2>3. ASSUME tx.rerun, ~changed PROVE FollowedOn(os, fs, cs, ss, d)
    <3>1. /\ Copied(os, fs, cs, ss, d) /\ settlements = ss /\ AsOrdered(os, orders, d)
          /\ fills = FillsBut(fs, d) /\ orders = ClearedOf(os, fills, d) /\ credits = CreditsBut(cs, d)
      BY <1>1, <1>2, <2>2, <2>3 DEF Steady, Following
    <3>2. ASSUME Repeatable(Data, os, ss, d) PROVE credits' = cs
      BY <1>1, <2>1, <3>1, <3>2, CreditFollows
    <3>3. QED
      BY <2>2, <3>1, <3>2 DEF FollowedOn
  <2>4. QED
    BY <1>3, <2>2, <2>3
<1>9. ASSUME NEW t \in Tickers, CloseOut(t) PROVE FollowInv'
  <2>1. CloseOutDoes(t)
    BY <1>9, CloseOutEffect
  <2>2. Steady /\ tx.phase = "closeout" /\ tx'.phase = "closeout"
    BY <2>1 DEF CloseOutDoes
  <2>3. ASSUME tx.rerun, ~changed PROVE FALSE
    <3>1. Copied(os, fs, cs, ss, d) /\ settlements = ss /\ fills = FillsBut(fs, d)
      BY <1>1, <1>2, <2>2, <2>3 DEF Steady, Following
    <3>2. QED
      BY <1>1, <2>1, <3>1, CloseOutNever
  <2>4. QED
    BY <1>3, <2>2, <2>3
<1>10. CASE CloseOutDone
  <2>1. CloseOutDoneDoes
    BY <1>10, CloseOutDoneEffect
  <2>2. /\ Steady /\ tx.phase = "closeout" /\ tx'.phase = "fill" /\ credits' = credits
        /\ orders' = orders /\ fills' = fills /\ settlements' = settlements
    BY <2>1 DEF CloseOutDoneDoes
  <2>3. ASSUME tx.rerun, ~changed PROVE FollowedOn(os, fs, cs, ss, d)
    <3>1. /\ Copied(os, fs, cs, ss, d) /\ settlements = ss /\ AsOrdered(os, orders, d) /\ d \in Nat
          /\ fills = FillsBut(fs, d) /\ orders = ClearedOf(os, fills, d)
          /\ Repeatable(Data, os, ss, d) => credits = cs
      BY <1>1, <1>2, <2>2, <2>3 DEF Steady, Following
    <3>2. FollowedSells(Data, orders, fills, tx'.todo, tx'.buys, fs, d)
      BY <1>1, <2>1, <3>1, LookUpFollows
    <3>3. QED
      BY <2>2, <3>1, <3>2 DEF FollowedOn
  <2>4. QED
    BY <1>3, <2>2, <2>3
<1>11. ASSUME NEW i \in DOMAIN orders, FillSell(i) PROVE FollowInv'
  <2>1. SellDoes(i)
    BY <1>11, SellEffect
  <2>2. /\ Steady /\ tx.phase = "fill" /\ tx'.phase = "fill" /\ credits' = credits
        /\ settlements' = settlements /\ Touched(i) /\ i \in TodoSells
    BY <2>1 DEF SellDoes
  <2>3. Selling /\ i \in Pending(orders)
    BY <2>2 DEF PlanInv, Planning, Steady, BooksInv, TodoDue, Todo, TodoSells
  <2>4. ASSUME tx.rerun, ~changed PROVE FollowedOn(os, fs, cs, ss, d)
    <3>1. /\ Copied(os, fs, cs, settlements, d) /\ settlements = ss /\ AsOrdered(os, orders, d)
          /\ d \in Nat
          /\ Repeatable(Data, os, ss, d) =>
                credits = cs /\ FollowedSells(Data, orders, fills, tx.todo, tx.buys, fs, d)
      BY <1>1, <1>2, <2>2, <2>4 DEF Steady, Following
    <3>2. ASSUME FollowedSells(Data, orders, fills, tx.todo, tx.buys, fs, d)
          PROVE  FollowedSells(Data, orders', fills', tx'.todo, tx'.buys, fs, d)
      BY <1>1, <2>1, <2>3, <3>1, <3>2, SellFollows
    <3>3. AsOrdered(os, orders', d)
      BY <1>4, <2>2, <2>3, <3>1
    <3>4. QED
      BY <2>2, <3>1, <3>2, <3>3 DEF FollowedOn
  <2>5. QED
    BY <1>3, <2>2, <2>4
<1>12. ASSUME NEW i \in DOMAIN orders, AttemptBuy(i) PROVE FollowInv'
  <2>1. AttemptDoes(i)
    BY <1>12, AttemptEffect
  <2>2. /\ Steady /\ tx.phase = "fill" /\ tx'.phase = "fill" /\ credits' = credits
        /\ settlements' = settlements /\ Touched(i) /\ i \in tx.todo
    BY <2>1 DEF AttemptDoes
  <2>3. i \in Pending(orders)
    BY <2>2 DEF BooksInv, TodoDue, Todo
  <2>4. ASSUME tx.rerun, ~changed PROVE FollowedOn(os, fs, cs, ss, d)
    <3>1. /\ Copied(os, fs, cs, ss, d) /\ settlements = ss /\ AsOrdered(os, orders, d) /\ d \in Nat
          /\ Repeatable(Data, os, ss, d) =>
                credits = cs /\ FollowedSells(Data, orders, fills, tx.todo, tx.buys, fs, d)
      BY <1>1, <1>2, <2>2, <2>4 DEF Steady, Following
    <3>2. ASSUME FollowedSells(Data, orders, fills, tx.todo, tx.buys, fs, d)
          PROVE  FollowedSells(Data, orders', fills', tx'.todo, tx'.buys, fs, d)
      BY <1>1, <2>1, <3>1, <3>2, AttemptFollows
    <3>3. AsOrdered(os, orders', d)
      BY <1>4, <2>2, <2>3, <3>1
    <3>4. QED
      BY <2>2, <3>1, <3>2, <3>3 DEF FollowedOn
  <2>5. QED
    BY <1>3, <2>2, <2>4
<1>13. CASE SizeBuys
  <2>1. SizeDoes
    BY <1>13, SizeEffect
  <2>2. /\ Steady /\ tx.phase = "fill" /\ tx'.phase = "buy" /\ credits' = credits
        /\ settlements' = settlements /\ orders' = orders
    BY <2>1 DEF SizeDoes
  <2>3. ASSUME tx.rerun, ~changed PROVE FollowedOn(os, fs, cs, ss, d)
    <3>1. /\ Copied(os, fs, cs, settlements, d) /\ settlements = ss /\ AsOrdered(os, orders, d)
          /\ d \in Nat
          /\ Repeatable(Data, os, ss, d) =>
                credits = cs /\ FollowedSells(Data, orders, fills, tx.todo, tx.buys, fs, d)
      BY <1>1, <1>2, <2>2, <2>3 DEF Steady, Following
    <3>2. ASSUME credits = cs, FollowedSells(Data, orders, fills, tx.todo, tx.buys, fs, d)
          PROVE  /\ FollowedBuys(fills', tx'.buys, fs, d)
                 /\ tx'.wanted = Bids(Data, os, Bidders(fs, d), d)
                 /\ tx'.budget = Money(BeforeBuys(fs, d), cs, settlements, LastDay + 1)
      BY <1>1, <2>1, <3>1, <3>2, SizeFollows
    <3>3. QED
      BY <2>2, <3>1, <3>2 DEF FollowedOn
  <2>4. QED
    BY <1>3, <2>2, <2>3
<1>14. ASSUME NEW i \in DOMAIN orders, FillBuy(i) PROVE FollowInv'
  <2>1. BuyDoes(i)
    BY <1>14, BuyEffect
  <2>2. /\ Steady /\ tx.phase = "buy" /\ tx'.phase = "buy" /\ credits' = credits
        /\ settlements' = settlements /\ Touched(i) /\ i \in tx.buys
        /\ tx'.wanted = tx.wanted /\ tx'.budget = tx.budget
    BY <2>1 DEF BuyDoes
  <2>3. Buying /\ i \in Pending(orders)
    BY <2>2 DEF PlanInv, Planning, Steady, BooksInv, TodoDue, Todo
  <2>4. ASSUME tx.rerun, ~changed PROVE FollowedOn(os, fs, cs, ss, d)
    <3>1. /\ Copied(os, fs, cs, settlements, d) /\ settlements = ss /\ AsOrdered(os, orders, d)
          /\ d \in Nat
      BY <1>1, <1>2, <2>2, <2>4 DEF Steady, Following
    <3>2. Repeatable(Data, os, ss, d) =>
             /\ credits = cs /\ FollowedBuys(fills, tx.buys, fs, d)
             /\ tx.wanted = Bids(Data, os, Bidders(fs, d), d)
             /\ tx.budget = Money(BeforeBuys(fs, d), cs, ss, LastDay + 1)
      BY <1>1, <1>2, <2>2, <2>4 DEF Steady, Following
    <3>3. ASSUME Repeatable(Data, os, ss, d) PROVE FollowedBuys(fills', tx'.buys, fs, d)
      <4>1. Unrefused(os, d)
        BY <3>3 DEF Repeatable
      <4>2. /\ credits = cs /\ FollowedBuys(fills, tx.buys, fs, d)
            /\ tx.wanted = Bids(Data, os, Bidders(fs, d), d)
            /\ tx.budget = Money(BeforeBuys(fs, d), cs, settlements, LastDay + 1)
        BY <3>1, <3>2, <3>3
      <4>3. QED
        BY <1>1, <2>1, <2>3, <3>1, <4>1, <4>2, BuyFollows
    <3>4. AsOrdered(os, orders', d)
      BY <1>4, <2>2, <2>3, <3>1
    <3>5. QED
      BY <2>2, <3>1, <3>2, <3>3, <3>4 DEF FollowedOn
  <2>5. QED
    BY <1>3, <2>2, <2>4
<1>15. CASE MarkToMarket
  <2>1. MarkDoes
    BY <1>15, MarkEffect
  <2>2. /\ Steady /\ tx.phase = "buy" /\ tx'.phase = "generate" /\ tx.buys = {} /\ credits' = credits
        /\ settlements' = settlements /\ orders' = orders /\ fills' = fills
    BY <2>1 DEF MarkDoes
  <2>3. ASSUME tx.rerun, ~changed PROVE FollowedOn(os, fs, cs, ss, d)
    <3>1. /\ settlements = ss /\ AsOrdered(os, orders, d)
          /\ Repeatable(Data, os, ss, d) => credits = cs /\ FollowedBuys(fills, tx.buys, fs, d)
      BY <1>1, <1>2, <2>2, <2>3 DEF Steady, Following
    <3>2. FollowedBuys(fills, tx.buys, fs, d) => fills = fs
      BY <2>2 DEF FollowedBuys
    <3>3. QED
      BY <2>2, <3>1, <3>2 DEF FollowedOn
  <2>4. QED
    BY <1>3, <2>2, <2>3
<1>16. ASSUME NEW x \in Signals, GenerateOrder(x) PROVE FollowInv'
  <2>1. GenerateDoes
    BY <1>16, GenerateEffect
  <2>2. /\ Steady /\ tx.phase = "generate" /\ tx'.phase = "generate" /\ credits' = credits
        /\ settlements' = settlements /\ fills' = fills
        /\ DOMAIN orders \subseteq DOMAIN orders' /\ \A i \in DOMAIN orders : orders'[i] = orders[i]
    BY <2>1 DEF GenerateDoes
  <2>3. ASSUME tx.rerun, ~changed PROVE FollowedOn(os, fs, cs, ss, d)
    <3>1. /\ settlements = ss /\ AsOrdered(os, orders, d)
          /\ Repeatable(Data, os, ss, d) => credits = cs /\ fills = fs
      BY <1>1, <1>2, <2>2, <2>3 DEF Steady, Following
    <3>2. AsOrdered(os, orders', d)
      BY <2>2, <3>1 DEF AsOrdered
    <3>3. QED
      BY <2>2, <3>1, <3>2 DEF FollowedOn
  <2>4. QED
    BY <1>3, <2>2, <2>3
<1>17. CASE Commit \/ Rollback
  <2>1. tx' = Idle
    BY <1>17 DEF Commit, Rollback
  <2>2. QED
    BY <1>0, <2>1 DEF FollowInv
<1>18. QED
  BY <1>5, <1>6, <1>7, <1>8, <1>9, <1>10, <1>11, <1>12, <1>13, <1>14, <1>15, <1>16, <1>17 DEF Next

\* The inductive invariant of the rerun: why an order stands where it stands,
\* what a step makes of the session it last stepped, and how a rerun follows
\* the session it deletes.
RerunInv == ReasonsInv /\ PlanInv /\ FollowInv

LEMMA RerunInit == ASSUME Init PROVE RerunInv /\ HonestInv
<1>1. tx = Idle /\ DOMAIN orders = {} /\ equity = {} /\ fills = {}
  BY DEF Init
<1>2. QED
  BY <1>1 DEF RerunInv, ReasonsInv, Reasoned, PlanInv, FollowInv, HonestInv, HonestIn

\* Over every behaviour of a book that steps its sessions in order and settles
\* names up to its last step, step() of the last session is a function of the
\* data and of the rows its rerun keeps.
THEOREM RerunSound ==
  ASSUME ~Backdated, ~SettleAhead
  PROVE  Spec => [](RerunInv /\ HonestInv)
<1>1. Init => RerunInv /\ HonestInv
  BY RerunInit
<1>2. BooksInv /\ WaitingInv /\ LedgerInv /\ HonestInv /\ RerunInv /\ [Next]_vars
         => RerunInv' /\ HonestInv'
  BY ReasonsStep, PlanStep, FollowStep, HonestStep DEF RerunInv
<1>3. QED
  BY <1>1, <1>2, LedgerSound, PTL DEF Spec

\* step(), --rerun, in such a book: over unchanged data a rerun of the last
\* session gives back its fills, its cash and its positions, for every set of
\* names, bars, orders, dividends and terms, unless an order was refused for
\* want of cash or the session is an ex-date of a name closed out as delisted.
THEOREM RerunsReproduce ==
  ASSUME ~Backdated, ~SettleAhead
  PROVE  Spec => []RerunReproduces
<1>1. BooksInv /\ LedgerInv /\ RerunInv => RerunReproduces
  <2> SUFFICES ASSUME BooksInv, LedgerInv, RerunInv, tx.phase = "generate", tx.rerun, ~changed,
                      \A i \in DOMAIN orders : orders[i].reason # "insufficient_cash",
                      \A x \in settlements : x.auto => <<x.ticker, tx.day>> \notin published
               PROVE  Reproduced
    BY DEF RerunReproduces
  <2>1. tx # Idle
    BY DEF Idle
  <2>2. PICK s, d : s = tx.saved /\ d = tx.day
    OBVIOUS
  <2>3. Following(s, d)
    BY <2>1, <2>2 DEF RerunInv, FollowInv
  <2>4. settlements = s.settlements /\ AsOrdered(s.orders, orders, d)
    BY <2>3 DEF Following
  <2>5. Unrefused(s.orders, d)
    BY <2>4 DEF AsOrdered, Unrefused
  <2>6. Repeatable(Data, s.orders, s.settlements, d)
    BY <2>2, <2>4, <2>5 DEF Repeatable, Data
  <2>7. fills = s.fills /\ credits = s.credits
    BY <2>3, <2>6 DEF Following
  <2>8. /\ Balanced(s.fills, s.credits, s.settlements, s.cash, s.pos)
        /\ Balanced(fills, credits, settlements, cash, pos)
    BY <2>1, <2>2 DEF LedgerInv, LedgerInTx, Ledger
  <2>9. cash = s.cash /\ pos = s.pos
    BY <2>4, <2>7, <2>8 DEF Balanced
  <2>10. QED
    BY <2>2, <2>7, <2>9 DEF Reproduced
<1>2. QED
  BY <1>1, LedgerSound, RerunSound, PTL
=============================================================================

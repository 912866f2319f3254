------------------------ MODULE AccountEngineProofs ------------------------
(*****************************************************************************)
(* Theorems about AccountEngine, for every set of accounts and names, every  *)
(* number of sessions and orders, and every volume limit: the stored fills   *)
(* replay into the cached positions (LedgerReplays), the accounts together   *)
(* stay within a session's volume (AggregateLiquidity), and an account that  *)
(* is halted or retiring only shrinks (OnlyShrinks).                         *)
(*                                                                           *)
(* The heart is the fold of one account (fold_account): FoldInv says what    *)
(* holds once a first part of its due events has been applied, and is        *)
(* proved for all of them by induction on their number, the latest event     *)
(* last.  Every other action leaves the fills alone (Grows) and carries a    *)
(* GoodBook to a GoodBook.  AccountInv is the inductive invariant.           *)
(*****************************************************************************)
EXTENDS AccountEngine, SumTheorems, FunctionTheorems

\* The states and the type of an order.
States == {"queued", "filled", "rejected", "cancelled"}
OrderType == [acct : Accounts, ticker : Tickers, side : Sides, qty : Nat, type : Types,
              session : Int, timely : BOOLEAN, reason : Reasons, parent : Nat,
              state : States, filled : Nat]

\* A fill is no larger than its order, forced closes close, parents exist.
SoundOrder(o, n) ==
    /\ o.filled <= o.qty
    /\ (o.filled > 0) <=> (o.state = "filled")
    /\ IsForced(o) => o.side \in Closing
    /\ o.parent <= n

\* The inductive invariant: typed and sound orders, fills of closed sessions
\* only, retired accounts flat, and the two properties of the fills.
AccountInv ==
    /\ TypeOK
    /\ orders \in Seq(OrderType)
    /\ \A i \in Ids : /\ SoundOrder(orders[i], Len(orders))
                      /\ orders[i].filled > 0 => ExecDay(orders[i]) <= LastClosed
    /\ \A a \in Accounts : status[a] = "retired" => Flat(pos[a])
    /\ LedgerReplays
    /\ AggregateLiquidity

-----------------------------------------------------------------------------
(* Orders and books.                                                       *)

\* Two versions of one order: what was ordered is the same.
Same(o, p) == /\ p.acct = o.acct /\ p.ticker = o.ticker /\ p.side = o.side /\ p.qty = o.qty
              /\ p.type = o.type /\ p.session = o.session /\ p.timely = o.timely
              /\ p.reason = o.reason /\ p.parent = o.parent

\* What is computed from an order is an integer, and the same for each of its
\* versions.
LEMMA OrderFacts ==
  ASSUME NEW o \in OrderType
  PROVE  /\ ExecDay(o) \in Int /\ Effective(o) \in Int
         /\ Direction(o.side) \in {-1, 1} /\ Signed(o) \in Int
         /\ o.filled = 0 => Signed(o) = 0
BY DEF OrderType, ExecDay, Effective, Direction, Signed

\* What an order is due for, and how it is attempted, do not depend on its state.
LEMMA SameFacts ==
  ASSUME NEW o, NEW p, Same(o, p)
  PROVE  /\ ExecDay(p) = ExecDay(o) /\ Effective(p) = Effective(o)
         /\ Attempt(p) = Attempt(o) /\ IsForced(p) = IsForced(o)
         /\ Direction(p.side) = Direction(o.side)
         /\ p.filled = o.filled => Signed(p) = Signed(o)
BY DEF Same, ExecDay, Effective, Attempt, IsForced, Direction, Signed

\* A set of order ids is finite.
LEMMA FinitePart == ASSUME NEW n \in Nat, NEW T \in SUBSET (1 .. n) PROVE IsFiniteSet(T)
<1>1. IsFiniteSet(1 .. n)
  BY FS_Interval
<1>2. QED
  BY <1>1, FS_Subset

\* The shares traded depend on the fills of the account and name alone.
LEMMA SharesPart ==
  ASSUME NEW m \in Nat, NEW n \in Nat,
         NEW b \in [1 .. m -> OrderType], NEW c \in [1 .. n -> OrderType],
         NEW S \in SUBSET (1 .. m), NEW R \in SUBSET (1 .. n), S \subseteq R,
         NEW a, NEW t,
         \A i \in S : Same(b[i], c[i]) /\ (b[i].acct = a => c[i].filled = b[i].filled),
         \A i \in R \ S : c[i].acct = a => c[i].filled = 0
  PROVE  Shares(b, a, t, S) = Shares(c, a, t, R)
<1> DEFINE f == [i \in DOMAIN b |-> Signed(b[i])]
           g == [i \in DOMAIN c |-> Signed(c[i])]
           T == {i \in S : b[i].acct = a /\ b[i].ticker = t}
           U == {i \in R : c[i].acct = a /\ c[i].ticker = t}
<1>1. IsFiniteSet(U)
  <2>1. U \in SUBSET (1 .. n)
    OBVIOUS
  <2> HIDE DEF U
  <2>2. QED
    BY <2>1, FinitePart
<1>2. T \in SUBSET U
  BY DEF Same
<1>3. ASSUME NEW i \in T PROVE f[i] \in Int /\ g[i] = f[i]
  <2>1. i \in S /\ i \in 1 .. m /\ i \in 1 .. n /\ b[i].acct = a
    OBVIOUS
  <2>2. f[i] = Signed(b[i]) /\ g[i] = Signed(c[i])
    BY <2>1
  <2>3. b[i] \in OrderType /\ Same(b[i], c[i]) /\ c[i].filled = b[i].filled
    BY <2>1
  <2>4. QED
    BY <2>2, <2>3, OrderFacts, SameFacts
<1>4. ASSUME NEW i \in U \ T PROVE g[i] = 0
  <2>1. i \in R /\ i \in 1 .. n /\ c[i].acct = a /\ c[i].ticker = t
    OBVIOUS
  <2>2. i \notin S
    BY <2>1 DEF Same
  <2>3. c[i] \in OrderType /\ c[i].filled = 0 /\ g[i] = Signed(c[i])
    BY <2>1, <2>2
  <2>4. QED
    BY <2>3, OrderFacts
<1>5. SumOver(f, T) = SumOver(g, U)
  <2> HIDE DEF f, g, T, U
  <2>1. QED
    BY <1>1, <1>2, <1>3, <1>4, SumPart
<1>6. QED
  BY <1>5 DEF Shares

\* Shares traded are a whole number.
LEMMA SharesInt ==
  ASSUME NEW n \in Nat, NEW b \in [1 .. n -> OrderType], NEW S \in SUBSET (1 .. n), NEW a, NEW t
  PROVE  Shares(b, a, t, S) \in Int
<1> DEFINE f == [i \in DOMAIN b |-> Signed(b[i])]
           T == {i \in S : b[i].acct = a /\ b[i].ticker = t}
<1>1. T \in SUBSET (1 .. n)
  OBVIOUS
<1>2. IsFiniteSet(T)
  <2> HIDE DEF T
  <2>1. QED
    BY <1>1, FinitePart
<1>3. \A i \in T : f[i] \in Int
  BY OrderFacts
<1>4. SumOver(f, T) \in Int
  <2> HIDE DEF f, T
  <2>1. QED
    BY <1>2, <1>3, SumInt
<1>5. QED
  BY <1>4 DEF Shares

\* No orders, no shares.
LEMMA SharesNone ==
  ASSUME NEW b, NEW a, NEW t
  PROVE  Shares(b, a, t, {}) = 0
<1>1. {i \in {} : b[i].acct = a /\ b[i].ticker = t} = {}
  OBVIOUS
<1>2. QED
  BY <1>1, SumNone DEF Shares

\* One order more adds its fill.
LEMMA SharesAdd ==
  ASSUME NEW n \in Nat, NEW b \in [1 .. n -> OrderType], NEW S \in SUBSET (1 .. n),
         NEW R \in SUBSET (1 .. n), NEW k \in R, NEW a, NEW t, k \notin S, S \subseteq R,
         \A i \in R : i \in S \/ i = k, \A i \in R : b[i].acct = a
  PROVE  /\ b[k].ticker = t => Shares(b, a, t, R) = Shares(b, a, t, S) + Signed(b[k])
         /\ b[k].ticker # t => Shares(b, a, t, R) = Shares(b, a, t, S)
<1> DEFINE f == [i \in DOMAIN b |-> Signed(b[i])]
           T == {i \in S : b[i].acct = a /\ b[i].ticker = t}
           U == {i \in R : b[i].acct = a /\ b[i].ticker = t}
<1>1. T \in SUBSET (1 .. n)
  OBVIOUS
<1>2. IsFiniteSet(T)
  <2> HIDE DEF T
  <2>1. QED
    BY <1>1, FinitePart
<1>3. \A i \in U : f[i] \in Int
  BY OrderFacts
<1>4. f[k] = Signed(b[k]) /\ k \notin T /\ SumOver(f, T) = Shares(b, a, t, S)
      /\ SumOver(f, U) = Shares(b, a, t, R)
  BY DEF Shares
<1>5. CASE b[k].ticker = t
  <2>1. U = T \cup {k}
    BY <1>5
  <2>2. SumOver(f, T \cup {k}) = SumOver(f, T) + f[k]
    <3> HIDE DEF f, T, U
    <3>1. QED
      BY <1>2, <1>3, <1>4, <2>1, SumAdd
  <2>3. QED
    BY <1>4, <1>5, <2>1, <2>2
<1>6. CASE b[k].ticker # t
  <2>1. U = T
    BY <1>6
  <2>2. Shares(b, a, t, S) \in Int
    BY SharesInt
  <2>3. Shares(b, a, t, R) = Shares(b, a, t, S)
    BY <1>4, <2>1
  <2>4. QED
    BY <1>6, <2>2, <2>3
<1>7. QED
  BY <1>5, <1>6

\* A book that only gains orders without fills.
Grows(b, c) ==
    /\ Len(b) <= Len(c)
    /\ \A i \in 1 .. Len(b) : Same(b[i], c[i]) /\ c[i].filled = b[i].filled
    /\ \A i \in 1 .. Len(c) : i > Len(b) => c[i].filled = 0

\* A step that leaves the fills alone trades no volume.
LEMMA GrowsTraded ==
  ASSUME NEW b \in Seq(OrderType), NEW c \in Seq(OrderType), Grows(b, c),
         NEW t, NEW d, NEW way
  PROVE  Traded(c, t, d, way) = Traded(b, t, d, way)
<1> DEFINE f == [i \in DOMAIN b |-> b[i].filled]
           g == [i \in DOMAIN c |-> c[i].filled]
           T == Flow(b, t, d, way)
           U == Flow(c, t, d, way)
<1>0. /\ Len(b) \in Nat /\ Len(c) \in Nat /\ DOMAIN b = 1 .. Len(b) /\ DOMAIN c = 1 .. Len(c)
      /\ \A i \in 1 .. Len(b) : b[i] \in OrderType
      /\ \A i \in 1 .. Len(c) : c[i] \in OrderType
  OBVIOUS
<1>1. IsFiniteSet(U)
  <2>1. U \subseteq 1 .. Len(c) /\ IsFiniteSet(1 .. Len(c))
    BY <1>0, FS_Interval DEF Flow
  <2>2. QED
    BY <2>1, FS_Subset
<1>2. \A i \in 1 .. Len(b) : /\ i \in 1 .. Len(c) /\ ExecDay(c[i]) = ExecDay(b[i])
                             /\ c[i].ticker = b[i].ticker
                             /\ Direction(c[i].side) = Direction(b[i].side)
  <2> SUFFICES ASSUME NEW i \in 1 .. Len(b)
               PROVE  /\ i \in 1 .. Len(c) /\ ExecDay(c[i]) = ExecDay(b[i])
                      /\ c[i].ticker = b[i].ticker
                      /\ Direction(c[i].side) = Direction(b[i].side)
    OBVIOUS
  <2>1. i \in 1 .. Len(c) /\ Same(b[i], c[i])
    BY <1>0 DEF Grows
  <2>2. QED
    BY <2>1, SameFacts DEF Same
<1>3. T \in SUBSET U
  BY <1>0, <1>2 DEF Flow
<1>4. ASSUME NEW i \in T PROVE f[i] \in Int /\ g[i] = f[i]
  <2>1. i \in 1 .. Len(b) /\ i \in 1 .. Len(c)
    BY <1>0, <1>2 DEF Flow
  <2>2. c[i].filled = b[i].filled /\ b[i].filled \in Nat
    BY <1>0, <2>1 DEF Grows, OrderType
  <2>3. QED
    BY <1>0, <2>1, <2>2
<1>5. ASSUME NEW i \in U \ T PROVE g[i] = 0
  <2>1. i \in 1 .. Len(c) /\ i \notin 1 .. Len(b)
    BY <1>0, <1>2 DEF Flow
  <2>2. c[i].filled = 0
    BY <1>0, <2>1 DEF Grows
  <2>3. QED
    BY <1>0, <2>1, <2>2
<1>6. SumOver(f, T) = SumOver(g, U)
  <2> HIDE DEF f, g, T, U
  <2>1. QED
    BY <1>1, <1>3, <1>4, <1>5, SumPart
<1>7. QED
  BY <1>6 DEF Traded

\* The place of an order among the others is the same.
LEMMA SameBefore ==
  ASSUME NEW b, NEW c, NEW i, NEW j, Same(b[i], c[i]), Same(b[j], c[j])
  PROVE  Before(c, i, j) = Before(b, i, j)
<1>1. Effective(c[i]) = Effective(b[i]) /\ Effective(c[j]) = Effective(b[j])
  BY SameFacts
<1>2. QED
  BY <1>1 DEF Before

\* Such a step moves no shares of any account,
LEMMA GrowsShares ==
  ASSUME NEW b \in Seq(OrderType), NEW c \in Seq(OrderType), Grows(b, c), NEW a, NEW t
  PROVE  Shares(c, a, t, 1 .. Len(c)) = Shares(b, a, t, 1 .. Len(b))
<1>0. /\ Len(b) \in Nat /\ Len(c) \in Nat /\ DOMAIN b = 1 .. Len(b) /\ DOMAIN c = 1 .. Len(c)
      /\ b \in [1 .. Len(b) -> OrderType] /\ c \in [1 .. Len(c) -> OrderType]
  OBVIOUS
<1>1. /\ 1 .. Len(b) \subseteq 1 .. Len(c)
      /\ \A i \in 1 .. Len(b) : Same(b[i], c[i]) /\ c[i].filled = b[i].filled
      /\ \A i \in 1 .. Len(c) : i \notin 1 .. Len(b) => c[i].filled = 0
  BY <1>0 DEF Grows
<1>2. Shares(c, a, t, 1 .. Len(c)) = Shares(b, a, t, 1 .. Len(b))
  <2> DEFINE S == 1 .. Len(b)
             R == 1 .. Len(c)
  <2>1. \A i \in R \ S : c[i].acct = a => c[i].filled = 0
    BY <1>1
  <2>2. \A i \in S : Same(b[i], c[i]) /\ (b[i].acct = a => c[i].filled = b[i].filled)
    BY <1>1
  <2>3. S \in SUBSET (1 .. Len(b)) /\ R \in SUBSET (1 .. Len(c)) /\ S \subseteq R
    BY <1>1
  <2>4. Shares(b, a, t, S) = Shares(c, a, t, R)
    <3> HIDE DEF S, R
    <3>1. QED
      BY <1>0, <2>1, <2>2, <2>3, SharesPart
  <2>5. QED
    BY <2>4
<1>3. QED
  BY <1>2

\* nor of those that come before an order.
LEMMA GrowsEarlier ==
  ASSUME NEW b \in Seq(OrderType), NEW c \in Seq(OrderType), Grows(b, c), NEW a, NEW t,
         NEW k \in 1 .. Len(b)
  PROVE  Shares(c, a, t, Earlier(c, k)) = Shares(b, a, t, Earlier(b, k))
<1>0. /\ Len(b) \in Nat /\ Len(c) \in Nat /\ DOMAIN b = 1 .. Len(b) /\ DOMAIN c = 1 .. Len(c)
      /\ b \in [1 .. Len(b) -> OrderType] /\ c \in [1 .. Len(c) -> OrderType]
  OBVIOUS
<1>1. /\ 1 .. Len(b) \subseteq 1 .. Len(c)
      /\ \A i \in 1 .. Len(b) : Same(b[i], c[i]) /\ c[i].filled = b[i].filled
      /\ \A i \in 1 .. Len(c) : i \notin 1 .. Len(b) => c[i].filled = 0
  BY <1>0 DEF Grows
<1>2. \A i \in 1 .. Len(b) : Before(c, i, k) = Before(b, i, k)
  BY <1>1, SameBefore
<1>3. Earlier(b, k) \in SUBSET (1 .. Len(b)) /\ Earlier(c, k) \in SUBSET (1 .. Len(c))
      /\ Earlier(b, k) \subseteq Earlier(c, k)
  BY <1>0, <1>1, <1>2 DEF Earlier
<1>4. \A i \in Earlier(c, k) \ Earlier(b, k) : c[i].acct = a => c[i].filled = 0
  BY <1>0, <1>1, <1>2 DEF Earlier
<1>5. \A i \in Earlier(b, k) : Same(b[i], c[i]) /\ (b[i].acct = a => c[i].filled = b[i].filled)
  BY <1>1, <1>3
<1> DEFINE S == Earlier(b, k)
           R == Earlier(c, k)
<1> HIDE DEF S, R
<1>6. S \in SUBSET (1 .. Len(b)) /\ R \in SUBSET (1 .. Len(c)) /\ S \subseteq R
  BY <1>3 DEF S, R
<1>7. \A i \in R \ S : c[i].acct = a => c[i].filled = 0
  BY <1>4 DEF S, R
<1>8. \A i \in S : Same(b[i], c[i]) /\ (b[i].acct = a => c[i].filled = b[i].filled)
  BY <1>5 DEF S, R
<1>9. Shares(b, a, t, S) = Shares(c, a, t, R)
  BY <1>0, <1>6, <1>7, <1>8, SharesPart
<1>10. QED
  BY <1>9 DEF S, R

-----------------------------------------------------------------------------
(* The liquidity of a session.                                             *)

\* What a book has traded is a natural number.
LEMMA TradedNat ==
  ASSUME NEW b \in Seq(OrderType), NEW t, NEW d, NEW way
  PROVE  Traded(b, t, d, way) \in Nat
<1> DEFINE f == [i \in DOMAIN b |-> b[i].filled]
           T == Flow(b, t, d, way)
<1>1. T \in SUBSET (1 .. Len(b)) /\ Len(b) \in Nat /\ DOMAIN b = 1 .. Len(b)
      /\ \A i \in 1 .. Len(b) : b[i] \in OrderType
  BY DEF Flow
<1>2. \A i \in T : f[i] \in Nat
  BY <1>1 DEF OrderType
<1>3. SumOver(f, T) \in Nat
  <2> HIDE DEF f, T
  <2>1. IsFiniteSet(T)
    BY <1>1, FinitePart
  <2>2. QED
    BY <1>2, <2>1, SumNat
<1>4. QED
  BY <1>3 DEF Traded

\* What order n takes of the session when u shares are used up.
Takes(n, u, t, d, way) ==
    IF n \in Takers(t, d, way) /\ u + orders[n].qty <= Cap THEN orders[n].qty ELSE 0
UsedUpTo(f, m, t, d, way) ==
    f = [n \in 0 .. m |-> IF n = 0 THEN Existing(t, d, way)
                          ELSE f[n - 1] + Takes(n, f[n - 1], t, d, way)]

\* An order takes a whole number of shares of the volume.
LEMMA TakesNat ==
  ASSUME orders \in Seq(OrderType), NEW n \in Ids, NEW u \in Nat, NEW t, NEW d, NEW way
  PROVE  Takes(n, u, t, d, way) \in Nat
<1>1. orders[n] \in OrderType
  BY DEF Ids
<1>2. orders[n].qty \in Nat
  BY <1>1 DEF OrderType
<1>3. QED
  BY <1>2 DEF Takes

\* The recursion of Used is defined up to every order.
LEMMA UsedExists ==
  ASSUME orders \in Seq(OrderType), NEW t, NEW d, NEW way
  PROVE  \A m \in 0 .. Len(orders) : \E f \in [0 .. m -> Nat] : UsedUpTo(f, m, t, d, way)
<1> DEFINE P(m) == \E f \in [0 .. m -> Nat] : UsedUpTo(f, m, t, d, way)
           S == {m \in 0 .. Len(orders) : P(m)}
           e == Existing(t, d, way)
           Q(n, u) == Takes(n, u, t, d, way)
<1>0. Len(orders) \in Nat /\ e \in Nat
  BY TradedNat DEF Existing
<1>q. \A n \in 1 .. Len(orders), u \in Nat : Q(n, u) \in Nat
  BY TakesNat DEF Ids
<1>u. \A f, m : UsedUpTo(f, m, t, d, way) <=>
                f = [n \in 0 .. m |-> IF n = 0 THEN e ELSE f[n - 1] + Q(n, f[n - 1])]
  BY DEF UsedUpTo
<1> HIDE DEF e, Q
<1>1. P(0)
  <2> DEFINE f == [n \in 0 .. 0 |-> e]
  <2>1. f \in [0 .. 0 -> Nat]
    BY <1>0
  <2>2. f = [n \in 0 .. 0 |-> IF n = 0 THEN e ELSE f[n - 1] + Q(n, f[n - 1])]
    OBVIOUS
  <2>3. QED
    BY <1>u, <2>1, <2>2
<1>2. ASSUME NEW m \in 1 .. Len(orders), P(m - 1)
      PROVE  P(m)
  <2>0. m \in Nat /\ m - 1 \in Nat /\ m # 0 /\ m - 1 # m /\ m - 1 \in 0 .. m /\ m \in 0 .. m
        /\ m - 1 \in 0 .. m - 1
    BY <1>0
  <2>1. PICK f \in [0 .. m - 1 -> Nat] : UsedUpTo(f, m - 1, t, d, way)
    BY <1>2
  <2>2. f = [n \in 0 .. m - 1 |-> IF n = 0 THEN e ELSE f[n - 1] + Q(n, f[n - 1])]
    BY <1>u, <2>1
  <2> DEFINE v == f[m - 1] + Q(m, f[m - 1])
             g == [n \in 0 .. m |-> IF n = m THEN v ELSE f[n]]
  <2>3. v \in Nat
    <3>1. f[m - 1] \in Nat
      BY <2>0
    <3>2. Q(m, f[m - 1]) \in Nat
      BY <1>q, <3>1
    <3>3. QED
      BY <3>1, <3>2
  <2>4. g[m] = v /\ g[m - 1] = f[m - 1] /\ \A n \in 0 .. m - 1 : g[n] = f[n]
    <3>1. \A n \in 0 .. m - 1 : n \in 0 .. m /\ n # m
      BY <2>0
    <3> HIDE DEF v
    <3>2. QED
      BY <2>0, <3>1
  <2>5. g \in [0 .. m -> Nat]
    <3>1. \A n \in 0 .. m : (IF n = m THEN v ELSE f[n]) \in Nat
      <4>1. \A n \in 0 .. m : n = m \/ n \in 0 .. m - 1
        BY <2>0
      <4> HIDE DEF v
      <4>2. QED
        BY <2>3, <4>1
    <3> HIDE DEF v
    <3>2. QED
      BY <3>1
  <2>6. DOMAIN g = 0 .. m /\ g = [n \in 0 .. m |-> g[n]]
    OBVIOUS
  <2>7. v = f[m - 1] + Q(m, f[m - 1])
    OBVIOUS
  <2> HIDE DEF g, v
  <2>8. ASSUME NEW n \in 0 .. m
        PROVE  g[n] = IF n = 0 THEN e ELSE g[n - 1] + Q(n, g[n - 1])
    <3>1. CASE n = m
      BY <2>0, <2>4, <2>7, <3>1
    <3>2. CASE n # m
      <4>1. n \in 0 .. m - 1 /\ (n # 0 => n - 1 \in 0 .. m - 1)
        BY <2>0, <3>2
      <4>2. f[n] = IF n = 0 THEN e ELSE f[n - 1] + Q(n, f[n - 1])
        BY <2>2, <4>1
      <4>3. QED
        BY <2>4, <4>1, <4>2
    <3>3. QED
      BY <3>1, <3>2
  <2>9. g = [n \in 0 .. m |-> IF n = 0 THEN e ELSE g[n - 1] + Q(n, g[n - 1])]
    BY <2>6, <2>8
  <2>10. UsedUpTo(g, m, t, d, way)
    BY <1>u, <2>9
  <2>11. QED
    BY <2>5, <2>10
<1> HIDE DEF P
<1>3. S = 0 .. Len(orders)
  <2>1. S \in SUBSET (0 .. Len(orders)) /\ 0 \in S
    BY <1>0, <1>1
  <2>2. \A i \in 1 .. Len(orders) : i - 1 \in S => i \in S
    BY <1>0, <1>2
  <2> HIDE DEF S
  <2>3. QED
    BY <1>0, <2>1, <2>2, Positions
<1>4. QED
  BY <1>3 DEF P

\* The turns of the takers, one after another.
LEMMA UsedMeans ==
  ASSUME orders \in Seq(OrderType), NEW t, NEW d, NEW way
  PROVE  /\ Used(t, d, way)[0] = Existing(t, d, way)
         /\ \A n \in Ids : Used(t, d, way)[n] =
               Used(t, d, way)[n - 1] + Takes(n, Used(t, d, way)[n - 1], t, d, way)
<1> DEFINE u == Used(t, d, way)
           m == Len(orders)
<1>0. m \in Nat /\ m \in 0 .. m
  OBVIOUS
<1>1. \E f : UsedUpTo(f, m, t, d, way)
  BY <1>0, UsedExists
<1>2. UsedUpTo(u, m, t, d, way)
  BY <1>1 DEF Used, UsedUpTo, Takes
<1> HIDE DEF u, m
<1>3. u = [n \in 0 .. m |-> IF n = 0 THEN Existing(t, d, way)
                            ELSE u[n - 1] + Takes(n, u[n - 1], t, d, way)]
  BY <1>2 DEF UsedUpTo
<1>4. u[0] = Existing(t, d, way)
  BY <1>0, <1>3
<1>5. ASSUME NEW n \in 1 .. m PROVE u[n] = u[n - 1] + Takes(n, u[n - 1], t, d, way)
  <2>1. n \in 0 .. m /\ n # 0
    BY <1>0
  <2>2. QED
    BY <1>3, <2>1
<1>6. QED
  BY <1>4, <1>5 DEF u, m, Ids

\* Order i may take its turn: it is attempted and is not refused.
Accepted(i) ==
    LET t == orders[i].ticker  d == ExecDay(orders[i])  way == Direction(orders[i].side)
    IN  i \in Takers(t, d, way) /\ i \notin LiquidityRefusals(t, d, way)

\* A book that gains fills of accepted orders only trades no more of a session
\* than its liquidity.
LEMMA TradedWithinCap ==
  ASSUME AccountAssumption, orders \in Seq(OrderType),
         NEW b \in [Ids -> OrderType],
         \A i \in Ids : Same(orders[i], b[i]) /\ b[i].filled <= b[i].qty,
         \A i \in Ids : \/ b[i].filled = orders[i].filled
                        \/ orders[i].filled = 0 /\ Accepted(i),
         NEW t, NEW d, NEW way, Traded(orders, t, d, way) <= Cap
  PROVE  Traded(b, t, d, way) <= Cap
<1> DEFINE m == Len(orders)
           X == Flow(orders, t, d, way)
           u == Used(t, d, way)
           e == Traded(orders, t, d, way)
           f == [i \in DOMAIN orders |-> orders[i].filled]
           h == [i \in DOMAIN b |-> b[i].filled]
           gain == [i \in Ids |-> b[i].filled - orders[i].filled]
           Up(n) == X \cap (1 .. n)
           P(n) == u[n] \in Nat /\ e + SumOver(gain, Up(n)) <= u[n] /\ u[n] <= Cap
           N == {n \in 0 .. m : P(n)}
<1>0. /\ m \in Nat /\ Ids = 1 .. m /\ DOMAIN orders = 1 .. m /\ DOMAIN b = 1 .. m
      /\ \A i \in 1 .. m : orders[i] \in OrderType /\ b[i] \in OrderType
      /\ X \in SUBSET (1 .. m) /\ Cap \in Nat
  BY DEF Ids, Flow, AccountAssumption
<1>1. e \in Nat
  BY TradedNat
<1>2. \A i \in 1 .. m : /\ b[i].filled \in Nat /\ orders[i].filled \in Nat
                        /\ b[i].qty = orders[i].qty /\ orders[i].qty \in Nat
  BY <1>0 DEF OrderType, Same
<1>3. \A i \in 1 .. m : gain[i] = b[i].filled - orders[i].filled /\ gain[i] \in Nat
  BY <1>0, <1>2
<1>4. u[0] = e /\ \A n \in 1 .. m : u[n] = u[n - 1] + Takes(n, u[n - 1], t, d, way)
  BY <1>0, UsedMeans DEF Existing
<1>5. ASSUME NEW n \in 1 .. m, n \in X, gain[n] # 0
      PROVE  n \in Takers(t, d, way) /\ ~ (u[n - 1] + orders[n].qty > Cap)
             /\ gain[n] <= orders[n].qty
  <2>1. Accepted(n) /\ orders[n].filled = 0
    BY <1>0, <1>2, <1>3, <1>5
  <2>2. orders[n].ticker = t /\ ExecDay(orders[n]) = d /\ Direction(orders[n].side) = way
    BY <1>5 DEF Flow
  <2>3. n \in Takers(t, d, way) /\ n \notin LiquidityRefusals(t, d, way)
    BY <2>1, <2>2 DEF Accepted
  <2>4. gain[n] <= orders[n].qty
    BY <1>0, <1>2, <1>3, <2>1
  <2>5. QED
    BY <2>3, <2>4 DEF LiquidityRefusals
<1>6. \A n \in 0 .. m : IsFiniteSet(Up(n)) /\ \A i \in Up(n) : gain[i] \in Int
  <2> SUFFICES ASSUME NEW n \in 0 .. m
               PROVE  IsFiniteSet(Up(n)) /\ \A i \in Up(n) : gain[i] \in Int
    OBVIOUS
  <2>1. Up(n) \in SUBSET (1 .. m)
    BY <1>0
  <2>2. \A i \in Up(n) : gain[i] \in Int
    <3> HIDE DEF Up, gain
    <3>1. QED
      BY <1>3, <2>1
  <2>3. m \in Nat
    BY <1>0
  <2> HIDE DEF Up, gain, m
  <2>4. IsFiniteSet(Up(n))
    BY <2>1, <2>3, FinitePart
  <2>5. QED
    BY <2>2, <2>4
<1>7. Traded(b, t, d, way) = e + SumOver(gain, Up(m))
  <2>1. X = Flow(b, t, d, way)
    <3>1. \A i \in 1 .. m : /\ b[i].ticker = orders[i].ticker /\ ExecDay(b[i]) = ExecDay(orders[i])
                            /\ Direction(b[i].side) = Direction(orders[i].side)
      BY <1>0, SameFacts DEF Same
    <3>2. QED
      BY <1>0, <3>1 DEF Flow
  <2>2. Up(m) = X
    BY <1>0
  <2>3. IsFiniteSet(X)
    <3>1. X \in SUBSET (1 .. m) /\ m \in Nat
      BY <1>0
    <3> HIDE DEF X, m
    <3>2. QED
      BY <3>1, FinitePart
  <2>4. \A i \in X : f[i] \in Int /\ gain[i] \in Int /\ h[i] = f[i] + gain[i]
    BY <1>0, <1>2, <1>3
  <2>5. SumOver(h, X) = SumOver(f, X) + SumOver(gain, X)
    <3> HIDE DEF f, gain, h, X
    <3>1. QED
      BY <2>3, <2>4, SumPlus
  <2>6. SumOver(h, X) = Traded(b, t, d, way) /\ SumOver(f, X) = e
    BY <2>1 DEF Traded
  <2>7. QED
    BY <2>2, <2>5, <2>6
<1> HIDE DEF gain, u, e, X
<1>8. P(0)
  <2>1. Up(0) = {}
    BY <1>0
  <2>2. SumOver(gain, {}) = 0
    BY SumNone
  <2>3. e <= Cap
    BY DEF e
  <2>4. QED
    BY <1>1, <1>4, <2>1, <2>2, <2>3
<1>9. ASSUME NEW n \in 1 .. m, P(n - 1) PROVE P(n)
  <2>0. n \in Nat /\ n - 1 \in 0 .. m /\ n \in 0 .. m
    BY <1>0
  <2> DEFINE s == SumOver(gain, Up(n - 1))
             k == Takes(n, u[n - 1], t, d, way)
  <2>1. s \in Int /\ u[n - 1] \in Nat /\ e + s <= u[n - 1] /\ u[n - 1] <= Cap
    <3>1. s \in Int
      BY <1>6, <2>0, SumInt
    <3>2. QED
      BY <1>9, <3>1
  <2>2. u[n] = u[n - 1] + k
    BY <1>4
  <2>3. k \in Nat /\ u[n - 1] + k <= Cap
    <3>1. orders[n].qty \in Nat
      BY <1>2
    <3>2. (k = orders[n].qty /\ u[n - 1] + orders[n].qty <= Cap) \/ k = 0
      BY DEF Takes
    <3> HIDE DEF k
    <3>3. QED
      BY <1>0, <2>1, <3>1, <3>2
  <2>4. SumOver(gain, Up(n)) \in Int /\ SumOver(gain, Up(n)) <= s + k
    <3>1. CASE n \in X
      <4>1. Up(n) = Up(n - 1) \cup {n} /\ n \notin Up(n - 1)
        BY <2>0, <3>1
      <4>2. SumOver(gain, Up(n - 1) \cup {n}) = SumOver(gain, Up(n - 1)) + gain[n]
        <5>1. \A i \in Up(n - 1) \cup {n} : gain[i] \in Int
          BY <1>6, <2>0, <4>1
        <5> HIDE DEF Up
        <5>2. QED
          BY <1>6, <2>0, <4>1, <5>1, SumAdd
      <4>3. gain[n] <= k
        <5>1. CASE gain[n] = 0
          BY <2>3, <5>1
        <5>2. CASE gain[n] # 0
          <6>1. n \in Takers(t, d, way) /\ ~ (u[n - 1] + orders[n].qty > Cap)
                /\ gain[n] <= orders[n].qty /\ orders[n].qty \in Nat
            BY <1>2, <1>5, <3>1, <5>2
          <6>2. u[n - 1] + orders[n].qty <= Cap
            BY <1>0, <2>1, <6>1
          <6>3. k = orders[n].qty
            BY <6>1, <6>2 DEF Takes
          <6>4. QED
            BY <6>1, <6>3
        <5>3. QED
          BY <5>1, <5>2
      <4>4. gain[n] \in Nat
        BY <1>3
      <4> HIDE DEF s, k, Up
      <4>5. QED
        BY <2>1, <2>3, <4>1, <4>2, <4>3, <4>4 DEF s
    <3>2. CASE n \notin X
      <4>1. Up(n) = Up(n - 1)
        BY <2>0, <3>2
      <4> HIDE DEF k, Up
      <4>2. QED
        BY <2>1, <2>3, <4>1
    <3>3. QED
      BY <3>1, <3>2
  <2> HIDE DEF s, k
  <2>5. QED
    BY <1>0, <1>1, <2>1, <2>2, <2>3, <2>4
<1>10. N = 0 .. m
  <2>1. N \in SUBSET (0 .. m) /\ 0 \in N
    BY <1>0, <1>8
  <2>2. \A i \in 1 .. m : i - 1 \in N => i \in N
    <3> HIDE DEF P
    <3>1. QED
      BY <1>0, <1>9
  <2> HIDE DEF N, P
  <2>3. QED
    BY <1>0, <2>1, <2>2, Positions
<1>11. P(m)
  <2>1. m \in N
    BY <1>0, <1>10
  <2> HIDE DEF P
  <2>2. QED
    BY <2>1
<1>12. SumOver(gain, Up(m)) \in Int
  <2>1. m \in 0 .. m
    BY <1>0
  <2> HIDE DEF Up
  <2>2. QED
    BY <1>6, <2>1, SumInt
<1>13. QED
  BY <1>0, <1>1, <1>7, <1>11, <1>12

-----------------------------------------------------------------------------
(* The order of the events and the fold over them.                         *)

\* Before is a strict total order of the orders.
LEMMA BeforeOrder ==
  ASSUME orders \in Seq(OrderType), NEW i \in Ids, NEW j \in Ids, NEW k \in Ids
  PROVE  /\ i # j => Before(orders, i, j) \/ Before(orders, j, i)
         /\ ~ (Before(orders, i, j) /\ Before(orders, j, i))
         /\ Before(orders, i, j) /\ Before(orders, j, k) => Before(orders, i, k)
<1>1. orders[i] \in OrderType /\ orders[j] \in OrderType /\ orders[k] \in OrderType
      /\ i \in Int /\ j \in Int /\ k \in Int
  BY DEF Ids
<1>2. Effective(orders[i]) \in Int /\ Effective(orders[j]) \in Int /\ Effective(orders[k]) \in Int
  BY <1>1, OrderFacts
<1>3. QED
  BY <1>1, <1>2 DEF Before

\* A book is finite.
LEMMA FiniteIds == ASSUME orders \in Seq(OrderType) PROVE IsFiniteSet(Ids)
<1>1. Ids \in SUBSET (1 .. Len(orders)) /\ Len(orders) \in Nat
  BY DEF Ids
<1>2. QED
  BY <1>1, FinitePart

\* Every nonempty set of orders has a latest one.
LEMMA LatestIs ==
  ASSUME orders \in Seq(OrderType), NEW S \in SUBSET Ids, S # {}
  PROVE  Latest(S) \in S /\ \A j \in S \ {Latest(S)} : Before(orders, j, Latest(S))
<1> DEFINE L(T) == \E i \in T : \A j \in T \ {i} : Before(orders, j, i)
           G == {T \in SUBSET Ids : T = {} \/ L(T)}
<1>1. {} \in G
  OBVIOUS
<1>2. ASSUME NEW T \in SUBSET Ids, T # {}, \A x \in T : T \ {x} \in G PROVE T \in G
  <2>1. PICK x \in T : TRUE
    BY <1>2
  <2>2. CASE T \ {x} = {}
    BY <2>1, <2>2
  <2>3. CASE T \ {x} # {}
    <3>1. L(T \ {x})
      BY <1>2, <2>1, <2>3
    <3>2. PICK i \in T \ {x} : \A j \in (T \ {x}) \ {i} : Before(orders, j, i)
      BY <3>1
    <3>3. x \in Ids /\ i \in Ids /\ i # x
      BY <3>2
    <3>4. CASE Before(orders, x, i)
      BY <3>2, <3>4
    <3>5. CASE Before(orders, i, x)
      <4>1. \A j \in T \ {x} : Before(orders, j, x)
        BY <3>2, <3>3, <3>5, BeforeOrder
      <4>2. QED
        BY <4>1
    <3>6. QED
      BY <3>3, <3>4, <3>5, BeforeOrder
  <2>4. QED
    BY <2>2, <2>3
<1>3. \A T \in SUBSET Ids : T \in G
  <2>1. IsFiniteSet(Ids)
    BY FiniteIds
  <2> HIDE DEF G
  <2>2. QED
    BY <1>1, <1>2, <2>1, Subsets
<1>4. L(S)
  BY <1>3
<1>5. QED
  BY <1>4 DEF Latest

\* The fold before its first event, and the fold as a function on a
\* collection D of sets of events.
Start == [book |-> orders, pos |-> [t \in Tickers |-> 0], ok |-> TRUE]
FoldsOn(g, D, refused) ==
    g = [S \in D |-> IF S = {} THEN Start
                     ELSE FoldEvent(g[S \ {Latest(S)}], Latest(S), refused)]

\* The recursion of the fold is defined on the sets of up to n events.
LEMMA FoldsOnSmall ==
  ASSUME orders \in Seq(OrderType), NEW S \in SUBSET Ids, NEW refused
  PROVE  \A n \in 0 .. Cardinality(S) : \E g : FoldsOn(g, Small(S, n), refused)
<1> DEFINE P(n) == \E g : FoldsOn(g, Small(S, n), refused)
           N == {n \in 0 .. Cardinality(S) : P(n)}
           Ev(acc, k) == FoldEvent(acc, k, refused)
<1>f. IsFiniteSet(S)
  BY FiniteIds, FS_Subset
<1>0. Cardinality(S) \in Nat
  BY <1>f, FS_CardinalityType
<1>1. \A T \in SUBSET S : /\ IsFiniteSet(T) /\ Cardinality(T) \in Nat
                          /\ Cardinality(T) = 0 <=> T = {}
  BY <1>f, FS_Subset, FS_CardinalityType, FS_EmptySet
<1>2. ASSUME NEW T \in SUBSET S, T # {}
      PROVE  /\ T \ {Latest(T)} \in SUBSET S
             /\ Cardinality(T \ {Latest(T)}) = Cardinality(T) - 1
  <2>1. Latest(T) \in T
    BY <1>2, LatestIs
  <2>2. QED
    BY <1>1, <2>1, FS_RemoveElement
<1>u. \A g, D : FoldsOn(g, D, refused) <=>
         g = [T \in D |-> IF T = {} THEN Start ELSE Ev(g[T \ {Latest(T)}], Latest(T))]
  BY DEF FoldsOn
<1> HIDE DEF Ev
<1>3. P(0)
  <2> DEFINE g == [T \in Small(S, 0) |-> Start]
  <2>1. \A T \in Small(S, 0) : T = {}
    BY <1>1 DEF Small
  <2>2. g = [T \in Small(S, 0) |-> IF T = {} THEN Start ELSE Ev(g[T \ {Latest(T)}], Latest(T))]
    BY <2>1
  <2>3. QED
    BY <1>u, <2>2
<1>4. ASSUME NEW n \in 1 .. Cardinality(S), P(n - 1) PROVE P(n)
  <2>0. n \in Nat /\ n - 1 \in Nat
    BY <1>0
  <2>1. PICK g : FoldsOn(g, Small(S, n - 1), refused)
    BY <1>4
  <2>2. g = [T \in Small(S, n - 1) |-> IF T = {} THEN Start
                                       ELSE Ev(g[T \ {Latest(T)}], Latest(T))]
    BY <1>u, <2>1
  <2> DEFINE Val(T) == IF T = {} THEN Start ELSE Ev(g[T \ {Latest(T)}], Latest(T))
             h == [T \in Small(S, n) |-> Val(T)]
  <2>3. ASSUME NEW T \in Small(S, n), T # {}
        PROVE  T \ {Latest(T)} \in Small(S, n - 1)
    <3>1. T \in SUBSET S /\ Cardinality(T) <= n
      BY DEF Small
    <3>2. Cardinality(T \ {Latest(T)}) <= n - 1
      BY <1>1, <1>2, <2>0, <2>3, <3>1
    <3>3. QED
      BY <1>2, <2>3, <3>1, <3>2 DEF Small
  <2>4. \A T \in Small(S, n - 1) : T \in Small(S, n) /\ g[T] = Val(T)
    <3> SUFFICES ASSUME NEW T \in Small(S, n - 1) PROVE T \in Small(S, n) /\ g[T] = Val(T)
      OBVIOUS
    <3>1. T \in Small(S, n)
      BY <1>1, <2>0 DEF Small
    <3>2. g[T] = Val(T)
      BY <2>2
    <3>3. QED
      BY <3>1, <3>2
  <2>5. \A T \in Small(S, n) : h[T] = Val(T)
    OBVIOUS
  <2>6. h = [T \in Small(S, n) |-> h[T]]
    OBVIOUS
  <2> HIDE DEF h
  <2>7. ASSUME NEW T \in Small(S, n)
        PROVE  h[T] = IF T = {} THEN Start ELSE Ev(h[T \ {Latest(T)}], Latest(T))
    <3>1. CASE T = {}
      BY <2>5, <3>1
    <3>2. CASE T # {}
      <4>1. T \ {Latest(T)} \in Small(S, n - 1)
        BY <2>3, <3>2
      <4>2. h[T \ {Latest(T)}] = g[T \ {Latest(T)}]
        <5> HIDE DEF Val
        <5>1. QED
          BY <2>4, <2>5, <4>1
      <4>3. h[T] = Ev(g[T \ {Latest(T)}], Latest(T))
        BY <2>5, <3>2
      <4>4. QED
        BY <3>2, <4>2, <4>3
    <3>3. QED
      BY <3>1, <3>2
  <2>8. h = [T \in Small(S, n) |-> IF T = {} THEN Start ELSE Ev(h[T \ {Latest(T)}], Latest(T))]
    <3> HIDE DEF Val
    <3>1. QED
      BY <2>6, <2>7
  <2>9. FoldsOn(h, Small(S, n), refused)
    BY <1>u, <2>8
  <2>10. QED
    BY <2>9
<1> HIDE DEF P
<1>5. N = 0 .. Cardinality(S)
  <2>1. N \in SUBSET (0 .. Cardinality(S)) /\ 0 \in N
    BY <1>0, <1>3
  <2>2. \A i \in 1 .. Cardinality(S) : i - 1 \in N => i \in N
    BY <1>0, <1>4
  <2> HIDE DEF N
  <2>3. QED
    BY <1>0, <2>1, <2>2, Positions
<1>6. QED
  BY <1>5 DEF P

\* The fold over a set of events is the fold without the latest, and it.
LEMMA FoldsMean ==
  ASSUME orders \in Seq(OrderType), NEW a, NEW refused
  PROVE  /\ Folds(a, refused)[{}] = Start
         /\ \A S \in SUBSET Due(a) : S # {} =>
               Folds(a, refused)[S] =
                  FoldEvent(Folds(a, refused)[S \ {Latest(S)}], Latest(S), refused)
<1> DEFINE D == Due(a)
           h == Folds(a, refused)
<1>1. D \in SUBSET Ids
  BY DEF Due
<1>f. IsFiniteSet(D)
  BY <1>1, FiniteIds, FS_Subset
<1>2. Small(D, Cardinality(D)) = SUBSET D
  BY <1>f, FS_Subset DEF Small
<1>3. Cardinality(D) \in 0 .. Cardinality(D)
  BY <1>f, FS_CardinalityType
<1>4. \E g : FoldsOn(g, SUBSET D, refused)
  <2>1. \A n \in 0 .. Cardinality(D) : \E g : FoldsOn(g, Small(D, n), refused)
    BY <1>1, FoldsOnSmall
  <2>2. \E g : FoldsOn(g, Small(D, Cardinality(D)), refused)
    BY <1>3, <2>1
  <2>3. QED
    BY <1>2, <2>2
<1>5. FoldsOn(h, SUBSET D, refused)
  BY <1>4 DEF Folds, FoldsOn, Start
<1> HIDE DEF h
<1>6. h = [S \in SUBSET D |-> IF S = {} THEN Start
                              ELSE FoldEvent(h[S \ {Latest(S)}], Latest(S), refused)]
  BY <1>5 DEF FoldsOn
<1>7. \A S \in SUBSET D : h[S] = IF S = {} THEN Start
                                 ELSE FoldEvent(h[S \ {Latest(S)}], Latest(S), refused)
  BY <1>6
<1>8. {} \in SUBSET D
  OBVIOUS
<1>9. QED
  BY <1>7, <1>8 DEF h

-----------------------------------------------------------------------------
(* One event of the fold.                                                  *)

\* A book as a function on its ids.
LEMMA IdsFacts ==
  ASSUME orders \in Seq(OrderType)
  PROVE  Len(orders) \in Nat /\ Ids = 1 .. Len(orders) /\ DOMAIN orders = Ids
         /\ orders \in [Ids -> OrderType]
BY DEF Ids

\* The fields of an order.
LEMMA OrderFields ==
  ASSUME NEW o \in OrderType
  PROVE  /\ o.acct \in Accounts /\ o.ticker \in Tickers /\ o.side \in Sides /\ o.qty \in Nat
         /\ o.type \in Types /\ o.session \in Int /\ o.parent \in Nat /\ o.state \in States
         /\ o.filled \in Nat /\ o.reason \in Reasons
BY DEF OrderType

\* The smaller of two numbers.
LEMMA MinPair ==
  ASSUME NEW x \in Int, NEW y \in Int
  PROVE  Min({x, y}) \in Int /\ Min({x, y}) <= x /\ Min({x, y}) <= y
<1>1. \E z \in {x, y} : \A w \in {x, y} : z =< w
  <2>1. CASE x <= y
    BY <2>1
  <2>2. CASE y <= x
    BY <2>2
  <2>3. QED
    BY <2>1, <2>2
<1>2. Min({x, y}) \in {x, y} /\ \A w \in {x, y} : Min({x, y}) =< w
  BY <1>1 DEF Min
<1>3. QED
  BY <1>2

\* The larger of two numbers.
LEMMA MaxPair ==
  ASSUME NEW x \in Int, NEW y \in Int
  PROVE  Max({x, y}) \in Int
<1>1. \E z \in {x, y} : \A w \in {x, y} : z >= w
  <2>1. CASE x >= y
    BY <2>1
  <2>2. CASE y >= x
    BY <2>2
  <2>3. QED
    BY <2>1, <2>2
<1>2. Max({x, y}) \in {x, y}
  BY <1>1 DEF Max
<1>3. QED
  BY <1>2

\* _available_close_quantity gives no more than was asked for.
LEMMA AvailableBound ==
  ASSUME NEW p \in Int, NEW side, NEW qty \in Int
  PROVE  Available(p, side, qty) \in Int /\ Available(p, side, qty) <= qty
<1>1. Max({p, 0}) \in Int /\ Max({-p, 0}) \in Int
  BY MaxPair
<1>2. Min({qty, Max({p, 0})}) \in Int /\ Min({qty, Max({p, 0})}) <= qty
  BY <1>1, MinPair
<1>3. Min({qty, Max({-p, 0})}) \in Int /\ Min({qty, Max({-p, 0})}) <= qty
  BY <1>1, MinPair
<1>4. QED
  BY <1>2, <1>3 DEF Available

\* A queued order that executes was accepted and, in an account that is halted
\* or retiring, is a forced close.
Executes(i) ==
    /\ Queued(orders[i]) /\ Accepted(i)
    /\ status[orders[i].acct] \in {"halted", "retiring"} => IsForced(orders[i])

\* _settle_order fills within the order, and fills only what executes.
LEMMA OutcomeFacts ==
  ASSUME orders \in Seq(OrderType), NEW book \in [Ids -> OrderType], NEW i \in Ids,
         Same(orders[i], book[i]), book[i].parent <= Len(orders), Queued(orders[i]),
         NEW p \in Int, NEW refused,
         NEW r, r = Outcome(book, i, p, refused)
  PROVE  /\ r.state \in States /\ r.filled \in Nat /\ r.filled <= book[i].qty
         /\ r.filled > 0 <=> r.state = "filled"
         /\ r.filled > 0 => Executes(i)
<1> DEFINE o == book[i]
           c == Contingent(book, o)
           cap == IF c = "filled" THEN Min({o.qty, book[o.parent].filled}) ELSE o.qty
           qty == Available(p, o.side, cap)
           none == {[state |-> s, filled |-> 0] : s \in {"cancelled", "rejected", "queued"}}
<1>0. o \in OrderType /\ o.qty \in Nat /\ Len(orders) \in Nat /\ Ids = 1 .. Len(orders)
      /\ orders[i] \in OrderType /\ DOMAIN orders = Ids /\ o.parent \in Nat
  <2>1. o \in OrderType
    OBVIOUS
  <2> HIDE DEF o
  <2>2. QED
    BY <2>1, IdsFacts, OrderFields
<1>1. cap \in Int /\ cap <= o.qty
  <2>1. CASE c = "filled"
    <3>1. o.parent # 0
      BY <2>1 DEF Contingent
    <3>2. o.parent \in Ids
      BY <1>0, <3>1
    <3>3. book[o.parent].filled \in Int
      BY <3>2, OrderFields
    <3>4. o.qty \in Int
      BY <1>0
    <3>5. cap = Min({o.qty, book[o.parent].filled})
      BY <2>1
    <3> HIDE DEF cap, o, c
    <3>6. QED
      BY <3>3, <3>4, <3>5, MinPair
  <2>2. CASE c # "filled"
    BY <1>0, <2>2
  <2>3. QED
    BY <2>1, <2>2
<1>2. qty \in Int /\ qty <= o.qty
  <2> HIDE DEF cap, o
  <2>1. qty \in Int /\ qty <= cap
    BY <1>1, AvailableBound
  <2> HIDE DEF qty
  <2>2. QED
    BY <1>0, <1>1, <2>1
<1> DEFINE L == LiquidityRefusals(o.ticker, ExecDay(o), Direction(o.side))
<1>3. \/ r \in none
      \/ /\ r = [state |-> "filled", filled |-> qty] /\ qty > 0
         /\ ~ (status[o.acct] \in {"halted", "retiring"} /\ ~IsForced(o))
         /\ Attempt(o) = "filled" /\ i \notin L
  <2>0. r = CASE status[o.acct] \in {"halted", "retiring"} /\ ~IsForced(o)
                                              -> [state |-> "cancelled", filled |-> 0]
          [] c = "failed"                     -> [state |-> "rejected", filled |-> 0]
          [] c = "pending"                    -> [state |-> "queued", filled |-> 0]
          [] qty <= 0                         -> [state |-> "rejected", filled |-> 0]
          [] o.side = "short" /\ i \in refused -> [state |-> "rejected", filled |-> 0]
          [] Attempt(o) = "pending"           -> [state |-> "queued", filled |-> 0]
          [] Attempt(o) = "rejected"          -> [state |-> "rejected", filled |-> 0]
          [] i \in L                          -> [state |-> "rejected", filled |-> 0]
          [] i \in refused /\ ~IsForced(o)    -> [state |-> "rejected", filled |-> 0]
          [] OTHER                            -> [state |-> "filled", filled |-> qty]
    BY DEF Outcome
  <2>1. Attempt(o) \in {"pending", "rejected", "filled"}
    BY DEF Attempt
  <2> HIDE DEF o, c, cap, qty, L
  <2>2. QED
    BY <1>2, <2>0, <2>1
<1>4. CASE r \in none
  BY <1>0, <1>4 DEF States
<1>5. CASE /\ r = [state |-> "filled", filled |-> qty] /\ qty > 0
           /\ ~ (status[o.acct] \in {"halted", "retiring"} /\ ~IsForced(o))
           /\ Attempt(o) = "filled" /\ i \notin L
  <2>1. /\ o.ticker = orders[i].ticker /\ ExecDay(o) = ExecDay(orders[i]) /\ o.acct = orders[i].acct
        /\ Direction(o.side) = Direction(orders[i].side) /\ Attempt(o) = Attempt(orders[i])
        /\ IsForced(o) = IsForced(orders[i])
    BY SameFacts DEF Same
  <2>2. i \notin LiquidityRefusals(orders[i].ticker, ExecDay(orders[i]), Direction(orders[i].side))
    BY <1>5, <2>1
  <2>3. i \in Takers(orders[i].ticker, ExecDay(orders[i]), Direction(orders[i].side))
    BY <1>0, <1>5, <2>1 DEF Takers, Flow
  <2>4. Accepted(i)
    BY <2>2, <2>3 DEF Accepted
  <2>5. status[orders[i].acct] \in {"halted", "retiring"} => IsForced(orders[i])
    BY <1>5, <2>1
  <2>6. Executes(i)
    BY <2>4, <2>5 DEF Executes
  <2>7. r.state = "filled" /\ r.filled = qty
    BY <1>5
  <2>8. qty \in Nat
    <3> HIDE DEF qty
    <3>1. QED
      BY <1>2, <1>5
  <2> HIDE DEF qty
  <2>9. QED
    BY <1>2, <1>5, <2>6, <2>7, <2>8 DEF States
<1>6. QED
  BY <1>3, <1>4, <1>5

\* The state of the fold before event k, which is still as it is stored.
FoldState(acc) ==
    /\ acc \in [book : [Ids -> OrderType], pos : [Tickers -> Int], ok : BOOLEAN]
    /\ \A i \in Ids : /\ Same(orders[i], acc.book[i]) /\ acc.book[i].filled <= acc.book[i].qty
                      /\ (acc.book[i].filled > 0) <=> (acc.book[i].state = "filled")

\* The event leaves the other orders alone, settles its own, and moves the
\* position by its fill, which the fold has checked against what is held.
Event(acc, k, new) ==
    /\ FoldState(new)
    /\ \A i \in Ids : i # k => new.book[i] = acc.book[i]
    /\ orders[k].filled > 0 => new.book[k].filled = orders[k].filled
    /\ orders[k].filled = 0 /\ new.book[k].filled > 0 => Executes(k)
    /\ \A t \in Tickers : new.pos[t] =
          acc.pos[t] + IF new.book[k].ticker = t THEN Signed(new.book[k]) ELSE 0
    /\ new.ok => acc.ok
    /\ new.ok /\ new.book[k].filled > 0 =>
          Applies(acc.pos[orders[k].ticker], orders[k].side, new.book[k].filled)

\* Every step of the fold is an Event.
LEMMA EventFacts ==
  ASSUME orders \in Seq(OrderType),
         \A i \in Ids : SoundOrder(orders[i], Len(orders)),
         NEW acc, FoldState(acc), NEW k \in Ids, acc.book[k] = orders[k],
         orders[k].state \in {"queued", "filled"}, NEW refused
  PROVE  Event(acc, k, FoldEvent(acc, k, refused))
<1> DEFINE o == orders[k]
           p == acc.pos[o.ticker]
           done == Outcome(acc.book, k, p, refused)
           qty == IF Queued(o) THEN done.filled ELSE o.filled
<1>0. /\ Len(orders) \in Nat /\ Ids = 1 .. Len(orders) /\ o \in OrderType
      /\ o.filled \in Nat /\ o.qty \in Nat /\ o.ticker \in Tickers /\ o.filled <= o.qty
      /\ (o.filled > 0) <=> (o.state = "filled")
      /\ o.parent <= Len(orders) /\ p \in Int
      /\ acc.book \in [Ids -> OrderType] /\ acc.pos \in [Tickers -> Int] /\ acc.ok \in BOOLEAN
      /\ Direction(o.side) \in {-1, 1}
  <2>1. o \in OrderType /\ Len(orders) \in Nat /\ Ids = 1 .. Len(orders)
    BY IdsFacts
  <2>2. o.filled \in Nat /\ o.qty \in Nat /\ o.ticker \in Tickers /\ Direction(o.side) \in {-1, 1}
    <3> HIDE DEF o
    <3>1. QED
      BY <2>1, OrderFields, OrderFacts
  <2>3. o.filled <= o.qty /\ (o.filled > 0 <=> o.state = "filled") /\ o.parent <= Len(orders)
    BY DEF SoundOrder
  <2>4. acc.book \in [Ids -> OrderType] /\ acc.pos \in [Tickers -> Int] /\ acc.ok \in BOOLEAN
    BY DEF FoldState
  <2>5. p \in Int
    BY <2>2, <2>4
  <2>6. QED
    BY <2>1, <2>2, <2>3, <2>4, <2>5
<1>1. Queued(o) => /\ done.state \in States /\ done.filled \in Nat /\ done.filled <= o.qty
                   /\ (done.filled > 0) <=> (done.state = "filled")
                   /\ done.filled > 0 => Executes(k)
  <2> SUFFICES ASSUME Queued(o)
               PROVE /\ done.state \in States /\ done.filled \in Nat /\ done.filled <= o.qty
                     /\ (done.filled > 0) <=> (done.state = "filled")
                     /\ done.filled > 0 => Executes(k)
    OBVIOUS
  <2>1. Same(orders[k], acc.book[k])
    BY DEF FoldState
  <2>2. acc.book[k].parent <= Len(orders)
    BY <1>0
  <2>3. PICK r : r = done
    OBVIOUS
  <2>4. r = Outcome(acc.book, k, p, refused)
    BY <2>3
  <2>5. /\ r.state \in States /\ r.filled \in Nat /\ r.filled <= acc.book[k].qty
        /\ r.filled > 0 <=> r.state = "filled"
        /\ r.filled > 0 => Executes(k)
    <3> HIDE DEF p
    <3>1. QED
      BY <1>0, <2>1, <2>2, <2>4, OutcomeFacts
  <2>6. QED
    BY <2>3, <2>5
<1>2. qty \in Nat /\ qty <= o.qty
  BY <1>0, <1>1
<1>3. FoldEvent(acc, k, refused) =
        IF qty = 0
        THEN IF Queued(o) THEN [acc EXCEPT !.book = [acc.book EXCEPT ![k] =
                                   [acc.book[k] EXCEPT !.state = done.state]]] ELSE acc
        ELSE [book |-> [acc.book EXCEPT ![k] =
                          [acc.book[k] EXCEPT !.state = "filled", !.filled = qty]],
              pos  |-> [acc.pos EXCEPT ![o.ticker] = acc.pos[o.ticker] + Direction(o.side) * qty],
              ok   |-> acc.ok /\ Applies(p, o.side, qty)]
  BY DEF FoldEvent
<1> DEFINE new == FoldEvent(acc, k, refused)
<1> HIDE DEF done, qty, p
<1>4. CASE qty = 0 /\ Queued(o)
  <2> DEFINE n == [acc.book[k] EXCEPT !.state = done.state]
  <2>1. PICK m : m = n
    OBVIOUS
  <2>a. o.filled = 0
    <3>1. o.state # "filled"
      BY <1>4 DEF Queued
    <3>2. o.filled \in Nat /\ ((o.filled > 0) <=> (o.state = "filled"))
      BY <1>0
    <3> HIDE DEF o
    <3>3. QED
      BY <3>1, <3>2
  <2>b. done.state \in States /\ acc.book[k] = o /\ o \in OrderType
    BY <1>0, <1>1, <1>4
  <2>2. m \in OrderType /\ Same(orders[k], m) /\ m.state = done.state /\ m.filled = 0 /\ m.qty = o.qty
        /\ m.ticker = o.ticker /\ m.side = o.side
    <3>1. m = [o EXCEPT !.state = done.state]
      BY <2>1, <2>b
    <3> HIDE DEF o
    <3>2. m \in OrderType /\ Same(o, m) /\ m.state = done.state /\ m.filled = o.filled
      BY <2>b, <3>1 DEF OrderType, Same
    <3>3. QED
      BY <2>a, <3>2 DEF Same, o
  <2>3. new = [acc EXCEPT !.book = [acc.book EXCEPT ![k] = m]]
    BY <1>3, <1>4, <2>1
  <2>4. PICK w : w = new
    OBVIOUS
  <2>5. /\ w.book = [acc.book EXCEPT ![k] = m] /\ w.pos = acc.pos /\ w.ok = acc.ok
        /\ w \in [book : [Ids -> OrderType], pos : [Tickers -> Int], ok : BOOLEAN]
    <3>1. acc \in [book : [Ids -> OrderType], pos : [Tickers -> Int], ok : BOOLEAN]
      BY DEF FoldState
    <3>2. [acc.book EXCEPT ![k] = m] \in [Ids -> OrderType]
      BY <1>0, <2>2
    <3>3. PICK bk : bk = [acc.book EXCEPT ![k] = m]
      OBVIOUS
    <3>4. w = [acc EXCEPT !.book = bk]
      BY <2>3, <2>4, <3>3
    <3>5. w.book = bk /\ w.pos = acc.pos /\ w.ok = acc.ok
          /\ w \in [book : [Ids -> OrderType], pos : [Tickers -> Int], ok : BOOLEAN]
      BY <3>1, <3>2, <3>3, <3>4
    <3>6. QED
      BY <3>3, <3>5
  <2>6. w.book[k] = m /\ \A i \in Ids : i # k => w.book[i] = acc.book[i]
    BY <1>0, <2>5
  <2>7. FoldState(w)
    <3>1. m.filled <= m.qty /\ ((m.filled > 0) <=> (m.state = "filled"))
      BY <1>0, <1>1, <1>4, <2>2 DEF qty
    <3>2. QED
      BY <2>2, <2>5, <2>6, <3>1 DEF FoldState
  <2>8. o.filled = 0 /\ Signed(m) = 0
    BY <2>a, <2>2, OrderFacts
  <2>9. \A t \in Tickers : w.pos[t] = acc.pos[t] + IF w.book[k].ticker = t THEN Signed(w.book[k]) ELSE 0
    BY <1>0, <2>5, <2>6, <2>8
  <2>10. Event(acc, k, w)
    BY <2>2, <2>5, <2>6, <2>7, <2>8, <2>9 DEF Event
  <2>11. QED
    BY <2>4, <2>10
<1>5. CASE qty = 0 /\ ~Queued(o)
  <2>1. o.filled > 0 /\ o.filled = 0
    BY <1>0, <1>5 DEF qty, Queued
  <2>2. QED
    BY <2>1
<1>6. CASE qty # 0
  <2> DEFINE n == [acc.book[k] EXCEPT !.state = "filled", !.filled = qty]
  <2>1. PICK m : m = n
    OBVIOUS
  <2>2. m \in OrderType /\ Same(orders[k], m) /\ m.state = "filled" /\ m.filled = qty /\ m.qty = o.qty
        /\ m.ticker = o.ticker /\ m.side = o.side
    BY <1>0, <1>2, <2>1 DEF OrderType, Same, States
  <2>3. Signed(m) = Direction(o.side) * qty /\ Signed(m) \in Int
    BY <2>2, OrderFacts DEF Signed
  <2>4. new = [book |-> [acc.book EXCEPT ![k] = m],
               pos  |-> [acc.pos EXCEPT ![o.ticker] = acc.pos[o.ticker] + Signed(m)],
               ok   |-> acc.ok /\ Applies(p, o.side, qty)]
    BY <1>3, <1>6, <2>1, <2>3
  <2>5. PICK w : w = new
    OBVIOUS
  <2>6. /\ w.book = [acc.book EXCEPT ![k] = m]
        /\ w.pos = [acc.pos EXCEPT ![o.ticker] = acc.pos[o.ticker] + Signed(m)]
        /\ w.ok = (acc.ok /\ Applies(p, o.side, qty))
        /\ w = [book |-> w.book, pos |-> w.pos, ok |-> w.ok]
    BY <2>4, <2>5
  <2>7. w.book \in [Ids -> OrderType] /\ w.pos \in [Tickers -> Int] /\ w.ok \in BOOLEAN
    BY <1>0, <2>2, <2>3, <2>6
  <2>8. w \in [book : [Ids -> OrderType], pos : [Tickers -> Int], ok : BOOLEAN]
    BY <2>6, <2>7
  <2>9. w.book[k] = m /\ \A i \in Ids : i # k => w.book[i] = acc.book[i]
    BY <1>0, <2>6
  <2>10. FoldState(w)
    <3>1. m.filled <= m.qty /\ ((m.filled > 0) <=> (m.state = "filled"))
      BY <1>2, <1>6, <2>2
    <3>2. QED
      BY <2>2, <2>8, <2>9, <3>1 DEF FoldState
  <2>11. \A t \in Tickers : w.pos[t] = acc.pos[t] + IF w.book[k].ticker = t THEN Signed(w.book[k]) ELSE 0
    <3>1. \A t \in Tickers : w.pos[t] = IF t = o.ticker THEN acc.pos[t] + Signed(m) ELSE acc.pos[t]
      BY <1>0, <2>6
    <3>2. \A t \in Tickers : acc.pos[t] \in Int
      BY <1>0
    <3>3. QED
      BY <2>2, <2>9, <3>1, <3>2
  <2>12. o.filled > 0 => m.filled = o.filled
    BY <1>0, <2>2 DEF qty, Queued
  <2>13. o.filled = 0 => Executes(k)
    <3>1. o.filled = 0 => Queued(o)
      BY <1>0 DEF Queued
    <3>2. QED
      BY <1>1, <1>2, <1>6, <3>1 DEF qty
  <2>14. w.ok => acc.ok /\ Applies(acc.pos[o.ticker], o.side, m.filled)
    BY <2>2, <2>6 DEF p
  <2>15. Event(acc, k, w)
    BY <2>9, <2>10, <2>11, <2>12, <2>13, <2>14 DEF Event
  <2>16. QED
    BY <2>5, <2>15
<1>7. QED
  BY <1>4, <1>5, <1>6

-----------------------------------------------------------------------------
(* The invariant of the fold.                                              *)

\* x lies between zero and y.
Between(x, y) == (y >= x /\ x >= 0) \/ (y <= x /\ x <= 0)

\* Halted or retiring accounts.
Frozen(a) == status[a] \in {"halted", "retiring"}

\* The events S of account a are the first ones.
Prefix(a, S) == \A i \in S, j \in Due(a) : Before(orders, j, i) => j \in S

\* The events of S that come before order k.
Preceding(S, k) == {i \in S : Before(orders, i, k)}

\* After the events S: the other orders are as stored, stored fills stand, new
\* fills were accepted, the position is the sum of the fills; unless a fill did
\* not apply, each one fits its place, and the position of a frozen account is
\* between zero and what the stored fills alone make it.
FoldInv(a, S, acc) ==
    /\ FoldState(acc)
    /\ \A i \in Ids \ S : acc.book[i] = orders[i]
    /\ \A i \in S : orders[i].filled > 0 => acc.book[i].filled = orders[i].filled
    /\ \A i \in S : orders[i].filled = 0 /\ acc.book[i].filled > 0 => Executes(i)
    /\ \A t \in Tickers : acc.pos[t] = Shares(acc.book, a, t, S)
    /\ acc.ok => \A k \in S : acc.book[k].filled > 0 =>
          Fits(acc.book[k], Shares(acc.book, a, orders[k].ticker, Preceding(S, k)))
    /\ acc.ok /\ Frozen(a) => \A t \in Tickers : Between(acc.pos[t], Shares(orders, a, t, S))

\* A fill that apply_fill accepts fits the position it is applied to.
LEMMA AppliesFits ==
  ASSUME NEW o \in OrderType, NEW p \in Int, Applies(p, o.side, o.filled)
  PROVE  Fits(o, p)
<1>1. o.side \in Sides /\ o.filled \in Nat
  BY OrderFields
<1>2. CASE o.side = "buy"
  BY <1>1, <1>2 DEF Applies, Fits, Closing, Direction
<1>3. CASE o.side = "short"
  BY <1>1, <1>3 DEF Applies, Fits, Closing, Direction
<1>4. CASE o.side = "sell"
  BY <1>1, <1>4 DEF Applies, Fits, Closing, Direction
<1>5. CASE o.side = "cover"
  BY <1>1, <1>5 DEF Applies, Fits, Closing, Direction
<1>6. QED
  BY <1>1, <1>2, <1>3, <1>4, <1>5 DEF Sides

\* A stored fill and a forced close keep the position of a frozen account
\* between zero and what the stored fills make it.
LEMMA StoredBetween ==
  ASSUME NEW o \in OrderType, NEW p \in Int, NEW q \in Int, Between(p, q),
         o.filled > 0, Applies(p, o.side, o.filled), Fits(o, q)
  PROVE  Between(p + Signed(o), q + Signed(o))
<1>1. o.side \in Sides /\ o.filled \in Nat
  BY OrderFields
<1>2. Fits(o, p)
  BY AppliesFits
<1>3. CASE o.side = "buy"
  BY <1>1, <1>2, <1>3 DEF Between, Fits, Closing, Direction, Signed
<1>4. CASE o.side = "short"
  BY <1>1, <1>2, <1>4 DEF Between, Fits, Closing, Direction, Signed
<1>5. CASE o.side = "sell"
  BY <1>1, <1>2, <1>5 DEF Between, Fits, Closing, Direction, Signed
<1>6. CASE o.side = "cover"
  BY <1>1, <1>2, <1>6 DEF Between, Fits, Closing, Direction, Signed
<1>7. QED
  BY <1>1, <1>3, <1>4, <1>5, <1>6 DEF Sides

\* A closing fill leaves the position between zero and where it may be.
LEMMA ForcedBetween ==
  ASSUME NEW o \in OrderType, NEW p \in Int, NEW q \in Int, Between(p, q),
         o.filled > 0, Applies(p, o.side, o.filled), o.side \in Closing
  PROVE  Between(p + Signed(o), q)
<1>1. o.side \in Sides /\ o.filled \in Nat
  BY OrderFields
<1>2. Fits(o, p)
  BY AppliesFits
<1>3. CASE o.side = "sell"
  BY <1>1, <1>2, <1>3 DEF Between, Fits, Closing, Direction, Signed
<1>4. CASE o.side = "cover"
  BY <1>1, <1>2, <1>4 DEF Between, Fits, Closing, Direction, Signed
<1>5. QED
  BY <1>3, <1>4 DEF Closing

\* The inductive invariant's parts about orders, without the accounts.
LEMMA InvOrders ==
  ASSUME AccountInv
  PROVE  /\ orders \in Seq(OrderType) /\ \A i \in Ids : SoundOrder(orders[i], Len(orders))
         /\ \A i \in Ids : orders[i] \in OrderType /\ orders[i].filled \in Nat
         /\ \A i \in Ids : orders[i].filled > 0 =>
               ExecDay(orders[i]) <= LastClosed /\ orders[i].state = "filled"
<1>1. orders \in Seq(OrderType)
  BY DEF AccountInv
<1>2. \A i \in Ids : orders[i] \in OrderType
  BY <1>1 DEF Ids
<1>3. \A i \in Ids : orders[i].filled \in Nat
  BY <1>2, OrderFields
<1>4. QED
  BY <1>1, <1>2, <1>3 DEF AccountInv, SoundOrder

\* One more event, the latest so far, preserves the invariant of the fold.
LEMMA FoldStep ==
  ASSUME AccountInv, NEW a \in Accounts, NEW S \in SUBSET Due(a), NEW k \in S,
         \A j \in S \ {k} : Before(orders, j, k), Prefix(a, S),
         NEW acc, FoldInv(a, S \ {k}, acc), NEW new, Event(acc, k, new)
  PROVE  FoldInv(a, S, new)
<1> DEFINE R == S \ {k}
           n == Len(orders)
           x == orders[k].ticker
           b == new.book
<1>0. /\ n \in Nat /\ Ids = 1 .. n /\ R \in SUBSET Ids /\ S \in SUBSET Ids /\ k \in Ids /\ k \notin R
      /\ S = R \cup {k} /\ orders \in Seq(OrderType) /\ orders \in [Ids -> OrderType]
      /\ \A i \in S : orders[i].acct = a
  BY InvOrders, IdsFacts DEF Due
<1>n. n \in Nat
  BY <1>0
<1>k. k \notin R
  BY <1>0
<1>s. k \in S /\ R \subseteq S /\ \A i \in S : i \in R \/ i = k
  BY <1>0
<1>1. /\ b \in [Ids -> OrderType] /\ acc.book \in [Ids -> OrderType]
      /\ new.pos \in [Tickers -> Int] /\ acc.pos \in [Tickers -> Int]
      /\ \A i \in Ids : Same(orders[i], b[i]) /\ Same(orders[i], acc.book[i])
      /\ \A i \in Ids : i # k => b[i] = acc.book[i]
      /\ b[k] \in OrderType
  BY <1>0 DEF Event, FoldInv, FoldState
<1>2. b[k].ticker = x /\ b[k].side = orders[k].side /\ b[k].acct = a /\ orders[k] \in OrderType
      /\ x \in Tickers
  BY <1>0, <1>1, OrderFields DEF Same
<1>c. \A i \in S : b[i].acct = a
  BY <1>0, <1>1 DEF Same
<1>3. \A t : Shares(b, a, t, R) = Shares(acc.book, a, t, R)
  <2> SUFFICES ASSUME NEW t PROVE Shares(b, a, t, R) = Shares(acc.book, a, t, R)
    OBVIOUS
  <2>1. \A i \in R : Same(acc.book[i], b[i]) /\ (acc.book[i].acct = a => b[i].filled = acc.book[i].filled)
    <3>1. \A i \in R : i \in Ids /\ i # k
      BY <1>0
    <3>2. QED
      BY <1>1, <3>1 DEF Same
  <2>2. \A i \in R \ R : b[i].acct = a => b[i].filled = 0
    OBVIOUS
  <2>3. acc.book \in [1 .. n -> OrderType] /\ b \in [1 .. n -> OrderType] /\ R \in SUBSET (1 .. n)
        /\ R \subseteq R
    BY <1>0, <1>1
  <2> HIDE DEF R, b, n
  <2>4. QED
    BY <1>n, <2>1, <2>2, <2>3, SharesPart
<1>4. \A t : Shares(b, a, t, S) = Shares(b, a, t, R) + IF x = t THEN Signed(b[k]) ELSE 0
  <2> SUFFICES ASSUME NEW t
               PROVE  Shares(b, a, t, S) = Shares(b, a, t, R) + IF x = t THEN Signed(b[k]) ELSE 0
    OBVIOUS
  <2>1. b \in [1 .. n -> OrderType] /\ R \in SUBSET (1 .. n) /\ S \in SUBSET (1 .. n)
    BY <1>0, <1>1
  <2> HIDE DEF R, b, n, x
  <2>2. /\ b[k].ticker = t => Shares(b, a, t, S) = Shares(b, a, t, R) + Signed(b[k])
        /\ b[k].ticker # t => Shares(b, a, t, S) = Shares(b, a, t, R)
    BY <1>n, <1>k, <1>s, <1>c, <2>1, SharesAdd
  <2>3. Shares(b, a, t, R) \in Int
    BY <1>n, <2>1, SharesInt
  <2>4. QED
    BY <1>2, <2>2, <2>3
<1>5. \A t \in Tickers : new.pos[t] = acc.pos[t] + IF x = t THEN Signed(b[k]) ELSE 0
  BY <1>2 DEF Event
<1>6. \A t \in Tickers : acc.pos[t] = Shares(acc.book, a, t, R) /\ acc.pos[t] \in Int
  BY <1>1 DEF FoldInv
<1>7. FoldState(new)
  BY DEF Event
<1>8. \A i \in Ids \ S : b[i] = orders[i]
  <2>1. \A i \in Ids \ S : i # k /\ i \in Ids \ R
    BY <1>0
  <2>2. \A i \in Ids \ R : acc.book[i] = orders[i]
    BY DEF FoldInv
  <2>3. QED
    BY <1>1, <2>1, <2>2
<1>9. \A i \in S : orders[i].filled > 0 => b[i].filled = orders[i].filled
  <2>1. \A i \in R : orders[i].filled > 0 => acc.book[i].filled = orders[i].filled
    BY DEF FoldInv
  <2>2. orders[k].filled > 0 => b[k].filled = orders[k].filled
    BY DEF Event
  <2>3. QED
    BY <1>0, <1>1, <2>1, <2>2
<1>10. \A i \in S : orders[i].filled = 0 /\ b[i].filled > 0 => Executes(i)
  <2>1. \A i \in R : orders[i].filled = 0 /\ acc.book[i].filled > 0 => Executes(i)
    BY DEF FoldInv
  <2>2. orders[k].filled = 0 /\ b[k].filled > 0 => Executes(k)
    BY DEF Event
  <2>3. QED
    BY <1>0, <1>1, <2>1, <2>2
<1>11. \A t \in Tickers : new.pos[t] = Shares(b, a, t, S)
  <2> HIDE DEF R, b, x
  <2>1. QED
    BY <1>3, <1>4, <1>5, <1>6
<1>12. new.ok /\ b[k].filled > 0 => Applies(acc.pos[x], b[k].side, b[k].filled)
  BY <1>2 DEF Event
<1>13. ASSUME new.ok, NEW j \in S, b[j].filled > 0
       PROVE  Fits(b[j], Shares(b, a, orders[j].ticker, Preceding(S, j)))
  <2>1. CASE j = k
    <3>1. Preceding(S, k) = R
      <4>1. ~ Before(orders, k, k)
        BY <1>0, BeforeOrder
      <4>2. QED
        BY <1>0, <4>1 DEF Preceding
    <3>2. Fits(b[k], acc.pos[x])
      <4>1. acc.pos[x] \in Int /\ b[k] \in OrderType
        BY <1>1, <1>2
      <4>2. Applies(acc.pos[x], b[k].side, b[k].filled)
        BY <1>12, <1>13, <2>1
      <4>3. QED
        BY <4>1, <4>2, AppliesFits
    <3>3. acc.pos[x] = Shares(b, a, x, R)
      BY <1>2, <1>3, <1>6
    <3>4. QED
      BY <2>1, <3>1, <3>2, <3>3
  <2>2. CASE j # k
    <3>1. j \in R /\ j \in Ids /\ Before(orders, j, k)
      BY <1>0, <2>2
    <3>2. ~ Before(orders, k, j)
      BY <1>0, <3>1, BeforeOrder
    <3> DEFINE V == Preceding(R, j)
               y == orders[j].ticker
    <3>3. Preceding(S, j) = V /\ V \in SUBSET R
      BY <1>0, <3>2 DEF Preceding
    <3>4. b[j] = acc.book[j]
      BY <1>1, <2>2, <3>1
    <3>5. Fits(acc.book[j], Shares(acc.book, a, y, V))
      <4>1. acc.ok
        BY <1>13 DEF Event
      <4>2. QED
        BY <1>13, <3>1, <3>4, <4>1 DEF FoldInv
    <3>6. Shares(acc.book, a, y, V) = Shares(b, a, y, V)
      <4>1. \A i \in V : Same(acc.book[i], b[i]) /\ (acc.book[i].acct = a => b[i].filled = acc.book[i].filled)
        <5>1. \A i \in V : i \in Ids /\ i # k
          BY <1>0, <3>3
        <5>2. QED
          BY <1>1, <5>1 DEF Same
      <4>2. \A i \in V \ V : b[i].acct = a => b[i].filled = 0
        OBVIOUS
      <4>3. acc.book \in [1 .. n -> OrderType] /\ b \in [1 .. n -> OrderType] /\ V \in SUBSET (1 .. n)
            /\ V \subseteq V
        BY <1>0, <1>1, <3>3
      <4> HIDE DEF V, b, n, y
      <4>4. QED
        BY <1>n, <4>1, <4>2, <4>3, SharesPart
    <3>7. QED
      BY <3>3, <3>4, <3>5, <3>6
  <2>3. QED
    BY <2>1, <2>2
<1>14. ASSUME new.ok, Frozen(a), NEW t \in Tickers
       PROVE  Between(new.pos[t], Shares(orders, a, t, S))
  <2> DEFINE q == Shares(orders, a, t, R)
             p == acc.pos[t]
  <2>1. Shares(orders, a, t, S) = q + IF x = t THEN Signed(orders[k]) ELSE 0
    <3>1. orders \in [1 .. n -> OrderType] /\ R \in SUBSET (1 .. n) /\ S \in SUBSET (1 .. n)
          /\ \A i \in S : orders[i].acct = a
      BY <1>0
    <3> HIDE DEF R, n
    <3>2. /\ orders[k].ticker = t =>
               Shares(orders, a, t, S) = Shares(orders, a, t, R) + Signed(orders[k])
          /\ orders[k].ticker # t => Shares(orders, a, t, S) = Shares(orders, a, t, R)
      BY <1>n, <1>k, <1>s, <3>1, SharesAdd
    <3>3. Shares(orders, a, t, R) \in Int
      BY <1>n, <3>1, SharesInt
    <3>4. QED
      BY <3>2, <3>3
  <2>2. q \in Int /\ p \in Int
    <3>1. orders \in [1 .. n -> OrderType] /\ R \in SUBSET (1 .. n)
      BY <1>0
    <3>2. p \in Int
      BY <1>6
    <3> HIDE DEF R, n
    <3>3. QED
      BY <1>0, <3>1, <3>2, SharesInt
  <2>3. Between(p, q)
    <3>1. acc.ok
      BY <1>14 DEF Event
    <3>2. QED
      BY <1>14, <3>1 DEF FoldInv
  <2>4. new.pos[t] = p + IF x = t THEN Signed(b[k]) ELSE 0
    BY <1>5
  <2>5. b[k].filled \in Nat /\ orders[k].filled \in Nat /\ Signed(b[k]) \in Int /\ Signed(orders[k]) \in Int
        /\ (b[k].filled = 0 => Signed(b[k]) = 0) /\ (orders[k].filled = 0 => Signed(orders[k]) = 0)
    BY <1>1, <1>2, OrderFields, OrderFacts
  <2>6. CASE x # t
    <3> HIDE DEF p, q, b, x
    <3>1. QED
      BY <2>1, <2>2, <2>3, <2>4, <2>6
  <2>7. CASE x = t /\ b[k].filled = 0
    <3>1. orders[k].filled = 0
      BY <1>0, <1>9, <2>5, <2>7
    <3> HIDE DEF p, q, b, x
    <3>2. QED
      BY <2>1, <2>2, <2>3, <2>4, <2>5, <2>7, <3>1
  <2>8. CASE x = t /\ b[k].filled > 0 /\ orders[k].filled = 0
    <3>1. Executes(k)
      BY <1>10, <2>8
    <3>2. IsForced(orders[k])
      BY <1>0, <1>14, <3>1 DEF Executes, Frozen
    <3>3. b[k].side \in Closing
      BY <1>0, <1>2, <3>2, InvOrders DEF SoundOrder
    <3>4. Applies(p, b[k].side, b[k].filled)
      BY <1>12, <1>14, <2>8
    <3> HIDE DEF p, q, b, x
    <3>5. Between(p + Signed(b[k]), q)
      BY <1>1, <2>2, <2>3, <2>8, <3>3, <3>4, ForcedBetween
    <3>6. QED
      BY <2>1, <2>2, <2>4, <2>5, <2>8, <3>5
  <2>9. CASE x = t /\ b[k].filled > 0 /\ orders[k].filled > 0
    <3>1. b[k].filled = orders[k].filled
      BY <1>0, <1>9, <2>9
    <3>2. Signed(b[k]) = Signed(orders[k])
      BY <1>2, <3>1 DEF Signed
    <3>3. Applies(p, orders[k].side, orders[k].filled)
      BY <1>2, <1>12, <1>14, <2>9, <3>1
    <3> DEFINE E == Earlier(orders, k)
    <3>4. Fits(orders[k], Shares(orders, a, t, E))
      <4>1. Fits(orders[k], Shares(orders, orders[k].acct, orders[k].ticker, Earlier(orders, k)))
        BY <1>0, <2>9 DEF AccountInv, LedgerReplays
      <4>2. QED
        BY <1>0, <2>9, <4>1
    <3>5. Shares(orders, a, t, R) = Shares(orders, a, t, E)
      <4>1. E \in SUBSET Ids /\ R \subseteq E
        BY <1>0, IdsFacts DEF Earlier
      <4>2. ASSUME NEW i \in E \ R, orders[i].acct = a PROVE orders[i].filled = 0
        <5>1. SUFFICES ASSUME orders[i].filled > 0 PROVE FALSE
          BY <4>1, InvOrders
        <5>2. i \in Ids /\ Before(orders, i, k)
          BY <4>1 DEF Earlier
        <5>3. i \in Due(a)
          BY <4>2, <5>1, <5>2, InvOrders DEF Due
        <5>4. i \in S
          BY <5>2, <5>3 DEF Prefix
        <5>5. i # k
          BY <1>0, <5>2, BeforeOrder
        <5>6. QED
          BY <1>0, <4>2, <5>4, <5>5
      <4>3. \A i \in R : Same(orders[i], orders[i]) /\ (orders[i].acct = a => orders[i].filled = orders[i].filled)
        BY DEF Same
      <4>4. orders \in [1 .. n -> OrderType] /\ R \in SUBSET (1 .. n) /\ E \in SUBSET (1 .. n)
        BY <1>0, <4>1
      <4> HIDE DEF R, n, E
      <4>5. QED
        BY <1>n, <4>1, <4>2, <4>3, <4>4, SharesPart
    <3>6. Fits(orders[k], q)
      BY <3>4, <3>5
    <3> HIDE DEF p, q, b, x
    <3>7. Between(p + Signed(orders[k]), q + Signed(orders[k]))
      BY <1>2, <2>2, <2>3, <2>9, <3>3, <3>6, StoredBetween
    <3>8. QED
      BY <2>1, <2>4, <2>9, <3>2, <3>7
  <2>10. QED
    BY <2>5, <2>6, <2>7, <2>8, <2>9
<1>15. QED
  BY <1>7, <1>8, <1>9, <1>10, <1>11, <1>13, <1>14 DEF FoldInv

\* The fold of an account keeps its invariant.
LEMMA FoldHolds ==
  ASSUME AccountInv, NEW a \in Accounts, NEW refused
  PROVE  FoldInv(a, Due(a), Fold(a, refused))
<1> DEFINE D == Due(a)
           h == Folds(a, refused)
           G == {S \in SUBSET D : Prefix(a, S) => FoldInv(a, S, h[S])}
<1>0. orders \in Seq(OrderType) /\ D \in SUBSET Ids /\ IsFiniteSet(D)
      /\ \A i \in D : orders[i].state \in {"queued", "filled"}
  <2>1. orders \in Seq(OrderType) /\ D \in SUBSET Ids
    BY InvOrders DEF Due
  <2>2. IsFiniteSet(D)
    BY <2>1, FiniteIds, FS_Subset
  <2>3. QED
    BY <2>1, <2>2 DEF Due
<1>1. h[{}] = Start /\ \A S \in SUBSET D : S # {} =>
                          h[S] = FoldEvent(h[S \ {Latest(S)}], Latest(S), refused)
  BY <1>0, FoldsMean
<1>2. FoldInv(a, {}, Start)
  <2>1. PICK s : s = Start
    OBVIOUS
  <2>2. s.book = orders /\ s.pos = [t \in Tickers |-> 0] /\ s.ok = TRUE
        /\ s = [book |-> s.book, pos |-> s.pos, ok |-> s.ok]
    BY <2>1 DEF Start
  <2>3. FoldState(s)
    <3>1. s.book \in [Ids -> OrderType] /\ s.pos \in [Tickers -> Int] /\ s.ok \in BOOLEAN
      <4>1. orders \in [Ids -> OrderType]
        BY <1>0, IdsFacts
      <4>2. [t \in Tickers |-> 0] \in [Tickers -> Int]
        OBVIOUS
      <4>3. QED
        BY <2>2, <4>1, <4>2
    <3>2. s \in [book : [Ids -> OrderType], pos : [Tickers -> Int], ok : BOOLEAN]
      BY <2>2, <3>1
    <3>3. QED
      BY <2>2, <3>2, InvOrders DEF FoldState, Same, SoundOrder
  <2>4. \A t \in Tickers : s.pos[t] = 0 /\ Shares(s.book, a, t, {}) = 0 /\ Shares(orders, a, t, {}) = 0
    BY <2>2, SharesNone
  <2>5. \A t \in Tickers : Between(s.pos[t], Shares(orders, a, t, {}))
    BY <2>4 DEF Between
  <2>6. FoldInv(a, {}, s)
    BY <2>2, <2>3, <2>4, <2>5 DEF FoldInv
  <2>7. QED
    BY <2>1, <2>6
<1> HIDE DEF h
<1>3. {} \in G
  BY <1>1, <1>2
<1>4. ASSUME NEW S \in SUBSET D, S # {}, \A x \in S : S \ {x} \in G PROVE S \in G
  <2> SUFFICES ASSUME Prefix(a, S) PROVE FoldInv(a, S, h[S])
    OBVIOUS
  <2>0. PICK k : k = Latest(S)
    OBVIOUS
  <2>1. k \in S /\ \A j \in S \ {k} : Before(orders, j, k)
    BY <1>0, <1>4, <2>0, LatestIs
  <2>2. Prefix(a, S \ {k})
    <3> SUFFICES ASSUME NEW i \in S \ {k}, NEW j \in Due(a), Before(orders, j, i)
                 PROVE  j \in S \ {k}
      BY DEF Prefix
    <3>1. j \in S
      BY DEF Prefix
    <3>2. ~ Before(orders, k, i)
      BY <1>0, <2>1, BeforeOrder
    <3>3. QED
      BY <3>1, <3>2
  <2>3. PICK acc : acc = h[S \ {k}]
    OBVIOUS
  <2>4. FoldInv(a, S \ {k}, acc)
    <3>1. S \ {k} \in G
      BY <1>4, <2>1
    <3>2. QED
      BY <2>2, <2>3, <3>1
  <2>5. PICK new : new = FoldEvent(acc, k, refused)
    OBVIOUS
  <2>6. h[S] = new
    BY <1>1, <1>4, <2>0, <2>3, <2>5
  <2>7. FoldState(acc) /\ k \in Ids /\ acc.book[k] = orders[k]
    BY <1>0, <2>1, <2>4 DEF FoldInv
  <2>8. Event(acc, k, new)
    <3>1. Event(acc, k, FoldEvent(acc, k, refused))
      BY <1>0, <2>1, <2>7, InvOrders, EventFacts
    <3>2. QED
      BY <2>5, <3>1
  <2>9. QED
    BY <2>1, <2>4, <2>6, <2>8, FoldStep
<1>5. \A S \in SUBSET D : S \in G
  <2> HIDE DEF G, D
  <2>1. QED
    BY <1>0, <1>3, <1>4, Subsets
<1>6. Prefix(a, D)
  BY DEF Prefix
<1>7. QED
  BY <1>5, <1>6 DEF Fold, h

-----------------------------------------------------------------------------
(* Books that satisfy the invariant, and the ways in which they change.    *)

\* Every fill of a book fits its own place in effective time.
Fitting(b) ==
    \A k \in 1 .. Len(b) : b[k].filled > 0 =>
        Fits(b[k], Shares(b, b[k].acct, b[k].ticker, Earlier(b, k)))

\* The part of AccountInv that is about a book b and the positions held.
GoodBook(b, held) ==
    /\ b \in Seq(OrderType)
    /\ \A i \in 1 .. Len(b) : /\ SoundOrder(b[i], Len(b))
                              /\ b[i].filled > 0 => ExecDay(b[i]) <= LastClosed
    /\ \A c \in Accounts, t \in Tickers : held[c][t] = Shares(b, c, t, 1 .. Len(b))
    /\ Fitting(b)
    /\ \A t \in Tickers, d \in Sessions, way \in {-1, 1} : Traded(b, t, d, way) <= Cap

\* The stored book is good.
LEMMA InvGood == ASSUME AccountInv PROVE GoodBook(orders, pos)
BY DEF AccountInv, GoodBook, Fitting, LedgerReplays, AggregateLiquidity, Ids

\* Orders without fills may be added, and orders change their state.
LEMMA GrowsGood ==
  ASSUME NEW b, NEW held, GoodBook(b, held), NEW c \in Seq(OrderType), Grows(b, c),
         \A i \in 1 .. Len(c) : SoundOrder(c[i], Len(c))
  PROVE  GoodBook(c, held)
<1>0. b \in Seq(OrderType) /\ Len(b) \in Nat /\ Len(c) \in Nat
      /\ \A i \in 1 .. Len(b) : i \in 1 .. Len(c) /\ b[i] \in OrderType
  BY DEF GoodBook, Grows
<1>1. ASSUME NEW i \in 1 .. Len(c), c[i].filled > 0
      PROVE  i \in 1 .. Len(b) /\ Same(b[i], c[i]) /\ b[i].filled = c[i].filled
  <2>1. i \in 1 .. Len(b)
    BY <1>0, <1>1 DEF Grows
  <2>2. QED
    BY <2>1 DEF Grows
<1>2. ASSUME NEW i \in 1 .. Len(c), c[i].filled > 0 PROVE ExecDay(c[i]) <= LastClosed
  <2>1. ExecDay(c[i]) = ExecDay(b[i])
    BY <1>1, <1>2, SameFacts
  <2>2. QED
    BY <1>1, <1>2, <2>1 DEF GoodBook
<1>3. \A a \in Accounts, t \in Tickers : held[a][t] = Shares(c, a, t, 1 .. Len(c))
  BY <1>0, GrowsShares DEF GoodBook
<1>4. \A t \in Tickers, d \in Sessions, way \in {-1, 1} : Traded(c, t, d, way) <= Cap
  BY <1>0, GrowsTraded DEF GoodBook
<1>5. Fitting(c)
  <2> SUFFICES ASSUME NEW k \in 1 .. Len(c), c[k].filled > 0
               PROVE  Fits(c[k], Shares(c, c[k].acct, c[k].ticker, Earlier(c, k)))
    BY DEF Fitting
  <2>1. k \in 1 .. Len(b) /\ Same(b[k], c[k]) /\ b[k].filled = c[k].filled
    BY <1>1
  <2>2. PICK a, t : a = b[k].acct /\ t = b[k].ticker
    OBVIOUS
  <2>3. Fits(b[k], Shares(b, a, t, Earlier(b, k)))
    BY <2>1, <2>2 DEF GoodBook, Fitting
  <2>4. Shares(c, a, t, Earlier(c, k)) = Shares(b, a, t, Earlier(b, k))
    BY <1>0, <2>1, GrowsEarlier
  <2>5. c[k].acct = a /\ c[k].ticker = t /\ c[k].side = b[k].side
    BY <2>1, <2>2 DEF Same
  <2>6. QED
    BY <2>1, <2>3, <2>4, <2>5 DEF Fits
<1>6. QED
  BY <1>2, <1>3, <1>4, <1>5 DEF GoodBook

\* Cancelling queued orders keeps a book good,
LEMMA GoodCancelled ==
  ASSUME NEW b, NEW held, GoodBook(b, held), NEW a, NEW S
  PROVE  GoodBook(Cancelled(b, a, S), held) /\ Len(Cancelled(b, a, S)) = Len(b)
<1> DEFINE n == Len(b)
<1>0. b \in Seq(OrderType) /\ n \in Nat /\ DOMAIN b = 1 .. n /\ \A i \in 1 .. n : b[i] \in OrderType
  BY DEF GoodBook
<1>1. PICK c : c = Cancelled(b, a, S)
  OBVIOUS
<1>2. c = [i \in 1 .. n |-> IF b[i].acct = a /\ Queued(b[i]) /\ i \in S
                            THEN [b[i] EXCEPT !.state = "cancelled"] ELSE b[i]]
  BY <1>0, <1>1 DEF Cancelled
<1>3. ASSUME NEW i \in 1 .. n
      PROVE  c[i] \in OrderType /\ Same(b[i], c[i]) /\ c[i].filled = b[i].filled /\ SoundOrder(c[i], n)
  <2>1. b[i] \in OrderType /\ SoundOrder(b[i], n)
    BY <1>0 DEF GoodBook
  <2>2. CASE b[i].acct = a /\ Queued(b[i]) /\ i \in S
    <3>1. PICK o, e : o = b[i] /\ e = c[i]
      OBVIOUS
    <3>2. e = [o EXCEPT !.state = "cancelled"] /\ o \in OrderType
      BY <1>2, <2>1, <2>2, <3>1
    <3>3. e \in OrderType /\ Same(o, e) /\ e.filled = o.filled /\ e.state = "cancelled"
      BY <3>2 DEF OrderType, Same, States
    <3>4. o.filled = 0
      <4>1. o.filled \in Nat
        BY <3>2, OrderFields
      <4>2. o.state # "filled"
        BY <2>2, <3>1 DEF Queued
      <4>3. QED
        BY <2>1, <3>1, <4>1, <4>2 DEF SoundOrder
    <3>5. SoundOrder(e, n)
      <4>1. SoundOrder(o, n)
        BY <2>1, <3>1
      <4>2. QED
        BY <3>3, <3>4, <4>1, SameFacts DEF SoundOrder, Same
    <3>6. QED
      BY <3>1, <3>3, <3>5
  <2>3. CASE ~ (b[i].acct = a /\ Queued(b[i]) /\ i \in S)
    <3>1. c[i] = b[i]
      BY <1>2, <2>3
    <3>2. QED
      BY <2>1, <3>1 DEF Same
  <2>4. QED
    BY <2>2, <2>3
<1>4. c \in Seq(OrderType) /\ Len(c) = n
  <2>1. c \in [1 .. n -> OrderType]
    BY <1>2, <1>3
  <2> HIDE DEF n
  <2>2. QED
    BY <1>0, <2>1
<1>5. Grows(b, c)
  BY <1>0, <1>3, <1>4 DEF Grows
<1>6. \A i \in 1 .. Len(c) : SoundOrder(c[i], Len(c))
  BY <1>3, <1>4
<1>7. GoodBook(c, held)
  BY <1>4, <1>5, <1>6, GrowsGood
<1>8. QED
  BY <1>1, <1>4, <1>7

\* so does a halt,
LEMMA GoodHalt ==
  ASSUME NEW b, NEW held, GoodBook(b, held), NEW a
  PROVE  GoodBook(HaltBook(b, a), held) /\ Len(HaltBook(b, a)) = Len(b)
<1>1. PICK S : S = {i \in DOMAIN b : ~IsForced(b[i])}
  OBVIOUS
<1>2. HaltBook(b, a) = IF status[a] = "halted" THEN b ELSE Cancelled(b, a, S)
  BY <1>1 DEF HaltBook
<1>3. CASE status[a] = "halted"
  BY <1>2, <1>3
<1>4. CASE status[a] # "halted"
  BY <1>2, <1>4, GoodCancelled
<1>5. QED
  BY <1>3, <1>4

\* A new order: queued, and a close when it is forced.
Fresh(o, n) ==
    /\ o \in OrderType /\ o.state = "queued" /\ o.filled = 0 /\ o.parent <= n
    /\ IsForced(o) => o.side \in Closing

\* and so does appending an order that is not filled.
LEMMA GoodAppended ==
  ASSUME NEW b, NEW held, GoodBook(b, held), NEW S, NEW s \in Seq(S),
         \A o \in S : Fresh(o, Len(b))
  PROVE  GoodBook(b \o s, held) /\ Len(b \o s) = Len(b) + Len(s) /\ Len(b) <= Len(b \o s)
<1>0. /\ b \in Seq(OrderType) /\ Len(b) \in Nat /\ Len(s) \in Nat
      /\ \A i \in 1 .. Len(b) : SoundOrder(b[i], Len(b)) /\ b[i] \in OrderType
      /\ \A j \in 1 .. Len(s) : s[j] \in S
  BY DEF GoodBook
<1>1. PICK c : c = b \o s
  OBVIOUS
<1>2. s \in Seq(OrderType)
  <2>1. S \subseteq OrderType
    BY DEF Fresh
  <2>2. s \in [1 .. Len(s) -> OrderType]
    BY <2>1
  <2>3. QED
    BY <1>0, <2>2
<1>3. c \in Seq(OrderType) /\ Len(c) = Len(b) + Len(s)
  BY <1>0, <1>1, <1>2
<1>4. \A i \in 1 .. Len(b) : c[i] = b[i]
  BY <1>0, <1>1, <1>2
<1>5. ASSUME NEW i \in 1 .. Len(c), i > Len(b) PROVE Fresh(c[i], Len(b))
  <2>1. i - Len(b) \in 1 .. Len(s) /\ c[i] = s[i - Len(b)]
    BY <1>0, <1>1, <1>2, <1>3, <1>5
  <2>2. QED
    BY <1>0, <2>1
<1>6. Grows(b, c)
  BY <1>0, <1>3, <1>4, <1>5 DEF Grows, Fresh, Same
<1>7. ASSUME NEW i \in 1 .. Len(c) PROVE SoundOrder(c[i], Len(c))
  <2>1. CASE i > Len(b)
    <3>1. Fresh(c[i], Len(b))
      BY <1>5, <2>1
    <3>2. c[i].qty \in Nat /\ c[i].parent \in Nat
      BY <3>1, OrderFields DEF Fresh
    <3>3. c[i].parent <= Len(c)
      BY <1>0, <1>3, <3>1, <3>2 DEF Fresh
    <3>4. QED
      BY <3>1, <3>2, <3>3 DEF Fresh, SoundOrder
  <2>2. CASE ~ (i > Len(b))
    <3>1. i \in 1 .. Len(b)
      BY <1>0, <2>2
    <3>2. c[i] = b[i] /\ SoundOrder(b[i], Len(b)) /\ b[i].parent \in Nat
      BY <1>0, <1>4, <3>1, OrderFields
    <3>3. QED
      BY <1>0, <1>3, <3>2 DEF SoundOrder
  <2>3. QED
    BY <2>1, <2>2
<1>8. GoodBook(c, held)
  BY <1>3, <1>6, <1>7, GrowsGood
<1>9. QED
  BY <1>0, <1>1, <1>3, <1>8

\* The rows queued together, in some order.
LEMMA SequenceOf ==
  ASSUME NEW S, IsFiniteSet(S)
  PROVE  SetToSeq(S) \in Seq(S)
<1> DEFINE n == Cardinality(S)
<1>1. n \in Nat /\ ExistsBijection(1 .. n, S)
  BY FS_CardinalityType
<1>2. PICK f : f \in Bijection(1 .. n, S)
  BY <1>1 DEF ExistsBijection
<1>3. f \in [1 .. n -> S] /\ \A i, j \in 1 .. n : f[i] = f[j] => i = j
  BY <1>2, Fun_BijectionProperties
<1>4. IsInjective(f)
  BY <1>3 DEF IsInjective
<1>5. SetToSeq(S) \in [1 .. n -> S]
  BY <1>3, <1>4 DEF SetToSeq
<1>6. QED
  BY <1>1, <1>5

\* The image of a finite set is finite.
LEMMA ImageFinite ==
  ASSUME NEW S, IsFiniteSet(S), NEW f
  PROVE  IsFiniteSet({f[x] : x \in S})
<1> DEFINE T == {f[x] : x \in S}
           g == [x \in S |-> f[x]]
<1>1. g \in [S -> T] /\ \A t \in T : \E x \in S : g[x] = t
  OBVIOUS
<1>2. g \in Surjection(S, T)
  <2> HIDE DEF g, T
  <2>1. QED
    BY <1>1, Fun_IsSurj
<1>3. QED
  <2> HIDE DEF g
  <2>1. IsFiniteSet(T)
    BY <1>2, FS_Surjection
  <2>2. QED
    BY <2>1

\* A row that is inserted is queued, unfilled and sound.
LEMMA RecordFresh ==
  ASSUME NEW a \in Accounts, NEW t \in Tickers, NEW side \in Sides, NEW qty \in Nat,
         NEW type \in Types, NEW d \in Int, NEW reason \in Reasons, NEW parent \in Nat,
         NEW n \in Nat, parent <= n, reason # "client" => side \in Closing
  PROVE  Fresh(OrderRecord(a, t, side, qty, type, d, reason, parent), n)
<1>1. PICK timely : timely = Received(type, d, now)
  OBVIOUS
<1>2. timely \in BOOLEAN
  <2>1. CASE type = "next_open"
    BY <1>1, <2>1 DEF Received
  <2>2. CASE type = "moo"
    BY <1>1, <2>2 DEF Received
  <2>3. CASE type = "moc"
    BY <1>1, <2>3 DEF Received
  <2>4. QED
    BY <2>1, <2>2, <2>3 DEF Types
<1>3. PICK o : o = OrderRecord(a, t, side, qty, type, d, reason, parent)
  OBVIOUS
<1>4. o = [acct |-> a, ticker |-> t, side |-> side, qty |-> qty, type |-> type,
           session |-> d, timely |-> timely, reason |-> reason, parent |-> parent,
           state |-> "queued", filled |-> 0]
  BY <1>1, <1>3 DEF OrderRecord
<1>5. o \in OrderType
  BY <1>2, <1>4 DEF OrderType, States
<1>6. Fresh(o, n)
  BY <1>4, <1>5 DEF Fresh, IsForced
<1>7. QED
  BY <1>3, <1>6

\* What the settlement of account a leaves of its fold.
LEMMA FoldGood ==
  ASSUME AccountAssumption, AccountInv, NEW a \in Accounts, NEW f, FoldInv(a, Due(a), f), f.ok
  PROVE  /\ f.pos \in [Tickers -> Int] /\ Len(f.book) = Len(orders)
         /\ GoodBook(f.book, [pos EXCEPT ![a] = f.pos])
         /\ Frozen(a) => \A t \in Tickers : Between(f.pos[t], pos[a][t])
<1> DEFINE n == Len(orders)
           b == f.book
           D == Due(a)
<1>0. /\ n \in Nat /\ Ids = 1 .. n /\ D \in SUBSET Ids /\ orders \in [1 .. n -> OrderType]
      /\ orders \in Seq(OrderType) /\ DOMAIN orders = 1 .. n
  BY InvOrders, IdsFacts DEF Due
<1>1. b \in [1 .. n -> OrderType] /\ f.pos \in [Tickers -> Int]
  BY <1>0 DEF FoldInv, FoldState
<1>2. b \in Seq(OrderType) /\ Len(b) = n /\ DOMAIN b = 1 .. n
  <2> HIDE DEF n, b
  <2>1. QED
    BY <1>0, <1>1
<1>3. \A i \in 1 .. n : /\ Same(orders[i], b[i]) /\ b[i].filled <= b[i].qty /\ b[i].filled \in Nat
                        /\ (b[i].filled > 0) <=> (b[i].state = "filled")
  BY <1>0, <1>1, OrderFields DEF FoldInv, FoldState
<1>4. \A i \in 1 .. n : i \notin D => b[i] = orders[i]
  BY <1>0 DEF FoldInv
<1>5. \A i \in D : i \in 1 .. n /\ orders[i].acct = a /\ ExecDay(orders[i]) <= LastClosed
  BY <1>0 DEF Due
<1>6. \A i \in 1 .. n : i \notin D /\ orders[i].acct = a => b[i].filled = 0
  <2> SUFFICES ASSUME NEW i \in 1 .. n, i \notin D, orders[i].acct = a, orders[i].filled # 0
               PROVE  FALSE
    BY <1>4
  <2>1. orders[i].filled > 0
    BY <1>0, InvOrders
  <2>2. QED
    BY <1>0, <2>1, InvOrders DEF Due
<1>7. ASSUME NEW i \in 1 .. n
      PROVE  SoundOrder(b[i], n) /\ (b[i].filled > 0 => ExecDay(b[i]) <= LastClosed)
  <2>1. SoundOrder(orders[i], n)
    BY <1>0, InvOrders
  <2>2. Same(orders[i], b[i]) /\ ExecDay(b[i]) = ExecDay(orders[i]) /\ IsForced(b[i]) = IsForced(orders[i])
    BY <1>3, SameFacts
  <2>3. SoundOrder(b[i], n)
    BY <1>3, <2>1, <2>2 DEF SoundOrder, Same
  <2>4. b[i].filled > 0 => ExecDay(orders[i]) <= LastClosed
    BY <1>0, <1>4, <1>5, InvOrders
  <2>5. QED
    BY <2>2, <2>3, <2>4
<1>8. ASSUME NEW c, c # a, NEW t, NEW S \in SUBSET (1 .. n)
      PROVE  Shares(orders, c, t, S) = Shares(b, c, t, S)
  <2>1. \A i \in S : Same(orders[i], b[i]) /\ (orders[i].acct = c => b[i].filled = orders[i].filled)
    BY <1>3, <1>4, <1>5, <1>8
  <2>2. \A i \in S \ S : b[i].acct = c => b[i].filled = 0
    OBVIOUS
  <2>3. n \in Nat /\ orders \in [1 .. n -> OrderType] /\ S \subseteq S
    BY <1>0
  <2> HIDE DEF n, b
  <2>4. QED
    BY <1>1, <2>1, <2>2, <2>3, SharesPart
<1>9. ASSUME NEW t, NEW S \in SUBSET D, NEW R \in SUBSET (1 .. n), S \subseteq R,
             \A i \in R : i \in D => i \in S
      PROVE  Shares(b, a, t, S) = Shares(b, a, t, R)
  <2>1. \A i \in S : Same(b[i], b[i]) /\ (b[i].acct = a => b[i].filled = b[i].filled)
    BY DEF Same
  <2>2. \A i \in R \ S : b[i].acct = a => b[i].filled = 0
    BY <1>3, <1>6, <1>9 DEF Same
  <2>3. n \in Nat /\ S \in SUBSET (1 .. n)
    BY <1>0
  <2> HIDE DEF n, b
  <2>4. QED
    BY <1>1, <1>9, <2>1, <2>2, <2>3, SharesPart
<1>10. \A t \in Tickers : f.pos[t] = Shares(b, a, t, 1 .. n)
  <2> SUFFICES ASSUME NEW t \in Tickers PROVE f.pos[t] = Shares(b, a, t, 1 .. n)
    OBVIOUS
  <2>1. f.pos[t] = Shares(b, a, t, D)
    BY DEF FoldInv
  <2>2. D \in SUBSET D /\ 1 .. n \in SUBSET (1 .. n) /\ D \subseteq 1 .. n
    BY <1>0
  <2>3. Shares(b, a, t, D) = Shares(b, a, t, 1 .. n)
    <3> HIDE DEF D, n, b
    <3>1. QED
      BY <1>9, <2>2
  <2>4. QED
    BY <2>1, <2>3
<1>11. \A c \in Accounts, t \in Tickers : [pos EXCEPT ![a] = f.pos][c][t] = Shares(b, c, t, 1 .. n)
  <2> SUFFICES ASSUME NEW c \in Accounts, NEW t \in Tickers
               PROVE  [pos EXCEPT ![a] = f.pos][c][t] = Shares(b, c, t, 1 .. n)
    OBVIOUS
  <2>0. pos \in [Accounts -> [Tickers -> Int]]
    BY DEF AccountInv, TypeOK
  <2>1. CASE c = a
    BY <1>10, <2>0, <2>1
  <2>2. CASE c # a
    <3>1. [pos EXCEPT ![a] = f.pos][c][t] = pos[c][t]
      BY <2>0, <2>2
    <3>2. pos[c][t] = Shares(orders, c, t, 1 .. n)
      BY <1>0 DEF AccountInv, LedgerReplays
    <3>3. 1 .. n \in SUBSET (1 .. n)
      OBVIOUS
    <3>4. Shares(orders, c, t, 1 .. n) = Shares(b, c, t, 1 .. n)
      <4> HIDE DEF n, b
      <4>1. QED
        BY <1>8, <2>2, <3>3
    <3>5. QED
      BY <3>1, <3>2, <3>4
  <2>3. QED
    BY <2>1, <2>2
<1>12. ASSUME NEW k \in 1 .. n, b[k].filled > 0
       PROVE  Fits(b[k], Shares(b, b[k].acct, b[k].ticker, Earlier(b, k)))
  <2>0. PICK c, t : c = orders[k].acct /\ t = orders[k].ticker
    OBVIOUS
  <2>1. b[k].acct = c /\ b[k].ticker = t /\ b[k].side = orders[k].side
    BY <1>3, <2>0 DEF Same
  <2> DEFINE E == Earlier(b, k)
  <2>2. \A i \in 1 .. n : Before(b, i, k) = Before(orders, i, k)
    BY <1>3, SameBefore
  <2>3. E = {i \in 1 .. n : Before(orders, i, k)} /\ E \in SUBSET (1 .. n)
    BY <1>2, <2>2 DEF Earlier
  <2>4. E = Earlier(orders, k)
    BY <1>0, <2>3 DEF Earlier
  <2>5. CASE c = a
    <3>1. k \in D
      <4>1. orders[k].acct = a /\ b[k].filled # 0
        BY <1>3, <1>12, <2>0, <2>5
      <4> HIDE DEF b, D, n
      <4>2. QED
        BY <1>6, <4>1
    <3>2. Fits(b[k], Shares(b, a, t, Preceding(D, k)))
      BY <1>12, <2>0, <3>1 DEF FoldInv
    <3> DEFINE V == Preceding(D, k)
    <3>3. V \in SUBSET D /\ V \subseteq E /\ \A i \in E : i \in D => i \in V
      BY <1>0, <2>3 DEF Preceding
    <3>4. Shares(b, a, t, V) = Shares(b, a, t, E)
      <4> HIDE DEF V, E, D, n, b
      <4>1. QED
        BY <1>9, <2>3, <3>3
    <3>5. QED
      BY <2>1, <2>5, <3>2, <3>4
  <2>6. CASE c # a
    <3>1. orders[k] = b[k]
      BY <1>4, <1>5, <2>0, <2>6
    <3>2. Fits(orders[k], Shares(orders, c, t, Earlier(orders, k)))
      <4>1. orders[k].filled > 0 /\ k \in Ids
        BY <1>0, <1>12, <3>1
      <4>2. Fits(orders[k], Shares(orders, orders[k].acct, orders[k].ticker, Earlier(orders, k)))
        BY <4>1 DEF AccountInv, LedgerReplays
      <4>3. QED
        BY <2>0, <4>2
    <3>3. Shares(orders, c, t, E) = Shares(b, c, t, E)
      <4> HIDE DEF E, n, b
      <4>1. QED
        BY <1>8, <2>3, <2>6
    <3>4. QED
      BY <2>1, <2>4, <3>1, <3>2, <3>3
  <2>7. QED
    BY <2>5, <2>6
<1>13. ASSUME NEW t \in Tickers, NEW d \in Sessions, NEW way \in {-1, 1}
       PROVE  Traded(b, t, d, way) <= Cap
  <2>1. Traded(orders, t, d, way) <= Cap
    BY DEF AccountInv, AggregateLiquidity
  <2>2. \A i \in Ids : Same(orders[i], b[i]) /\ b[i].filled <= b[i].qty
    BY <1>0, <1>3
  <2>3. ASSUME NEW i \in Ids
        PROVE  b[i].filled = orders[i].filled \/ (orders[i].filled = 0 /\ Accepted(i))
    <3>1. CASE i \notin D
      BY <1>0, <1>4, <3>1
    <3>2. CASE i \in D /\ orders[i].filled > 0
      BY <3>2 DEF FoldInv
    <3>3. CASE i \in D /\ orders[i].filled = 0 /\ b[i].filled > 0
      BY <3>3 DEF FoldInv, Executes
    <3>4. orders[i].filled \in Nat /\ b[i].filled \in Nat
      BY <1>0, <1>3, InvOrders
    <3>5. QED
      BY <3>1, <3>2, <3>3, <3>4
  <2>4. b \in [Ids -> OrderType]
    BY <1>0, <1>1
  <2> HIDE DEF b
  <2>5. QED
    BY <1>0, <2>1, <2>2, <2>3, <2>4, TradedWithinCap
<1>14. GoodBook(b, [pos EXCEPT ![a] = f.pos])
  <2>1. Fitting(b)
    BY <1>2, <1>12 DEF Fitting
  <2>2. QED
    BY <1>2, <1>7, <1>11, <1>13, <2>1 DEF GoodBook
<1>15. ASSUME Frozen(a), NEW t \in Tickers PROVE Between(f.pos[t], pos[a][t])
  <2>1. Between(f.pos[t], Shares(orders, a, t, D))
    BY <1>15 DEF FoldInv
  <2>2. Shares(orders, a, t, D) = Shares(orders, a, t, 1 .. n)
    <3>1. \A i \in D : Same(orders[i], orders[i]) /\ (orders[i].acct = a => orders[i].filled = orders[i].filled)
      BY DEF Same
    <3>2. \A i \in (1 .. n) \ D : orders[i].acct = a => orders[i].filled = 0
      BY <1>4, <1>6
    <3> DEFINE R == 1 .. n
    <3>3. n \in Nat /\ D \in SUBSET (1 .. n) /\ R \in SUBSET (1 .. n) /\ D \subseteq R
          /\ orders \in [1 .. n -> OrderType]
      BY <1>0
    <3>4. \A i \in R \ D : orders[i].acct = a => orders[i].filled = 0
      BY <3>2
    <3>5. Shares(orders, a, t, D) = Shares(orders, a, t, R)
      <4> HIDE DEF n, D, R
      <4>1. QED
        BY <3>1, <3>3, <3>4, SharesPart
    <3>6. QED
      BY <3>5
  <2>3. pos[a][t] = Shares(orders, a, t, 1 .. n)
    BY <1>0 DEF AccountInv, LedgerReplays
  <2>4. QED
    BY <2>1, <2>2, <2>3
<1>16. QED
  BY <1>1, <1>2, <1>14, <1>15

-----------------------------------------------------------------------------
(* The actions.                                                            *)

\* The clock's sessions are whole numbers.
LEMMA ClosedInt ==
  ASSUME now \in Nat
  PROVE  LastClosed \in Int /\ Today \in Int
<1>1. now \div 3 \in Int
  OBVIOUS
<1>2. QED
  BY <1>1 DEF LastClosed, Today

\* A step to a good book preserves the invariant.
LEMMA StepInv ==
  ASSUME AccountInv, NEW c, NEW h, orders' = c, pos' = h, GoodBook(c, h),
         h \in [Accounts -> [Tickers -> Int]], status' \in [Accounts -> Statuses],
         Len(c) <= MaxOrders, bars' \subseteq Tickers \X Sessions,
         now' \in 2 .. (3 * LastDay + 2), LastClosed <= LastClosed', LastClosed' \in Int,
         \A a \in Accounts : status'[a] = "retired" => Flat(h[a])
  PROVE  AccountInv'
<1>0. /\ c \in Seq(OrderType) /\ \A i \in 1 .. Len(c) : c[i] \in OrderType
      /\ \A i \in 1 .. Len(c) : SoundOrder(c[i], Len(c))
  BY DEF GoodBook
<1>1. LastClosed \in Int
  <2>1. now \in Nat
    BY AccountAssumption DEF AccountInv, TypeOK, AccountAssumption
  <2>2. QED
    BY <2>1, ClosedInt
<1>2. ASSUME NEW i \in 1 .. Len(c)
      PROVE  /\ c[i].reason \in Reasons /\ c[i].filled \in 0 .. c[i].qty
             /\ (c[i].filled > 0) = (c[i].state = "filled")
             /\ c[i].filled > 0 => ExecDay(c[i]) <= LastClosed'
  <2>1. c[i].reason \in Reasons /\ c[i].filled \in Nat /\ c[i].qty \in Nat /\ ExecDay(c[i]) \in Int
    BY <1>0, OrderFields, OrderFacts
  <2>2. c[i].filled <= c[i].qty /\ ((c[i].filled > 0) <=> (c[i].state = "filled"))
    BY <1>0 DEF SoundOrder
  <2>3. c[i].filled > 0 => ExecDay(c[i]) <= LastClosed
    BY DEF GoodBook
  <2>4. c[i].filled > 0 => ExecDay(c[i]) <= LastClosed'
    BY <1>1, <2>1, <2>3
  <2>5. QED
    BY <2>1, <2>2, <2>4
<1>3. TypeOK'
  BY <1>2 DEF TypeOK, Ids
<1>4. LedgerReplays'
  BY DEF GoodBook, Fitting, LedgerReplays, Ids
<1>5. AggregateLiquidity'
  BY DEF GoodBook, AggregateLiquidity
<1>6. (orders \in Seq(OrderType))' /\ (\A a \in Accounts : status[a] = "retired" => Flat(pos[a]))'
  BY <1>0
<1>7. (\A i \in Ids : /\ SoundOrder(orders[i], Len(orders))
                      /\ orders[i].filled > 0 => ExecDay(orders[i]) <= LastClosed)'
  BY <1>0, <1>2 DEF Ids
<1>8. QED
  BY <1>3, <1>4, <1>5, <1>6, <1>7 DEF AccountInv

\* The same when the clock and the bars stand still.
LEMMA StillInv ==
  ASSUME AccountInv, NEW c, NEW h, orders' = c, pos' = h, GoodBook(c, h),
         h \in [Accounts -> [Tickers -> Int]], status' \in [Accounts -> Statuses],
         Len(c) <= MaxOrders, UNCHANGED <<now, bars>>,
         \A a \in Accounts : status'[a] = "retired" => Flat(h[a])
  PROVE  AccountInv'
<1>1. now \in Nat /\ now \in 2 .. (3 * LastDay + 2) /\ bars \subseteq Tickers \X Sessions
  BY AccountAssumption DEF AccountInv, TypeOK, AccountAssumption
<1>2. LastClosed' = LastClosed /\ LastClosed \in Int
  BY <1>1, ClosedInt DEF LastClosed, AfterClose, Today
<1>3. LastClosed <= LastClosed' /\ LastClosed' \in Int
  BY <1>2
<1>4. bars' \subseteq Tickers \X Sessions /\ now' \in 2 .. (3 * LastDay + 2)
  BY <1>1
<1>5. QED
  BY <1>3, <1>4, StepInv

\* The types and what retirement leaves, taken from the invariant.
LEMMA InvTypes ==
  ASSUME AccountInv
  PROVE  /\ now \in Nat /\ LastClosed \in Int /\ Today \in Int /\ Len(orders) \in Nat
         /\ status \in [Accounts -> Statuses] /\ pos \in [Accounts -> [Tickers -> Int]]
         /\ Len(orders) <= MaxOrders /\ MaxOrders \in Nat
         /\ \A a \in Accounts : status[a] = "retired" => Flat(pos[a])
<1>1. now \in Nat
  BY AccountAssumption DEF AccountInv, TypeOK, AccountAssumption
<1>2. Len(orders) \in Nat
  BY InvOrders
<1>3. QED
  BY <1>1, <1>2, ClosedInt, AccountAssumption DEF AccountInv, TypeOK, AccountAssumption

\* Time passes: a closed session stays closed.
LEMMA TickInv == ASSUME AccountInv, Tick PROVE AccountInv'
<1>1. now \in Nat /\ now' = now + 1 /\ now' \in 2 .. (3 * LastDay + 2) /\ now' \in Nat
  BY AccountAssumption DEF AccountInv, TypeOK, AccountAssumption, Tick
<1>2. LastClosed \in Int /\ LastClosed' \in Int /\ LastClosed <= LastClosed'
  <2>1. PICK q : q = now \div 3
    OBVIOUS
  <2>2. PICK r : r = now % 3
    OBVIOUS
  <2>3. q \in Nat /\ r \in 0 .. 2 /\ now = 3 * q + r
    BY <1>1, <2>1, <2>2
  <2>4. CASE r = 2
    <3>1. now' = 3 * (q + 1)
      BY <1>1, <2>3, <2>4
    <3>2. now' \div 3 = q + 1 /\ now' % 3 = 0
      BY <2>3, <3>1
    <3>3. QED
      BY <2>1, <2>2, <2>3, <2>4, <3>2 DEF LastClosed, AfterClose, Today
  <2>5. CASE r # 2
    <3>1. now' = 3 * q + (r + 1) /\ r + 1 \in 0 .. 2
      BY <1>1, <2>3, <2>5
    <3>2. now' \div 3 = q
      BY <2>3, <3>1
    <3>3. QED
      BY <2>1, <2>2, <2>3, <2>5, <3>2 DEF LastClosed, AfterClose, Today
  <2>6. QED
    BY <2>4, <2>5
<1>3. GoodBook(orders, pos) /\ orders' = orders /\ pos' = pos /\ status' = status /\ bars' = bars
  BY InvGood DEF Tick
<1>4. bars' \subseteq Tickers \X Sessions
  BY <1>3 DEF AccountInv, TypeOK
<1>5. status' \in [Accounts -> Statuses] /\ \A a \in Accounts : status'[a] = "retired" => Flat(pos[a])
  BY <1>3, InvTypes
<1>6. QED
  BY <1>1, <1>2, <1>3, <1>4, <1>5, InvTypes, StepInv

\* A bar arrives: the books are as they were.
LEMMA DeliverInv ==
  ASSUME AccountInv, NEW t \in Tickers, NEW d \in Sessions, Deliver(t, d)
  PROVE  AccountInv'
<1>1. GoodBook(orders, pos) /\ orders' = orders /\ pos' = pos /\ status' = status /\ now' = now
  BY InvGood DEF Deliver
<1>2. LastClosed' = LastClosed
  BY <1>1 DEF LastClosed, AfterClose, Today
<1>3. LastClosed <= LastClosed' /\ LastClosed' \in Int
  BY <1>2, InvTypes
<1>4. now' \in 2 .. (3 * LastDay + 2) /\ bars' \subseteq Tickers \X Sessions
  BY <1>1 DEF AccountInv, TypeOK, Deliver
<1>5. status' \in [Accounts -> Statuses] /\ \A a \in Accounts : status'[a] = "retired" => Flat(pos[a])
  BY <1>1, InvTypes
<1>6. QED
  BY <1>1, <1>3, <1>4, <1>5, InvTypes, StepInv

\* submit_intent appends a fresh order.
LEMMA SubmitInv ==
  ASSUME AccountInv, NEW i \in Intents, NEW d \in Sessions, Submit(i, d)
  PROVE  AccountInv'
<1>0. i.acct \in Accounts /\ i.ticker \in Tickers /\ i.side \in Sides /\ i.qty \in Nat /\ i.type \in Types
      /\ d \in Int
  BY AccountAssumption DEF AccountAssumption, Sessions
<1>1. PICK parent \in {0} \cup Parents(i, d) :
        orders' = Append(orders, OrderRecord(i.acct, i.ticker, i.side, i.qty, i.type,
                                             d, "client", parent))
  BY DEF Submit
<1>2. parent \in Nat /\ parent <= Len(orders)
  BY InvTypes DEF Parents, Ids
<1>3. PICK o : o = OrderRecord(i.acct, i.ticker, i.side, i.qty, i.type, d, "client", parent)
  OBVIOUS
<1>4. Fresh(o, Len(orders))
  BY <1>0, <1>2, <1>3, InvTypes, RecordFresh DEF Reasons
<1>5. PICK s : s = <<o>>
  OBVIOUS
<1>6. PICK S : S = {o}
  OBVIOUS
<1>7. GoodBook(orders \o s, pos) /\ Len(orders \o s) = Len(orders) + 1
  <2>1. s \in Seq(S) /\ Len(s) = 1 /\ \A e \in S : Fresh(e, Len(orders))
    BY <1>4, <1>5, <1>6
  <2>2. QED
    BY <2>1, InvGood, GoodAppended
<1>8. orders' = orders \o s
  BY <1>1, <1>3, <1>5, InvOrders
<1>9. Len(orders') <= MaxOrders
  BY <1>7, <1>8, InvTypes DEF Submit
<1>10. status' \in [Accounts -> Statuses]
       /\ \A a \in Accounts : status'[a] = "retired" => Flat(pos[a])
  BY <1>0, InvTypes DEF Submit, Statuses
<1>11. pos' = pos /\ UNCHANGED <<now, bars>>
  BY DEF Submit
<1>12. PICK c : c = orders \o s
  OBVIOUS
<1>13. QED
  BY <1>7, <1>8, <1>9, <1>10, <1>11, <1>12, InvTypes, StillInv

\* cancel changes the state of a queued order only.
LEMMA CancelInv ==
  ASSUME AccountInv, NEW k \in Ids, Cancel(k)
  PROVE  AccountInv'
<1>1. PICK c : c = Cancelled(orders, orders[k].acct, {k})
  OBVIOUS
<1>2. GoodBook(c, pos) /\ Len(c) = Len(orders)
  BY <1>1, InvGood, GoodCancelled
<1>3. orders' = c /\ pos' = pos /\ status' = status /\ UNCHANGED <<now, bars>>
  BY <1>1 DEF Cancel
<1>4. Len(c) <= MaxOrders /\ status' \in [Accounts -> Statuses]
      /\ \A a \in Accounts : status'[a] = "retired" => Flat(pos[a])
  BY <1>2, <1>3, InvTypes
<1>5. QED
  BY <1>2, <1>3, <1>4, InvTypes, StillInv

\* halt_account, by its owner or after a failed settlement.
LEMMA HaltedInv ==
  ASSUME AccountInv, NEW a \in Accounts, status' = HaltStatus(a), orders' = HaltBook(orders, a),
         UNCHANGED <<now, bars, pos>>
  PROVE  AccountInv'
<1>1. PICK c : c = HaltBook(orders, a)
  OBVIOUS
<1>2. GoodBook(c, pos) /\ Len(c) = Len(orders)
  BY <1>1, InvGood, GoodHalt
<1>3. orders' = c /\ pos' = pos /\ UNCHANGED <<now, bars>>
  BY <1>1
<1>4. Len(c) <= MaxOrders /\ status' \in [Accounts -> Statuses]
      /\ \A e \in Accounts : status'[e] = "retired" => Flat(pos[e])
  BY <1>2, InvTypes DEF HaltStatus, Statuses
<1>5. QED
  BY <1>2, <1>3, <1>4, InvTypes, StillInv

\* resume changes the status only.
LEMMA ResumeInv ==
  ASSUME AccountInv, NEW a \in Accounts, Resume(a)
  PROVE  AccountInv'
<1>1. orders' = orders /\ pos' = pos /\ UNCHANGED <<now, bars>> /\ GoodBook(orders, pos)
  BY InvGood DEF Resume
<1>2. status' \in [Accounts -> Statuses]
      /\ \A e \in Accounts : status'[e] = "retired" => Flat(pos[e])
  BY InvTypes DEF Resume, Statuses
<1>3. QED
  BY <1>1, <1>2, InvTypes, StillInv

\* The close of a position is a closing order for all of it.
LEMMA CloseFacts ==
  ASSUME NEW p \in Int, p # 0
  PROVE  CloseSide(p) \in Closing /\ CloseSide(p) \in Sides /\ Magnitude(p) \in Nat
BY DEF CloseSide, Closing, Sides, Magnitude

\* retire cancels the opening orders and appends one close per position.
LEMMA RetireInv ==
  ASSUME AccountInv, NEW a \in Accounts, Retire(a)
  PROVE  AccountInv'
<1> DEFINE d == Today + 1
           opened == {i \in Ids : orders[i].side \notin Closing}
           U == {u \in Tickers : pos[a][u] # 0}
           F == [t \in U |-> OrderRecord(a, t, CloseSide(pos[a][t]), Magnitude(pos[a][t]), "moc", d,
                                         "retirement", 0)]
           closes == {F[t] : t \in U}
<1>0. d \in Int
  BY InvTypes
<1>1. closes = {OrderRecord(a, t, CloseSide(pos[a][t]), Magnitude(pos[a][t]), "moc", d,
                            "retirement", 0) : t \in {u \in Tickers : pos[a][u] # 0}}
  OBVIOUS
<1>2. IsFiniteSet(closes)
  <2>1. IsFiniteSet(U)
    BY AccountAssumption, FS_Subset DEF AccountAssumption
  <2> HIDE DEF U, F
  <2>2. QED
    BY <2>1, ImageFinite
<1>3. ASSUME NEW t \in U PROVE Fresh(F[t], Len(orders))
  <2>1. t \in Tickers /\ pos[a][t] \in Int /\ pos[a][t] # 0
    BY InvTypes
  <2>2. PICK side, qty : side = CloseSide(pos[a][t]) /\ qty = Magnitude(pos[a][t])
    OBVIOUS
  <2>3. side \in Sides /\ side \in Closing /\ qty \in Nat
    BY <2>1, <2>2, CloseFacts
  <2>4. Fresh(OrderRecord(a, t, side, qty, "moc", d, "retirement", 0), Len(orders))
    <3>1. "moc" \in Types /\ "retirement" \in Reasons /\ Len(orders) \in Nat /\ 0 \in Nat /\ 0 <= Len(orders)
      BY InvTypes DEF Types, Reasons
    <3> HIDE DEF d
    <3>2. QED
      BY <1>0, <2>1, <2>3, <3>1, RecordFresh
  <2>5. QED
    BY <2>2, <2>4
<1>4. \A o \in closes : Fresh(o, Len(orders))
  <2> HIDE DEF F, U
  <2>1. QED
    BY <1>3
<1>5. /\ orders' = Cancelled(orders, a, opened) \o SetToSeq(closes)
      /\ Len(orders') <= MaxOrders
      /\ status' = [status EXCEPT ![a] = IF closes = {} THEN "retired" ELSE "retiring"]
      /\ UNCHANGED <<now, bars, pos>>
  BY <1>1 DEF Retire
<1>6. closes = {} => Flat(pos[a])
  BY DEF Flat
<1> HIDE DEF closes, opened
<1>7. PICK b, s : b = Cancelled(orders, a, opened) /\ s = SetToSeq(closes)
  OBVIOUS
<1>8. GoodBook(b, pos) /\ Len(b) = Len(orders)
  BY <1>7, InvGood, GoodCancelled
<1>9. s \in Seq(closes)
  BY <1>2, <1>7, SequenceOf
<1>10. PICK c : c = b \o s
  OBVIOUS
<1>11. GoodBook(c, pos)
  <2>1. \A o \in closes : Fresh(o, Len(b))
    BY <1>4, <1>8
  <2>2. GoodBook(b \o s, pos)
    BY <1>8, <1>9, <2>1, GoodAppended
  <2>3. QED
    BY <1>10, <2>2
<1>12. orders' = c /\ Len(c) <= MaxOrders /\ pos' = pos /\ UNCHANGED <<now, bars>>
  BY <1>5, <1>7, <1>10
<1>13. status' \in [Accounts -> Statuses]
       /\ \A e \in Accounts : status'[e] = "retired" => Flat(pos[e])
  BY <1>5, <1>6, InvTypes DEF Statuses
<1>14. QED
  BY <1>11, <1>12, <1>13, InvTypes, StillInv

\* The margin calls are finitely many fresh orders,
LEMMA CallsFresh ==
  ASSUME AccountInv, NEW a \in Accounts, NEW book, NEW held \in [Tickers -> Int],
         NEW whole, NEW n \in Nat
  PROVE  /\ IsFiniteSet(MarginCalls(a, book, held, whole))
         /\ \A o \in MarginCalls(a, book, held, whole) : Fresh(o, n)
<1> DEFINE U == {u \in Tickers : held[u] # 0 /\ ~Pends(book, a, u, "margin_call")}
           Q(t) == IF whole THEN Magnitude(held[t]) ELSE 1
           F == [t \in U |-> OrderRecord(a, t, CloseSide(held[t]), Q(t), "next_open", LastClosed,
                                         "margin_call", 0)]
           calls == {F[t] : t \in U}
<1>1. calls = MarginCalls(a, book, held, whole)
  BY DEF MarginCalls
<1>2. IsFiniteSet(calls)
  <2>1. IsFiniteSet(U)
    BY AccountAssumption, FS_Subset DEF AccountAssumption
  <2> HIDE DEF U, F
  <2>2. QED
    BY <2>1, ImageFinite
<1>3. ASSUME NEW t \in U PROVE Fresh(F[t], n)
  <2>1. t \in Tickers /\ held[t] \in Int /\ held[t] # 0
    OBVIOUS
  <2>2. PICK side, qty : side = CloseSide(held[t]) /\ qty = Q(t)
    OBVIOUS
  <2>3. side \in Sides /\ side \in Closing /\ qty \in Nat
    BY <2>1, <2>2, CloseFacts
  <2>4. Fresh(OrderRecord(a, t, side, qty, "next_open", LastClosed, "margin_call", 0), n)
    <3>1. "next_open" \in Types /\ "margin_call" \in Reasons /\ LastClosed \in Int /\ 0 \in Nat /\ 0 <= n
      BY InvTypes DEF Types, Reasons
    <3>2. QED
      BY <2>1, <2>3, <3>1, RecordFresh
  <2>5. QED
    BY <2>2, <2>4
<1>4. \A o \in calls : Fresh(o, n)
  <2> HIDE DEF F, U
  <2>1. QED
    BY <1>3
<1>5. QED
  BY <1>1, <1>2, <1>4

\* and so are the buy-ins.
LEMMA BuyInsFresh ==
  ASSUME AccountInv, NEW a \in Accounts, NEW book, NEW held \in [Tickers -> Int],
         NEW listed \in SUBSET Tickers, NEW n \in Nat
  PROVE  /\ IsFiniteSet(BuyIns(a, book, held, listed))
         /\ \A o \in BuyIns(a, book, held, listed) : Fresh(o, n)
<1> DEFINE U == {u \in listed : held[u] < 0 /\ ~Pends(book, a, u, "buy_in")}
           F == [t \in U |-> OrderRecord(a, t, "cover", -held[t], "next_open", LastClosed,
                                         "buy_in", 0)]
           calls == {F[t] : t \in U}
<1>1. calls = BuyIns(a, book, held, listed)
  BY DEF BuyIns
<1>2. IsFiniteSet(calls)
  <2>1. U \in SUBSET Tickers /\ IsFiniteSet(Tickers)
    BY AccountAssumption DEF AccountAssumption
  <2> HIDE DEF U, F
  <2>2. QED
    BY <2>1, FS_Subset, ImageFinite
<1>3. ASSUME NEW t \in U PROVE Fresh(F[t], n)
  <2>1. t \in Tickers /\ held[t] \in Int /\ held[t] < 0
    OBVIOUS
  <2>2. PICK qty : qty = -held[t]
    OBVIOUS
  <2>3. qty \in Nat
    BY <2>1, <2>2
  <2>4. Fresh(OrderRecord(a, t, "cover", qty, "next_open", LastClosed, "buy_in", 0), n)
    <3>1. "next_open" \in Types /\ "buy_in" \in Reasons /\ LastClosed \in Int /\ 0 \in Nat /\ 0 <= n
          /\ "cover" \in Sides /\ "cover" \in Closing
      BY InvTypes DEF Types, Reasons, Sides, Closing
    <3>2. QED
      BY <2>1, <2>3, <3>1, RecordFresh
  <2>5. QED
    BY <2>2, <2>4
<1>4. \A o \in calls : Fresh(o, n)
  <2> HIDE DEF F, U
  <2>1. QED
    BY <1>3
<1>5. QED
  BY <1>1, <1>2, <1>4

\* A settlement preserves the invariant, moves no other account, and leaves
\* a frozen account between flat and what it held.
LEMMA SettleInv ==
  ASSUME AccountInv, NEW a \in Accounts, Settle(a)
  PROVE  /\ AccountInv'
         /\ \A c \in Accounts : c # a => pos'[c] = pos[c]
         /\ Frozen(a) => \A t \in Tickers : Between(pos'[a][t], pos[a][t])
<1>1. PICK refused \in SUBSET Refusable(a) :
        LET fold == Fold(a, refused)
        IN  /\ fold.ok
            /\ pos' = [pos EXCEPT ![a] = fold.pos]
            /\ \E breach \in IF status[a] = "halted" THEN {FALSE} ELSE BOOLEAN :
                LET book == IF breach THEN HaltBook(fold.book, a) ELSE fold.book
                IN  /\ \E called \in {{}, MarginCalls(a, book, fold.pos, FALSE),
                                          MarginCalls(a, book, fold.pos, TRUE)},
                          listed \in SUBSET {t \in Tickers : fold.pos[t] < 0} :
                        /\ orders' = book \o SetToSeq(called)
                                          \o SetToSeq(BuyIns(a, book, fold.pos, listed))
                        /\ Len(orders') <= MaxOrders
                    /\ status' = [status EXCEPT ![a] =
                            CASE breach -> "halted"
                              [] ~breach /\ status[a] = "retiring" /\ Flat(fold.pos) -> "retired"
                              [] OTHER -> status[a]]
  BY DEF Settle
<1>2. PICK f : f = Fold(a, refused)
  OBVIOUS
<1>3. PICK breach \in BOOLEAN :
        LET book == IF breach THEN HaltBook(f.book, a) ELSE f.book
        IN  /\ \E called \in {{}, MarginCalls(a, book, f.pos, FALSE),
                                  MarginCalls(a, book, f.pos, TRUE)},
                  listed \in SUBSET {t \in Tickers : f.pos[t] < 0} :
                /\ orders' = book \o SetToSeq(called)
                                  \o SetToSeq(BuyIns(a, book, f.pos, listed))
                /\ Len(orders') <= MaxOrders
            /\ status' = [status EXCEPT ![a] =
                    CASE breach -> "halted"
                      [] ~breach /\ status[a] = "retiring" /\ Flat(f.pos) -> "retired"
                      [] OTHER -> status[a]]
  BY <1>1, <1>2
<1>4. f.ok /\ pos' = [pos EXCEPT ![a] = f.pos] /\ UNCHANGED <<now, bars>>
      /\ status[a] # "retired"
  <2>1. f.ok /\ pos' = [pos EXCEPT ![a] = f.pos]
    BY <1>1, <1>2
  <2>2. QED
    BY <2>1 DEF Settle
<1>5. PICK book : book = IF breach THEN HaltBook(f.book, a) ELSE f.book
  OBVIOUS
<1>6. PICK called \in {{}, MarginCalls(a, book, f.pos, FALSE), MarginCalls(a, book, f.pos, TRUE)},
           listed \in SUBSET {t \in Tickers : f.pos[t] < 0} :
        /\ orders' = book \o SetToSeq(called) \o SetToSeq(BuyIns(a, book, f.pos, listed))
        /\ Len(orders') <= MaxOrders
  BY <1>3, <1>5
<1>7. status' = [status EXCEPT ![a] =
                    CASE breach -> "halted"
                      [] ~breach /\ status[a] = "retiring" /\ Flat(f.pos) -> "retired"
                      [] OTHER -> status[a]]
  BY <1>3
<1>8. FoldInv(a, Due(a), f)
  BY <1>2, FoldHolds
<1>9. /\ f.pos \in [Tickers -> Int] /\ Len(f.book) = Len(orders)
      /\ GoodBook(f.book, [pos EXCEPT ![a] = f.pos])
      /\ Frozen(a) => \A t \in Tickers : Between(f.pos[t], pos[a][t])
  BY <1>4, <1>8, AccountAssumption, FoldGood
<1>10. PICK h : h = [pos EXCEPT ![a] = f.pos]
  OBVIOUS
<1>11. GoodBook(book, h) /\ Len(book) \in Nat
  <2>1. GoodBook(f.book, h)
    BY <1>9, <1>10
  <2>2. GoodBook(HaltBook(f.book, a), h)
    BY <2>1, GoodHalt
  <2>3. GoodBook(book, h)
    BY <1>5, <2>1, <2>2
  <2>4. QED
    BY <2>3 DEF GoodBook
<1>12. PICK s, b : s = SetToSeq(called) /\ b = book \o s
  OBVIOUS
<1>13. GoodBook(b, h) /\ Len(b) \in Nat
  <2>1. IsFiniteSet(called) /\ \A o \in called : Fresh(o, Len(book))
    <3>1. CASE called = {}
      BY <3>1, FS_EmptySet
    <3>2. CASE called = MarginCalls(a, book, f.pos, FALSE)
      BY <1>9, <1>11, <3>2, CallsFresh
    <3>3. CASE called = MarginCalls(a, book, f.pos, TRUE)
      BY <1>9, <1>11, <3>3, CallsFresh
    <3>4. QED
      BY <1>6, <3>1, <3>2, <3>3
  <2>2. s \in Seq(called)
    BY <1>12, <2>1, SequenceOf
  <2>3. GoodBook(book \o s, h)
    BY <1>11, <2>1, <2>2, GoodAppended
  <2>4. QED
    BY <1>12, <2>3 DEF GoodBook
<1>14. PICK ins, r, c : ins = BuyIns(a, book, f.pos, listed) /\ r = SetToSeq(ins) /\ c = b \o r
  OBVIOUS
<1>15. GoodBook(c, h)
  <2>1. listed \in SUBSET Tickers
    BY <1>6
  <2>2. IsFiniteSet(ins) /\ \A o \in ins : Fresh(o, Len(b))
    BY <1>9, <1>13, <1>14, <2>1, BuyInsFresh
  <2>3. r \in Seq(ins)
    BY <1>14, <2>2, SequenceOf
  <2>4. GoodBook(b \o r, h)
    BY <1>13, <2>2, <2>3, GoodAppended
  <2>5. QED
    BY <1>14, <2>4
<1>16. orders' = c /\ Len(c) <= MaxOrders /\ pos' = h
  BY <1>4, <1>6, <1>10, <1>12, <1>14
<1>17. h \in [Accounts -> [Tickers -> Int]] /\ h[a] = f.pos /\ \A e \in Accounts : e # a => h[e] = pos[e]
  BY <1>9, <1>10, InvTypes
<1>18. PICK st : st = CASE breach -> "halted"
                      [] ~breach /\ status[a] = "retiring" /\ Flat(f.pos) -> "retired"
                      [] OTHER -> status[a]
  OBVIOUS
<1>19. st \in Statuses /\ (st = "retired" => Flat(f.pos))
  <2>1. status[a] \in Statuses
    BY InvTypes
  <2>2. CASE breach
    BY <1>18, <2>2 DEF Statuses
  <2>3. CASE ~breach /\ status[a] = "retiring" /\ Flat(f.pos)
    BY <1>18, <2>3 DEF Statuses
  <2>4. CASE ~breach /\ ~ (status[a] = "retiring" /\ Flat(f.pos))
    <3>1. st = status[a]
      BY <1>18, <2>4
    <3>2. QED
      BY <1>4, <2>1, <3>1
  <2>5. QED
    BY <2>2, <2>3, <2>4
<1>20. status' = [status EXCEPT ![a] = st]
  BY <1>7, <1>18
<1>21. status' \in [Accounts -> Statuses] /\ \A e \in Accounts : status'[e] = "retired" => Flat(h[e])
  <2>1. status \in [Accounts -> Statuses] /\ \A e \in Accounts : status[e] = "retired" => Flat(pos[e])
    BY InvTypes
  <2>2. \A e \in Accounts : status'[e] = IF e = a THEN st ELSE status[e]
    BY <1>20, <2>1
  <2>3. status' \in [Accounts -> Statuses]
    BY <1>19, <1>20, <2>1
  <2>4. QED
    BY <1>17, <1>19, <2>1, <2>2, <2>3
<1>22. AccountInv'
  BY <1>4, <1>15, <1>16, <1>17, <1>21, StillInv
<1>23. QED
  BY <1>9, <1>16, <1>17, <1>22

-----------------------------------------------------------------------------
(* The theorems.                                                           *)

\* No orders, no positions.
LEMMA InitInv == ASSUME Init PROVE AccountInv
<1>0. /\ now = 2 /\ bars = {} /\ status = [a \in Accounts |-> "inactive"]
      /\ pos = [a \in Accounts |-> [t \in Tickers |-> 0]] /\ orders = <<>>
  BY DEF Init
<1>1. Ids = {} /\ Len(orders) = 0 /\ orders \in Seq(OrderType) /\ DOMAIN orders = {}
  BY <1>0 DEF Ids
<1>2. TypeOK
  <2>1. 2 \in 2 .. (3 * LastDay + 2) /\ 0 <= MaxOrders
    BY AccountAssumption DEF AccountAssumption
  <2>2. [a \in Accounts |-> [t \in Tickers |-> 0]] \in [Accounts -> [Tickers -> Int]]
    OBVIOUS
  <2>3. [a \in Accounts |-> "inactive"] \in [Accounts -> Statuses]
    BY DEF Statuses
  <2>4. QED
    BY <1>0, <1>1, <2>1, <2>2, <2>3 DEF TypeOK
<1>3. LedgerReplays
  <2>1. \A a \in Accounts, t \in Tickers : Shares(orders, a, t, {}) = 0 /\ pos[a][t] = 0
    BY <1>0, SharesNone
  <2>2. QED
    BY <1>1, <2>1 DEF LedgerReplays
<1>4. AggregateLiquidity
  <2> SUFFICES ASSUME NEW t, NEW d, NEW way PROVE Traded(orders, t, d, way) <= Cap
    BY DEF AggregateLiquidity
  <2>1. Flow(orders, t, d, way) = {}
    BY <1>1 DEF Flow
  <2>2. Traded(orders, t, d, way) = 0
    BY <2>1, SumNone DEF Traded
  <2>3. QED
    BY <2>2, AccountAssumption DEF AccountAssumption
<1>5. QED
  BY <1>0, <1>1, <1>2, <1>3, <1>4 DEF AccountInv

\* Every step preserves the invariant, and a frozen account only shrinks.
LEMMA NextInv ==
  ASSUME AccountInv, [Next]_vars
  PROVE  /\ AccountInv'
         /\ \A a \in Accounts, t \in Tickers : Frozen(a) => Between(pos'[a][t], pos[a][t])
<1>0. \A a \in Accounts, t \in Tickers : pos[a][t] \in Int
  BY InvTypes
<1>1. \A a \in Accounts, t \in Tickers : Between(pos[a][t], pos[a][t])
  BY <1>0 DEF Between
<1>2. CASE Tick
  BY <1>1, <1>2, TickInv DEF Tick
<1>3. ASSUME NEW t \in Tickers, NEW d \in Sessions, Deliver(t, d)
      PROVE  AccountInv' /\ pos' = pos
  BY <1>3, DeliverInv DEF Deliver
<1>4. ASSUME NEW i \in Intents, NEW d \in Sessions, Submit(i, d)
      PROVE  AccountInv' /\ pos' = pos
  BY <1>4, SubmitInv DEF Submit
<1>5. ASSUME NEW k \in Ids, Cancel(k)
      PROVE  AccountInv' /\ pos' = pos
  BY <1>5, CancelInv DEF Cancel
<1>6. ASSUME NEW a \in Accounts, Settle(a)
      PROVE  /\ AccountInv'
             /\ \A c \in Accounts, t \in Tickers : Frozen(c) => Between(pos'[c][t], pos[c][t])
  BY <1>1, <1>6, SettleInv
<1>7. ASSUME NEW a \in Accounts, SettleFails(a)
      PROVE  AccountInv' /\ pos' = pos
  BY <1>7, HaltedInv DEF SettleFails
<1>8. ASSUME NEW a \in Supervised, Halt(a) \/ Resume(a) \/ Retire(a)
      PROVE  AccountInv' /\ pos' = pos
  <2>0. a \in Accounts
    BY AccountAssumption DEF AccountAssumption
  <2>1. CASE Halt(a)
    BY <2>0, <2>1, HaltedInv DEF Halt
  <2>2. CASE Resume(a)
    BY <2>0, <2>2, ResumeInv DEF Resume
  <2>3. CASE Retire(a)
    BY <2>0, <2>3, RetireInv DEF Retire
  <2>4. QED
    BY <1>8, <2>1, <2>2, <2>3
<1>9. CASE UNCHANGED vars
  <2>1. orders' = orders /\ pos' = pos /\ UNCHANGED <<now, bars>> /\ status' = status
    BY <1>9 DEF vars
  <2>2. status' \in [Accounts -> Statuses] /\ \A a \in Accounts : status'[a] = "retired" => Flat(pos[a])
    BY <2>1, InvTypes
  <2>3. AccountInv'
    BY <2>1, <2>2, InvGood, InvTypes, StillInv
  <2>4. QED
    BY <1>1, <2>1, <2>3
<1>10. QED
  BY <1>1, <1>2, <1>3, <1>4, <1>5, <1>6, <1>7, <1>8, <1>9 DEF Next

\* The invariant of the accounts (AccountInv) holds in every state: orders,
\* fills and positions stay well formed through intake, settlement with late
\* bars, failures, halts and retirement.
THEOREM AccountsSound == Spec => []AccountInv
<1>1. Init => AccountInv
  BY InitInv
<1>2. AccountInv /\ [Next]_vars => AccountInv'
  BY NextInv
<1>3. QED
  BY <1>1, <1>2, PTL DEF Spec

\* The types of the account engine's state.
THEOREM AccountsTyped == Spec => []TypeOK
<1>1. AccountInv => TypeOK
  BY DEF AccountInv
<1>2. QED
  BY <1>1, AccountsSound, PTL

\* fold_account reproduces the cached positions from the stored fills, and
\* every stored fill applies at its own place in effective time, for any
\* number of accounts, names, sessions and orders.
THEOREM LedgerAlwaysReplays == Spec => []LedgerReplays
<1>1. AccountInv => LedgerReplays
  BY DEF AccountInv
<1>2. QED
  BY <1>1, AccountsSound, PTL

\* _liquidity_refusals keeps the accounts together within the volume of each
\* session and direction, in whatever order they are settled.
THEOREM LiquidityShared == Spec => []AggregateLiquidity
<1>1. AccountInv => AggregateLiquidity
  BY DEF AccountInv
<1>2. QED
  BY <1>1, AccountsSound, PTL

\* No step gives an account that is halted or retiring more exposure or turns
\* a position around, and an account is retired only when it is flat.
THEOREM FrozenOnlyShrinks == Spec => OnlyShrinks
<1> DEFINE A == \A a \in Accounts, t \in Tickers :
                  /\ status[a] \in {"halted", "retiring"} =>
                        \/ pos[a][t] >= pos'[a][t] /\ pos'[a][t] >= 0
                        \/ pos[a][t] <= pos'[a][t] /\ pos'[a][t] <= 0
                  /\ status'[a] = "retired" => pos'[a][t] = 0
<1>1. AccountInv /\ [Next]_vars => A
  <2> SUFFICES ASSUME AccountInv, [Next]_vars PROVE A
    OBVIOUS
  <2>1. AccountInv' /\ \A a \in Accounts, t \in Tickers : Frozen(a) => Between(pos'[a][t], pos[a][t])
    BY NextInv
  <2>2. \A a \in Accounts, t \in Tickers : status'[a] = "retired" => pos'[a][t] = 0
    BY <2>1 DEF AccountInv, Flat
  <2>3. QED
    BY <2>1, <2>2 DEF Frozen, Between
<1>2. AccountInv /\ [Next]_vars => [A]_vars
  BY <1>1
<1>3. QED
  BY <1>2, AccountsSound, PTL DEF Spec, OnlyShrinks
=============================================================================

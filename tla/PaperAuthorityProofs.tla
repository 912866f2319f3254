------------------------ MODULE PaperAuthorityProofs ------------------------
(***************************************************************************)
(* Proofs about PaperAuthority: however many threads, leases, keys and     *)
(* processes there are, no lease is overspent, its orders stand under its  *)
(* own anchor, no key is spent twice or sent by submit_once too, and at    *)
(* most one lease is open to a process.                                    *)
(***************************************************************************)
EXTENDS PaperAuthority, SumTheorems, FiniteSetTheorems

-----------------------------------------------------------------------------
(* Transcripts, and what an appended row does to them.                     *)

\* The fields of a row.
LEMMA RowFields ==
  ASSUME NEW r \in Row
  PROVE  /\ r.lease \in Leases /\ r.key \in Keys \union {"none"}
         /\ r.notional \in Nat
         /\ r.epoch \in 1 .. MaxEpochs /\ r.control \in 1 .. MaxControl
         /\ r.epoch \in Nat /\ r.control \in Nat
<1>1. Notionals \union {0} \subseteq Nat
  BY AuthorityAssumption
<1>2. /\ r.lease \in Leases /\ r.key \in Keys \union {"none"}
      /\ r.notional \in Notionals \union {0}
      /\ r.epoch \in 1 .. MaxEpochs /\ r.control \in 1 .. MaxControl
  BY DEF Row
<1>3. QED
  BY <1>1, <1>2

\* A retained transcript has a first row.
LEMMA FirstRow ==
  ASSUME NEW rs \in Seq(Row), NEW l, Retained(l, rs)
  PROVE  /\ Min(RowsOf(l, rs)) \in RowsOf(l, rs)
         /\ \A i \in RowsOf(l, rs) : Min(RowsOf(l, rs)) <= i
<1> DEFINE T == RowsOf(l, rs)
<1>1. T \in SUBSET Nat
  BY DEF RowsOf
<1>2. \E x \in T : \A y \in T : x <= y
  <2> HIDE DEF T
  <2>1. QED
    BY <1>1, Least DEF Retained, T
<1>3. QED
  BY <1>2 DEF Min

\* What Append does to the table.
LEMMA Appended ==
  ASSUME NEW rs \in Seq(Row), NEW r \in Row
  PROVE  /\ Append(rs, r) \in Seq(Row)
         /\ Len(rs) \in Nat /\ Len(Append(rs, r)) = Len(rs) + 1
         /\ DOMAIN rs = 1 .. Len(rs)
         /\ DOMAIN Append(rs, r) = 1 .. Len(rs) + 1
         /\ Append(rs, r)[Len(rs) + 1] = r
         /\ \A i \in DOMAIN rs : Append(rs, r)[i] = rs[i]
OBVIOUS

\* An appended row joins the transcript of its lease and no other.
LEMMA AppendedRows ==
  ASSUME NEW rs \in Seq(Row), NEW r \in Row, NEW l
  PROVE  /\ r.lease = l => RowsOf(l, Append(rs, r)) = RowsOf(l, rs) \union {Len(rs) + 1}
         /\ r.lease # l => RowsOf(l, Append(rs, r)) = RowsOf(l, rs)
         /\ Retained(l, Append(rs, r)) <=> Retained(l, rs) \/ r.lease = l
<1> DEFINE q == Append(rs, r)
<1>1. /\ Len(rs) \in Nat /\ DOMAIN rs = 1 .. Len(rs)
      /\ DOMAIN q = 1 .. Len(rs) + 1
      /\ q[Len(rs) + 1] = r
      /\ \A i \in DOMAIN rs : q[i] = rs[i]
  BY Appended
<1> HIDE DEF q
<1>2. \A i \in DOMAIN q : i \in DOMAIN rs \/ i = Len(rs) + 1
  BY <1>1
<1>3. DOMAIN rs \subseteq DOMAIN q /\ Len(rs) + 1 \in DOMAIN q /\ Len(rs) + 1 \notin DOMAIN rs
  BY <1>1
<1>4. r.lease = l => RowsOf(l, q) = RowsOf(l, rs) \union {Len(rs) + 1}
  BY <1>1, <1>2, <1>3 DEF RowsOf
<1>5. r.lease # l => RowsOf(l, q) = RowsOf(l, rs)
  BY <1>1, <1>2, <1>3 DEF RowsOf
<1>6. QED
  BY <1>4, <1>5 DEF Retained, q

\* The first row of a retained transcript stays the first, and the row that
\* begins a transcript is its activation.
LEMMA AppendedFirst ==
  ASSUME NEW rs \in Seq(Row), NEW r \in Row, NEW l
  PROVE  /\ Retained(l, rs) =>
              /\ Min(RowsOf(l, Append(rs, r))) = Min(RowsOf(l, rs))
              /\ Activation(l, Append(rs, r)) = Activation(l, rs)
         /\ ~ Retained(l, rs) /\ r.lease = l =>
              /\ Min(RowsOf(l, Append(rs, r))) = Len(rs) + 1
              /\ Activation(l, Append(rs, r)) = r
<1> DEFINE q == Append(rs, r)
<1>1. /\ q \in Seq(Row)
      /\ Len(rs) \in Nat /\ DOMAIN rs = 1 .. Len(rs)
      /\ q[Len(rs) + 1] = r
      /\ \A i \in DOMAIN rs : q[i] = rs[i]
  BY Appended
<1>2. /\ r.lease = l => RowsOf(l, q) = RowsOf(l, rs) \union {Len(rs) + 1}
      /\ r.lease # l => RowsOf(l, q) = RowsOf(l, rs)
      /\ Retained(l, q) <=> Retained(l, rs) \/ r.lease = l
  BY AppendedRows
<1> HIDE DEF q
<1>3. ASSUME Retained(l, rs)
      PROVE  Min(RowsOf(l, q)) = Min(RowsOf(l, rs)) /\ Activation(l, q) = Activation(l, rs)
  <2> DEFINE a == Min(RowsOf(l, rs))
             b == Min(RowsOf(l, q))
  <2>1. a \in RowsOf(l, rs) /\ \A i \in RowsOf(l, rs) : a <= i
    BY <1>3, FirstRow
  <2>2. b \in RowsOf(l, q) /\ \A i \in RowsOf(l, q) : b <= i
    BY <1>1, <1>2, <1>3, FirstRow
  <2>3. RowsOf(l, rs) \subseteq 1 .. Len(rs)
    BY <1>1 DEF RowsOf
  <2> HIDE DEF a, b
  <2>4. a \in RowsOf(l, q) /\ a \in 1 .. Len(rs) /\ b <= a
    BY <1>2, <2>1, <2>2, <2>3
  <2>5. b \in RowsOf(l, rs)
    BY <1>1, <1>2, <2>2, <2>3, <2>4
  <2>6. a = b
    BY <2>1, <2>2, <2>3, <2>4, <2>5
  <2>7. q[a] = rs[a]
    BY <1>1, <2>4
  <2>8. QED
    BY <2>6, <2>7 DEF a, b, Activation
<1>4. ASSUME ~ Retained(l, rs), r.lease = l
      PROVE  Min(RowsOf(l, q)) = Len(rs) + 1 /\ Activation(l, q) = r
  <2>1. RowsOf(l, q) = {Len(rs) + 1}
    BY <1>2, <1>4 DEF Retained
  <2>2. Min(RowsOf(l, q)) = Len(rs) + 1
    BY <1>1, <1>2, <1>4, <2>1, FirstRow
  <2>3. QED
    BY <1>1, <2>2 DEF Activation
<1>5. QED
  BY <1>3, <1>4 DEF q

\* The rows after the first: an appended row is one of them when its lease
\* was retained.
LEMMA AppendedLater ==
  ASSUME NEW rs \in Seq(Row), NEW r \in Row, NEW l
  PROVE  /\ r.lease = l /\ Retained(l, rs) =>
              Later(l, Append(rs, r)) = Later(l, rs) \union {Len(rs) + 1}
         /\ ~ (r.lease = l /\ Retained(l, rs)) => Later(l, Append(rs, r)) = Later(l, rs)
         /\ Later(l, rs) \subseteq 1 .. Len(rs)
<1> DEFINE q == Append(rs, r)
<1>1. Len(rs) \in Nat /\ RowsOf(l, rs) \subseteq 1 .. Len(rs)
  BY Appended DEF RowsOf
<1>2. /\ r.lease = l => RowsOf(l, q) = RowsOf(l, rs) \union {Len(rs) + 1}
      /\ r.lease # l => RowsOf(l, q) = RowsOf(l, rs)
      /\ Retained(l, rs) => Min(RowsOf(l, q)) = Min(RowsOf(l, rs))
      /\ ~ Retained(l, rs) /\ r.lease = l => Min(RowsOf(l, q)) = Len(rs) + 1
  BY AppendedRows, AppendedFirst
<1>3. Retained(l, rs) => Min(RowsOf(l, rs)) \in 1 .. Len(rs)
  BY <1>1, FirstRow
<1> HIDE DEF q
<1>4. CASE r.lease = l /\ Retained(l, rs)
  <2>1. Min(RowsOf(l, q)) # Len(rs) + 1
    BY <1>1, <1>2, <1>3, <1>4
  <2>2. Later(l, q) = Later(l, rs) \union {Len(rs) + 1}
    BY <1>2, <1>4, <2>1 DEF Later
  <2>3. QED
    BY <1>1, <1>4, <2>2 DEF Later, q
<1>5. CASE r.lease = l /\ ~ Retained(l, rs)
  <2>1. RowsOf(l, q) = {Len(rs) + 1} /\ RowsOf(l, rs) = {}
    BY <1>2, <1>5 DEF Retained
  <2>2. Later(l, q) = {} /\ Later(l, rs) = {}
    BY <1>2, <1>5, <2>1 DEF Later
  <2>3. QED
    BY <1>5, <2>2 DEF q
<1>6. CASE r.lease # l
  BY <1>1, <1>2, <1>6 DEF Later, q
<1>7. QED
  BY <1>4, <1>5, <1>6

\* The notional of each row after the first, and nothing for the others.
Spent(l, rs) == [i \in DOMAIN rs |-> IF i \in Later(l, rs) THEN rs[i].notional ELSE 0]

LEMMA SpentType ==
  ASSUME NEW rs \in Seq(Row), NEW l
  PROVE  Spent(l, rs) \in Seq(Nat) /\ Len(Spent(l, rs)) = Len(rs)
<1>1. Len(rs) \in Nat /\ DOMAIN rs = 1 .. Len(rs) /\ \A i \in DOMAIN rs : rs[i] \in Row
  OBVIOUS
<1>2. \A i \in DOMAIN rs : rs[i].notional \in Nat
  BY <1>1, RowFields
<1>3. Spent(l, rs) \in [1 .. Len(rs) -> Nat]
  BY <1>1, <1>2 DEF Spent
<1>4. QED
  BY <1>1, <1>3

\* Both counters are naturals, and an order adds itself to those of its lease.
LEMMA UsageType ==
  ASSUME NEW rs \in Seq(Row), NEW l
  PROVE  Consumptions(l, rs) \in Nat /\ ConsumedNotional(l, rs) \in Nat
         /\ IsFiniteSet(Later(l, rs))
<1>1. Len(rs) \in Nat /\ Later(l, rs) \subseteq 1 .. Len(rs)
  BY DEF Later, RowsOf
<1>2. IsFiniteSet(Later(l, rs))
  <2>1. IsFiniteSet(1 .. Len(rs))
    BY <1>1, FS_Interval
  <2>2. QED
    BY <1>1, <2>1, FS_Subset
<1>3. Consumptions(l, rs) \in Nat
  BY <1>2, FS_CardinalityType DEF Consumptions
<1>4. Total(Spent(l, rs)) \in Nat
  BY SpentType, PartialSums
<1>5. QED
  BY <1>2, <1>3, <1>4 DEF ConsumedNotional, Spent

LEMMA AppendedUsage ==
  ASSUME NEW rs \in Seq(Row), NEW r \in Row, NEW l
  PROVE  /\ r.lease = l /\ Retained(l, rs) =>
              /\ Consumptions(l, Append(rs, r)) = Consumptions(l, rs) + 1
              /\ ConsumedNotional(l, Append(rs, r)) = ConsumedNotional(l, rs) + r.notional
         /\ ~ (r.lease = l /\ Retained(l, rs)) =>
              /\ Consumptions(l, Append(rs, r)) = Consumptions(l, rs)
              /\ ConsumedNotional(l, Append(rs, r)) = ConsumedNotional(l, rs)
<1> DEFINE q == Append(rs, r)
           v == Spent(l, rs)
           u == Spent(l, q)
<1>1. /\ q \in Seq(Row)
      /\ Len(rs) \in Nat /\ Len(q) = Len(rs) + 1
      /\ DOMAIN rs = 1 .. Len(rs)
      /\ DOMAIN q = 1 .. Len(rs) + 1
      /\ q[Len(rs) + 1] = r
      /\ \A i \in DOMAIN rs : q[i] = rs[i]
  BY Appended
<1>2. /\ r.lease = l /\ Retained(l, rs) => Later(l, q) = Later(l, rs) \union {Len(rs) + 1}
      /\ ~ (r.lease = l /\ Retained(l, rs)) => Later(l, q) = Later(l, rs)
      /\ Later(l, rs) \subseteq 1 .. Len(rs)
  BY AppendedLater
<1>3. IsFiniteSet(Later(l, rs)) /\ Consumptions(l, rs) \in Nat /\ ConsumedNotional(l, rs) \in Nat
  BY UsageType
<1> HIDE DEF q
<1>4. Len(rs) + 1 \notin Later(l, rs) /\ Len(rs) + 1 \in DOMAIN q
  BY <1>1, <1>2
<1>5. r.lease = l /\ Retained(l, rs) => Consumptions(l, q) = Consumptions(l, rs) + 1
  BY <1>2, <1>3, <1>4, FS_AddElement DEF Consumptions
<1>6. v \in Seq(Nat) /\ u \in Seq(Nat) /\ Len(v) = Len(rs) /\ Len(u) = Len(rs) + 1
  BY <1>1, SpentType
<1>7. \A i \in 1 .. Len(rs) : u[i] = v[i]
  <2> TAKE i \in 1 .. Len(rs)
  <2>1. i \in DOMAIN rs /\ i \in DOMAIN q /\ i # Len(rs) + 1
    BY <1>1
  <2>2. i \in Later(l, q) <=> i \in Later(l, rs)
    BY <1>2, <2>1
  <2>3. QED
    BY <1>1, <2>1, <2>2 DEF Spent
<1>8. u[Len(rs) + 1] = IF r.lease = l /\ Retained(l, rs) THEN r.notional ELSE 0
  BY <1>1, <1>2, <1>4 DEF Spent
<1>9. Total(u) = Total(v) + u[Len(rs) + 1]
  <2> HIDE DEF u, v
  <2>1. QED
    BY <1>6, <1>7, TotalGrows
<1>10. ConsumedNotional(l, q) = Total(u) /\ ConsumedNotional(l, rs) = Total(v)
  BY DEF ConsumedNotional, Spent
<1>11. ~ (r.lease = l /\ Retained(l, rs)) => Consumptions(l, q) = Consumptions(l, rs)
  BY <1>2 DEF Consumptions
<1> HIDE DEF u, v
<1>12. CASE r.lease = l /\ Retained(l, rs)
  BY <1>5, <1>8, <1>9, <1>10, <1>12 DEF q
<1>13. CASE ~ (r.lease = l /\ Retained(l, rs))
  BY <1>3, <1>8, <1>9, <1>10, <1>11, <1>13 DEF q
<1>14. QED
  BY <1>12, <1>13

-----------------------------------------------------------------------------
(* The inductive invariant, in parts.                                      *)

\* What a thread holds.
WorkerStates ==
  {Idle}
  \union [pc : {"activate"}, lease : Leases, head : Nat, epoch : 1 .. MaxEpochs,
          control : 1 .. MaxControl, fresh : BOOLEAN]
  \union [pc : {"consume"}, lease : Leases, key : Keys, notional : Notionals,
          head : Nat, epoch : 1 .. MaxEpochs, control : 1 .. MaxControl,
          fresh : BOOLEAN]

Shapes == TypeOK /\ worker \in [Workers -> WorkerStates]

\* A transcript begins with its only activation, and every row of it carries
\* the epoch and the anchor of that one.
Transcripts == \A i \in DOMAIN rows :
  LET first == Min(RowsOf(rows[i].lease, rows)) IN
  /\ rows[first].key = "none"
  /\ rows[i].epoch = rows[first].epoch /\ rows[i].control = rows[first].control
  /\ rows[i].key = "none" => i = first
  /\ rows[i].control <= control

\* A thread that still has the head it planned from: an activation found no
\* lease open to its process, and an order its lease under the same anchor.
PlanHolds(w) ==
  LET a == worker[w] IN
  /\ a.pc # "idle" => a.head <= Len(rows) /\ a.control <= control
  /\ a.pc = "activate" /\ a.head = Len(rows) =>
       \A l \in Leases : Retained(l, rows) =>
         ~ IsOpen(l, rows, a.epoch, a.control, expired)
  /\ a.pc = "consume" /\ a.head = Len(rows) =>
       /\ Retained(a.lease, rows)
       /\ Activation(a.lease, rows).epoch = a.epoch
       /\ Activation(a.lease, rows).control = a.control

PlansHold == \A w \in Workers : PlanHolds(w)

\* Of the leases of one epoch at most one is open, whichever process asks.
OneOpen == \A e \in 0 .. MaxEpochs, l, m \in Leases :
  /\ Retained(l, rows) /\ IsOpen(l, rows, e, control, expired)
  /\ Retained(m, rows) /\ IsOpen(m, rows, e, control, expired)
  => l = m

\* A key is spent once, with its risk evaluation and its marker, and never
\* by submit_once.
KeysApart ==
  /\ \A i, j \in DOMAIN rows :
       rows[i].key # "none" /\ rows[i].key = rows[j].key => i = j
  /\ \A k \in Keys : k \in risk <=> \E i \in DOMAIN rows : rows[i].key = k
  /\ risk \subseteq started /\ called \subseteq started
  /\ risk \intersect called = {}

\* What the transcript of a lease has spent is within the lease.
UsageWithin == \A l \in Leases :
  Consumptions(l, rows) <= max_orders /\ ConsumedNotional(l, rows) <= capital_ceiling

AuthorityInv ==
  Shapes /\ Transcripts /\ PlansHold /\ OneOpen /\ KeysApart /\ UsageWithin

-----------------------------------------------------------------------------
(* Open leases.                                                            *)

LEMMA OpenMeans ==
  ASSUME NEW l, NEW rs, NEW ep, NEW ctl, NEW past
  PROVE  IsOpen(l, rs, ep, ctl, past) <=>
           /\ ep = Activation(l, rs).epoch
           /\ ~ (ctl > Activation(l, rs).control)
           /\ l \notin past
           /\ ~ (Consumptions(l, rs) >= max_orders)
           /\ ~ (ConsumedNotional(l, rs) >= capital_ceiling)
BY DEF IsOpen, State

\* The activation of a retained lease is a row.
LEMMA ActivationType ==
  ASSUME NEW rs \in Seq(Row), NEW l, Retained(l, rs)
  PROVE  /\ Activation(l, rs) \in Row
         /\ Activation(l, rs).epoch \in Nat /\ Activation(l, rs).control \in Nat
<1>1. Min(RowsOf(l, rs)) \in DOMAIN rs
  BY FirstRow DEF RowsOf
<1>2. Activation(l, rs) \in Row
  BY <1>1 DEF Activation
<1>3. QED
  BY <1>2, RowFields

\* A lease that is open was open before a halt and before an expiry.
LEMMA OpenEarlier ==
  ASSUME NEW rs \in Seq(Row), NEW l, Retained(l, rs), NEW ep,
         NEW ctl \in Nat, NEW next \in Nat, ctl <= next,
         NEW past, NEW later, past \subseteq later,
         IsOpen(l, rs, ep, next, later)
  PROVE  IsOpen(l, rs, ep, ctl, past)
<1>1. Activation(l, rs).control \in Nat
  BY ActivationType
<1>2. QED
  BY <1>1, OpenMeans

\* A retained lease that is open was open before the last row.
LEMMA OpenShorter ==
  ASSUME NEW rs \in Seq(Row), NEW r \in Row, NEW l, Retained(l, rs),
         NEW ep, NEW ctl, NEW past,
         IsOpen(l, Append(rs, r), ep, ctl, past)
  PROVE  IsOpen(l, rs, ep, ctl, past)
<1> DEFINE q == Append(rs, r)
<1>1. /\ ep = Activation(l, q).epoch /\ ~ (ctl > Activation(l, q).control) /\ l \notin past
      /\ ~ (Consumptions(l, q) >= max_orders) /\ ~ (ConsumedNotional(l, q) >= capital_ceiling)
  BY OpenMeans
<1>2. Activation(l, q) = Activation(l, rs)
  BY AppendedFirst
<1>3. /\ Consumptions(l, rs) \in Nat /\ ConsumedNotional(l, rs) \in Nat
      /\ r.notional \in Nat /\ max_orders \in Nat /\ capital_ceiling \in Nat
  BY UsageType, RowFields, AuthorityAssumption
<1>4. /\ Consumptions(l, q) = Consumptions(l, rs) \/ Consumptions(l, q) = Consumptions(l, rs) + 1
      /\ \/ ConsumedNotional(l, q) = ConsumedNotional(l, rs)
         \/ ConsumedNotional(l, q) = ConsumedNotional(l, rs) + r.notional
  BY AppendedUsage
<1> HIDE DEF q
<1>5. ~ (Consumptions(l, rs) >= max_orders)
  BY <1>1, <1>3, <1>4
<1>6. ~ (ConsumedNotional(l, rs) >= capital_ceiling)
  BY <1>1, <1>3, <1>4
<1>7. QED
  BY <1>1, <1>2, <1>5, <1>6, OpenMeans

-----------------------------------------------------------------------------
(* What a thread holds, and what a step does to the table.                 *)

LEMMA WorkerFields ==
  ASSUME NEW a \in WorkerStates
  PROVE  /\ a.pc \in {"idle", "activate", "consume"}
         /\ a.pc # "idle" =>
              /\ a.lease \in Leases /\ a.head \in Nat
              /\ a.epoch \in 1 .. MaxEpochs /\ a.control \in 1 .. MaxControl
              /\ a.epoch \in Nat /\ a.control \in Nat
         /\ a.pc = "consume" => a.key \in Keys /\ a.notional \in Notionals
<1>1. CASE a = Idle
  BY <1>1 DEF Idle
<1>2. CASE a # Idle
  <2>1. /\ a.pc \in {"activate", "consume"}
        /\ a.lease \in Leases /\ a.head \in Nat
        /\ a.epoch \in 1 .. MaxEpochs /\ a.control \in 1 .. MaxControl
    BY <1>2 DEF WorkerStates
  <2>2. a.pc = "consume" => a.key \in Keys /\ a.notional \in Notionals
    BY <1>2 DEF WorkerStates
  <2>3. QED
    BY <2>1, <2>2
<1>3. QED
  BY <1>1, <1>2

\* Evidence that ages stays what it is otherwise.
LEMMA Aged ==
  ASSUME NEW a \in WorkerStates, a.pc # "idle"
  PROVE  LET b == [a EXCEPT !.fresh = FALSE] IN
         /\ b \in WorkerStates
         /\ b.pc = a.pc /\ b.lease = a.lease /\ b.head = a.head
         /\ b.epoch = a.epoch /\ b.control = a.control
<1>1. a # Idle
  BY DEF Idle
<1>2. CASE a \in [pc : {"activate"}, lease : Leases, head : Nat, epoch : 1 .. MaxEpochs,
                  control : 1 .. MaxControl, fresh : BOOLEAN]
  BY <1>2 DEF WorkerStates
<1>3. CASE a \in [pc : {"consume"}, lease : Leases, key : Keys, notional : Notionals,
                  head : Nat, epoch : 1 .. MaxEpochs, control : 1 .. MaxControl,
                  fresh : BOOLEAN]
  BY <1>3 DEF WorkerStates
<1>4. QED
  BY <1>1, <1>2, <1>3 DEF WorkerStates

\* The row that record_activation appends.
ActivationRow(w) ==
  [lease |-> worker[w].lease, key |-> "none", notional |-> 0,
   epoch |-> worker[w].epoch, control |-> worker[w].control]

\* The two steps that append.
Activates(w) ==
  /\ worker[w].pc = "activate" /\ MayActivate(w)
  /\ rows' = Append(rows, ActivationRow(w))
  /\ UNCHANGED <<risk, started, called, control, expired>>

Consumes(w) ==
  /\ worker[w].pc = "consume" /\ MayConsume(w)
  /\ ResultVerifies(w, Append(rows, ConsumptionRow(w)))
  /\ rows' = Append(rows, ConsumptionRow(w))
  /\ risk' = risk \union {worker[w].key}
  /\ started' = started \union {worker[w].key}
  /\ UNCHANGED <<called, control, expired>>

\* The others leave the table alone.
KeepsRows ==
  /\ rows' = rows /\ risk' = risk
  /\ control \in Nat /\ control' \in Nat /\ control <= control' /\ expired \subseteq expired'
  /\ \/ UNCHANGED <<started, called>>
     \/ \E k \in Keys : /\ k \notin started
                        /\ started' = started \union {k} /\ called' = called \union {k}

LEMMA TableSteps ==
  ASSUME Shapes, [Next]_vars
  PROVE  KeepsRows \/ \E w \in Workers : Activates(w) \/ Consumes(w)
<1>0. control \in Nat /\ control <= control /\ control + 1 \in Nat /\ control <= control + 1
  BY AuthorityAssumption DEF Shapes, TypeOK
<1>1. CASE \E p \in Procs : ProcessStarts(p)
  BY <1>0, <1>1 DEF ProcessStarts, KeepsRows, ledgerVars
<1>2. CASE HaltRecorded
  BY <1>0, <1>2 DEF HaltRecorded, KeepsRows, ledgerVars
<1>3. CASE \E l \in Leases : LeaseExpires(l)
  BY <1>0, <1>3 DEF LeaseExpires, KeepsRows, ledgerVars
<1>4. CASE \E w \in Workers, l \in Leases : PlanActivation(w, l)
  BY <1>0, <1>4 DEF PlanActivation, KeepsRows, ledgerVars, clockVars
<1>5. CASE \E w \in Workers, l \in Leases, k \in Keys, n \in Notionals :
             PlanConsumption(w, l, k, n)
  BY <1>0, <1>5 DEF PlanConsumption, KeepsRows, ledgerVars, clockVars
<1>6. ASSUME NEW w \in Workers, RecordActivation(w)
      PROVE  KeepsRows \/ Activates(w)
  BY <1>0, <1>6 DEF RecordActivation, KeepsRows, ledgerVars, clockVars, Activates, ActivationRow
<1>7. CASE \E w \in Workers : EvidenceAges(w)
  BY <1>0, <1>7 DEF EvidenceAges, KeepsRows, ledgerVars, clockVars
<1>8. ASSUME NEW w \in Workers, RecordPreCall(w)
      PROVE  KeepsRows \/ Consumes(w)
  BY <1>0, <1>8 DEF RecordPreCall, KeepsRows, clockVars, Consumes
<1>9. CASE \E k \in Keys : SubmitOnceRecords(k)
  BY <1>0, <1>9 DEF SubmitOnceRecords, KeepsRows, clockVars
<1>10. CASE \E k \in Keys : SubmitOnceBegins(k)
  BY <1>0, <1>10 DEF SubmitOnceBegins, KeepsRows, clockVars
<1>11. CASE UNCHANGED vars
  BY <1>0, <1>11 DEF vars, KeepsRows
<1>12. QED
  BY <1>1, <1>2, <1>3, <1>4, <1>5, <1>6, <1>7, <1>8, <1>9, <1>10, <1>11 DEF Next

\* The appended rows are rows.
LEMMA AppendsRows ==
  ASSUME Shapes, NEW w \in Workers
  PROVE  /\ rows \in Seq(Row)
         /\ worker[w].pc = "activate" => ActivationRow(w) \in Row
         /\ worker[w].pc = "consume" => ConsumptionRow(w) \in Row
<1>1. worker[w] \in WorkerStates /\ control \in 1 .. MaxControl /\ rows \in Seq(Row)
  BY DEF Shapes, TypeOK
<1>2. /\ worker[w].pc # "idle" =>
           /\ worker[w].lease \in Leases
           /\ worker[w].epoch \in 1 .. MaxEpochs /\ worker[w].control \in 1 .. MaxControl
      /\ worker[w].pc = "consume" => worker[w].key \in Keys /\ worker[w].notional \in Notionals
  BY <1>1, WorkerFields
<1>3. QED
  BY <1>1, <1>2 DEF ActivationRow, ConsumptionRow, Row

-----------------------------------------------------------------------------
(* Every step keeps each part of the invariant.                            *)

LEMMA AuthorityInit == ASSUME Init PROVE AuthorityInv
<1>0. rows = <<>> /\ rows \in Seq(Row) /\ DOMAIN rows = {} /\ Len(rows) = 0
  BY DEF Init
<1>1. Shapes
  <2>1. control \in 1 .. MaxControl /\ 0 \in 0 .. MaxEpochs
    BY AuthorityAssumption DEF Init
  <2>2. TypeOK
    BY <1>0, <2>1 DEF Init, TypeOK
  <2>3. worker \in [Workers -> WorkerStates]
    BY DEF Init, WorkerStates
  <2>4. QED
    BY <2>2, <2>3 DEF Shapes
<1>2. Transcripts /\ OneOpen /\ KeysApart
  BY <1>0 DEF Init, Transcripts, OneOpen, KeysApart, Retained, RowsOf
<1>3. PlansHold
  BY DEF Init, PlansHold, PlanHolds, Idle
<1>4. UsageWithin
  <2> SUFFICES ASSUME NEW l \in Leases
               PROVE  /\ Consumptions(l, rows) <= max_orders
                      /\ ConsumedNotional(l, rows) <= capital_ceiling
    BY DEF UsageWithin
  <2>1. Later(l, rows) = {}
    BY <1>0 DEF Later, RowsOf
  <2>2. Consumptions(l, rows) = 0
    BY <2>1, FS_EmptySet DEF Consumptions
  <2>3. Spent(l, rows) = <<>>
    BY <1>0 DEF Spent
  <2>4. Total(<<>>) = 0
    <3>1. <<>> \in Seq(Nat) /\ Len(<<>>) = 0
      OBVIOUS
    <3>2. QED
      BY <3>1, PartialSums DEF Total
  <2>5. ConsumedNotional(l, rows) = 0
    BY <2>3, <2>4 DEF ConsumedNotional, Spent
  <2>6. QED
    BY <2>2, <2>5, AuthorityAssumption
<1>5. QED
  BY <1>1, <1>2, <1>3, <1>4 DEF AuthorityInv

LEMMA ShapesStep == ASSUME Shapes, [Next]_vars PROVE Shapes'
<1>0. /\ rows \in Seq(Row)
      /\ risk \subseteq Keys /\ intent \subseteq Keys /\ started \subseteq Keys
      /\ control \in 1 .. MaxControl
      /\ epoch \in [Procs -> 0 .. MaxEpochs] /\ epochs \in 0 .. MaxEpochs
      /\ expired \subseteq Leases
      /\ sender \subseteq Keys /\ called \subseteq Keys /\ rolledBack \subseteq Keys
      /\ worker \in [Workers -> WorkerStates]
      /\ Idle \in WorkerStates
  BY DEF Shapes, TypeOK, WorkerStates
<1>1. CASE \E p \in Procs : ProcessStarts(p)
  <2> PICK p \in Procs : ProcessStarts(p)
    BY <1>1
  <2>1. epochs + 1 \in 0 .. MaxEpochs
    BY <1>0, AuthorityAssumption DEF ProcessStarts
  <2>2. epoch' \in [Procs -> 0 .. MaxEpochs] /\ epochs' \in 0 .. MaxEpochs
    BY <1>0, <2>1 DEF ProcessStarts
  <2>3. worker' \in [Workers -> WorkerStates]
    BY <1>0 DEF ProcessStarts
  <2>4. QED
    BY <1>0, <2>2, <2>3 DEF ProcessStarts, ledgerVars, Shapes, TypeOK
<1>2. CASE HaltRecorded
  <2>1. control' \in 1 .. MaxControl
    BY <1>0, <1>2, AuthorityAssumption DEF HaltRecorded
  <2>2. QED
    BY <1>0, <1>2, <2>1 DEF HaltRecorded, ledgerVars, Shapes, TypeOK
<1>3. CASE \E l \in Leases : LeaseExpires(l)
  BY <1>0, <1>3 DEF LeaseExpires, ledgerVars, Shapes, TypeOK
<1>4. CASE \E w \in Workers, l \in Leases : PlanActivation(w, l)
  <2> PICK w \in Workers, l \in Leases : PlanActivation(w, l)
    BY <1>4
  <2>1. epoch[ProcOf[w]] \in 1 .. MaxEpochs /\ Len(rows) \in Nat
    BY <1>0, AuthorityAssumption DEF PlanActivation, Running
  <2>2. [pc |-> "activate", lease |-> l, head |-> Len(rows), epoch |-> epoch[ProcOf[w]],
         control |-> control, fresh |-> TRUE] \in WorkerStates
    BY <1>0, <2>1 DEF WorkerStates
  <2>3. worker' \in [Workers -> WorkerStates]
    BY <1>0, <2>2 DEF PlanActivation
  <2>4. QED
    BY <1>0, <2>3 DEF PlanActivation, ledgerVars, clockVars, Shapes, TypeOK
<1>5. CASE \E w \in Workers, l \in Leases, k \in Keys, n \in Notionals :
             PlanConsumption(w, l, k, n)
  <2> PICK w \in Workers, l \in Leases, k \in Keys, n \in Notionals :
             PlanConsumption(w, l, k, n)
    BY <1>5
  <2>1. epoch[ProcOf[w]] \in 1 .. MaxEpochs /\ Len(rows) \in Nat
    BY <1>0, AuthorityAssumption DEF PlanConsumption, Running
  <2>2. [pc |-> "consume", lease |-> l, key |-> k, notional |-> n, head |-> Len(rows),
         epoch |-> epoch[ProcOf[w]], control |-> control, fresh |-> TRUE] \in WorkerStates
    BY <1>0, <2>1 DEF WorkerStates
  <2>3. worker' \in [Workers -> WorkerStates]
    BY <1>0, <2>2 DEF PlanConsumption
  <2>4. QED
    BY <1>0, <2>3 DEF PlanConsumption, ledgerVars, clockVars, Shapes, TypeOK
<1>6. CASE \E w \in Workers : RecordActivation(w)
  <2> PICK w \in Workers : RecordActivation(w)
    BY <1>6
  <2>1. worker' \in [Workers -> WorkerStates]
    BY <1>0 DEF RecordActivation
  <2>2. ActivationRow(w) \in Row
    BY AppendsRows DEF RecordActivation
  <2>3. Append(rows, ActivationRow(w)) \in Seq(Row)
    BY <1>0, <2>2, Appended
  <2>4. rows' \in Seq(Row)
    BY <1>0, <2>3 DEF RecordActivation, ActivationRow
  <2>5. QED
    BY <1>0, <2>1, <2>4 DEF RecordActivation, ledgerVars, clockVars, Shapes, TypeOK
<1>7. CASE \E w \in Workers : EvidenceAges(w)
  <2> PICK w \in Workers : EvidenceAges(w)
    BY <1>7
  <2> DEFINE b == [worker[w] EXCEPT !.fresh = FALSE]
  <2>1. b \in WorkerStates
    BY <1>0, Aged DEF EvidenceAges
  <2>2. worker' = [worker EXCEPT ![w] = b]
    BY DEF EvidenceAges
  <2> HIDE DEF b
  <2>3. worker' \in [Workers -> WorkerStates]
    BY <1>0, <2>1, <2>2
  <2>4. QED
    BY <1>0, <2>3 DEF EvidenceAges, ledgerVars, clockVars, Shapes, TypeOK
<1>8. CASE \E w \in Workers : RecordPreCall(w)
  <2> PICK w \in Workers : RecordPreCall(w)
    BY <1>8
  <2>1. worker' \in [Workers -> WorkerStates]
    BY <1>0 DEF RecordPreCall
  <2>2. ConsumptionRow(w) \in Row /\ worker[w].key \in Keys
    BY <1>0, AppendsRows, WorkerFields DEF RecordPreCall
  <2>3. Append(rows, ConsumptionRow(w)) \in Seq(Row)
    BY <1>0, <2>2, Appended
  <2>4. rows' \in Seq(Row)
    BY <1>0, <2>3 DEF RecordPreCall
  <2>5. /\ risk' \subseteq Keys /\ intent' \subseteq Keys /\ started' \subseteq Keys
        /\ rolledBack' \subseteq Keys
    BY <1>0, <2>2 DEF RecordPreCall
  <2>6. QED
    BY <1>0, <2>1, <2>4, <2>5 DEF RecordPreCall, clockVars, Shapes, TypeOK
<1>9. CASE \E k \in Keys : SubmitOnceRecords(k)
  BY <1>0, <1>9 DEF SubmitOnceRecords, clockVars, Shapes, TypeOK
<1>10. CASE \E k \in Keys : SubmitOnceBegins(k)
  BY <1>0, <1>10 DEF SubmitOnceBegins, clockVars, Shapes, TypeOK
<1>11. CASE UNCHANGED vars
  BY <1>0, <1>11 DEF vars, Shapes, TypeOK
<1>12. QED
  BY <1>1, <1>2, <1>3, <1>4, <1>5, <1>6, <1>7, <1>8, <1>9, <1>10, <1>11 DEF Next

LEMMA TranscriptsStep ==
  ASSUME Shapes, Transcripts, PlansHold, [Next]_vars
  PROVE  Transcripts'
<1>0. rows \in Seq(Row) /\ control \in Nat /\ Len(rows) \in Nat
  BY AuthorityAssumption DEF Shapes, TypeOK
<1>1. CASE KeepsRows
  <2> SUFFICES ASSUME NEW i \in DOMAIN rows
               PROVE  rows[i].control <= control' /\
                      LET first == Min(RowsOf(rows[i].lease, rows)) IN
                      /\ rows[first].key = "none"
                      /\ rows[i].epoch = rows[first].epoch
                      /\ rows[i].control = rows[first].control
                      /\ rows[i].key = "none" => i = first
    BY <1>1 DEF KeepsRows, Transcripts
  <2>1. rows[i].control \in Nat
    BY <1>0, RowFields
  <2>2. rows[i].control <= control
    BY DEF Transcripts
  <2>3. rows[i].control <= control'
    BY <1>0, <1>1, <2>1, <2>2 DEF KeepsRows
  <2>4. QED
    BY <2>3 DEF Transcripts
<1>2. ASSUME NEW r \in Row, rows' = Append(rows, r), control' = control,
             r.control <= control,
             ~ Retained(r.lease, rows) => r.key = "none",
             Retained(r.lease, rows) =>
               /\ r.key # "none"
               /\ r.epoch = Activation(r.lease, rows).epoch
               /\ r.control = Activation(r.lease, rows).control
      PROVE  Transcripts'
  <2> DEFINE q == Append(rows, r)
             n == Len(rows) + 1
  <2>1. /\ DOMAIN rows = 1 .. Len(rows) /\ DOMAIN q = 1 .. n
        /\ q[n] = r /\ \A i \in DOMAIN rows : q[i] = rows[i]
    BY <1>0, Appended
  <2> HIDE DEF q
  <2>2. ASSUME NEW i \in DOMAIN q
        PROVE  LET first == Min(RowsOf(q[i].lease, q)) IN
               /\ q[first].key = "none"
               /\ q[i].epoch = q[first].epoch /\ q[i].control = q[first].control
               /\ q[i].key = "none" => i = first
               /\ q[i].control <= control
    <3> DEFINE l == q[i].lease
               first == Min(RowsOf(l, q))
    <3>1. CASE i \in DOMAIN rows
      <4>1. q[i] = rows[i] /\ i \in RowsOf(l, rows) /\ Retained(l, rows)
        BY <2>1, <3>1 DEF RowsOf, Retained
      <4>2. first = Min(RowsOf(l, rows)) /\ first \in DOMAIN rows
        <5>1. first = Min(RowsOf(l, rows))
          BY <1>0, <4>1, AppendedFirst DEF q
        <5>2. first \in RowsOf(l, rows)
          BY <1>0, <4>1, <5>1, FirstRow
        <5>3. QED
          BY <5>1, <5>2 DEF RowsOf
      <4>3. q[first] = rows[first]
        BY <2>1, <4>2
      <4>4. QED
        BY <3>1, <4>1, <4>2, <4>3 DEF Transcripts
    <3>2. CASE i = n
      <4>1. q[i] = r /\ l = r.lease
        BY <2>1, <3>2
      <4>2. CASE Retained(l, rows)
        <5>1. Activation(l, q) = Activation(l, rows) /\ first = Min(RowsOf(l, rows))
          BY <1>0, <4>2, AppendedFirst DEF q
        <5>2. first \in DOMAIN rows /\ rows[first].lease = l
          BY <1>0, <4>2, <5>1, FirstRow DEF RowsOf
        <5>3. Min(RowsOf(rows[first].lease, rows)) = first
          BY <5>1, <5>2
        <5>4. rows[first].key = "none"
          BY <5>2, <5>3 DEF Transcripts
        <5>5. q[first] = rows[first] /\ Activation(l, rows) = rows[first]
          BY <2>1, <5>1, <5>2 DEF Activation
        <5>6. QED
          BY <1>2, <4>1, <4>2, <5>4, <5>5
      <4>3. CASE ~ Retained(l, rows)
        <5>1. first = n
          BY <1>0, <4>1, <4>3, AppendedFirst DEF q
        <5>2. QED
          BY <1>2, <3>2, <4>1, <4>3, <5>1
      <4>4. QED
        BY <4>2, <4>3
    <3>3. QED
      BY <1>0, <2>1, <3>1, <3>2
  <2>3. rows' = q
    BY <1>2 DEF q
  <2>4. QED
    BY <1>2, <2>2, <2>3 DEF Transcripts
<1>3. ASSUME NEW w \in Workers, Activates(w) PROVE Transcripts'
  <2> DEFINE r == ActivationRow(w)
  <2>1. r \in Row /\ r.lease = worker[w].lease /\ r.key = "none" /\ r.control = worker[w].control
    BY <1>3, AppendsRows DEF Activates, ActivationRow
  <2>2. worker[w].control <= control
    BY <1>3 DEF PlansHold, PlanHolds, Activates
  <2>3. ~ Retained(r.lease, rows) /\ rows' = Append(rows, r) /\ control' = control
    BY <1>3, <2>1 DEF Activates, MayActivate
  <2> HIDE DEF r
  <2>4. QED
    BY <1>2, <2>1, <2>2, <2>3
<1>4. ASSUME NEW w \in Workers, Consumes(w) PROVE Transcripts'
  <2> DEFINE r == ConsumptionRow(w)
  <2>1. /\ r \in Row /\ r.lease = worker[w].lease /\ r.key = worker[w].key
        /\ r.epoch = worker[w].epoch /\ r.control = control
    BY <1>4, AppendsRows DEF Consumes, ConsumptionRow
  <2>2. r.key # "none"
    <3>1. worker[w] \in WorkerStates
      BY DEF Shapes
    <3>2. worker[w].key \in Keys
      BY <1>4, <3>1, WorkerFields DEF Consumes
    <3>3. QED
      BY <2>1, <3>2, AuthorityAssumption
  <2>3. /\ Retained(r.lease, rows)
        /\ Activation(r.lease, rows).epoch = worker[w].epoch
        /\ Activation(r.lease, rows).control = worker[w].control
        /\ worker[w].control = control
    BY <1>4, <2>1 DEF PlansHold, PlanHolds, Consumes, MayConsume, HeadUnchanged, BindingCurrent
  <2>4. rows' = Append(rows, r) /\ control' = control
    BY <1>4 DEF Consumes
  <2>5. r.control <= control
    BY <1>0, <2>1
  <2> HIDE DEF r
  <2>6. QED
    BY <1>2, <2>1, <2>2, <2>3, <2>4, <2>5
<1>5. QED
  BY <1>1, <1>3, <1>4, TableSteps

\* A plan is judged against the table it was made from: a longer table makes
\* no claim of it, and a halt or an expiry opens no lease.
LEMMA PlanKept ==
  ASSUME Shapes, NEW w \in Workers, PlanHolds(w),
         control \in Nat, control' \in Nat, control <= control', expired \subseteq expired',
         Len(rows') \in Nat, rows' = rows \/ Len(rows') > Len(rows),
         worker'[w].pc = "idle" \/ 
           /\ worker'[w].pc = worker[w].pc /\ worker[w].pc # "idle"
           /\ worker'[w].lease = worker[w].lease /\ worker'[w].head = worker[w].head
           /\ worker'[w].epoch = worker[w].epoch /\ worker'[w].control = worker[w].control
  PROVE  PlanHolds(w)'
<1>0. rows \in Seq(Row) /\ Len(rows) \in Nat
  BY DEF Shapes, TypeOK
<1>1. CASE worker'[w].pc = "idle"
  BY <1>1 DEF PlanHolds
<1>2. CASE worker'[w].pc # "idle"
  <2> DEFINE a == worker[w]
             b == worker'[w]
  <2>1. /\ b.pc = a.pc /\ b.lease = a.lease /\ b.head = a.head
        /\ b.epoch = a.epoch /\ b.control = a.control /\ a.pc # "idle"
    BY <1>2
  <2>2. a.head \in Nat /\ a.control \in Nat
    <3>1. a \in WorkerStates
      BY DEF Shapes
    <3>2. QED
      BY <2>1, <3>1, WorkerFields
  <2>3. a.head <= Len(rows) /\ a.control <= control
    BY <2>1 DEF PlanHolds
  <2>4. b.head <= Len(rows') /\ b.control <= control'
    BY <1>0, <2>1, <2>2, <2>3
  <2>5. b.head = Len(rows') => rows' = rows
    BY <1>0, <2>1, <2>2, <2>3
  <2>6. ASSUME b.pc = "activate", b.head = Len(rows'),
               NEW l \in Leases, Retained(l, rows'),
               IsOpen(l, rows', b.epoch, b.control, expired')
        PROVE  FALSE
    <3>1. rows' = rows /\ ~ IsOpen(l, rows, a.epoch, a.control, expired)
      BY <2>1, <2>5, <2>6 DEF PlanHolds
    <3>2. IsOpen(l, rows, a.epoch, a.control, expired') /\ Retained(l, rows)
      BY <2>1, <2>6, <3>1
    <3>3. a.control <= a.control
      BY <2>2
    <3>4. QED
      BY <1>0, <2>2, <3>1, <3>2, <3>3, OpenEarlier
  <2>7. b.pc = "consume" /\ b.head = Len(rows') =>
          /\ Retained(b.lease, rows')
          /\ Activation(b.lease, rows').epoch = b.epoch
          /\ Activation(b.lease, rows').control = b.control
    BY <2>1, <2>5 DEF PlanHolds
  <2>8. QED
    BY <1>2, <2>4, <2>6, <2>7 DEF PlanHolds
<1>3. QED
  BY <1>1, <1>2

\* The threads a step leaves alone, and those it sends back to idle.
LEMMA PlansStep ==
  ASSUME Shapes, Transcripts, PlansHold, [Next]_vars
  PROVE  PlansHold'
<1>0. /\ rows \in Seq(Row) /\ Len(rows) \in Nat
      /\ control \in Nat /\ control' \in Nat
      /\ worker \in [Workers -> WorkerStates]
  BY ShapesStep, AuthorityAssumption DEF Shapes, TypeOK
<1>1. /\ control <= control' /\ expired \subseteq expired'
      /\ Len(rows') \in Nat
      /\ rows' = rows \/ Len(rows') > Len(rows)
  <2>1. CASE KeepsRows
    BY <1>0, <2>1 DEF KeepsRows
  <2>2. ASSUME NEW w \in Workers, Activates(w)
        PROVE  Len(rows') = Len(rows) + 1 /\ control <= control' /\ expired \subseteq expired'
    <3>1. ActivationRow(w) \in Row
      BY <2>2, AppendsRows DEF Activates
    <3>2. QED
      BY <1>0, <2>2, <3>1, Appended DEF Activates
  <2>3. ASSUME NEW w \in Workers, Consumes(w)
        PROVE  Len(rows') = Len(rows) + 1 /\ control <= control' /\ expired \subseteq expired'
    <3>1. ConsumptionRow(w) \in Row
      BY <2>3, AppendsRows DEF Consumes
    <3>2. QED
      BY <1>0, <2>3, <3>1, Appended DEF Consumes
  <2>4. QED
    BY <1>0, <2>1, <2>2, <2>3, TableSteps
<1>2. ASSUME NEW v \in Workers, worker'[v] = worker[v] \/ worker'[v].pc = "idle"
      PROVE  PlanHolds(v)'
  BY <1>0, <1>1, <1>2, PlanKept DEF PlansHold
<1>3. Idle.pc = "idle"
  BY DEF Idle
<1>4. ASSUME NEW p \in Procs, ProcessStarts(p) PROVE PlansHold'
  <2>1. \A v \in Workers : worker'[v] = worker[v] \/ worker'[v].pc = "idle"
    BY <1>0, <1>3, <1>4 DEF ProcessStarts
  <2>2. QED
    BY <1>2, <2>1 DEF PlansHold
<1>5. CASE UNCHANGED worker
  <2>1. \A v \in Workers : worker'[v] = worker[v]
    BY <1>5
  <2>2. QED
    BY <1>2, <2>1 DEF PlansHold
<1>6. ASSUME NEW w \in Workers, worker' = [worker EXCEPT ![w] = Idle] PROVE PlansHold'
  <2>1. \A v \in Workers : worker'[v] = worker[v] \/ worker'[v].pc = "idle"
    BY <1>0, <1>3, <1>6
  <2>2. QED
    BY <1>2, <2>1 DEF PlansHold
<1>7. ASSUME NEW w \in Workers, NEW l \in Leases, PlanActivation(w, l) PROVE PlansHold'
  <2>1. /\ worker'[w].pc = "activate" /\ worker'[w].head = Len(rows)
        /\ worker'[w].epoch = epoch[ProcOf[w]] /\ worker'[w].control = control
    BY <1>0, <1>7 DEF PlanActivation
  <2>2. rows' = rows /\ control' = control /\ expired' = expired
    BY <1>7 DEF PlanActivation, clockVars
  <2>3. \A m \in Leases : Retained(m, rows) =>
          ~ IsOpen(m, rows, epoch[ProcOf[w]], control, expired)
    BY <1>7 DEF PlanActivation, SafeClosed
  <2>4. PlanHolds(w)'
    BY <1>0, <2>1, <2>2, <2>3 DEF PlanHolds
  <2>5. \A v \in Workers \ {w} : worker'[v] = worker[v]
    BY <1>0, <1>7 DEF PlanActivation
  <2>6. QED
    BY <1>2, <2>4, <2>5 DEF PlansHold
<1>8. ASSUME NEW w \in Workers, NEW l \in Leases, NEW k \in Keys, NEW n \in Notionals,
             PlanConsumption(w, l, k, n)
      PROVE  PlansHold'
  <2>1. /\ worker'[w].pc = "consume" /\ worker'[w].lease = l /\ worker'[w].head = Len(rows)
        /\ worker'[w].epoch = epoch[ProcOf[w]] /\ worker'[w].control = control
    BY <1>0, <1>8 DEF PlanConsumption
  <2>2. rows' = rows /\ control' = control /\ expired' = expired
    BY <1>8 DEF PlanConsumption, clockVars
  <2>3. /\ Retained(l, rows) /\ epoch[ProcOf[w]] = Activation(l, rows).epoch
        /\ ~ (control > Activation(l, rows).control)
    BY <1>8, OpenMeans DEF PlanConsumption
  <2>4. Activation(l, rows).control \in Nat /\ Activation(l, rows).control <= control
    <3>1. Min(RowsOf(l, rows)) \in DOMAIN rows
      BY <1>0, <2>3, FirstRow DEF RowsOf
    <3>2. rows[Min(RowsOf(l, rows))].control <= control
      BY <3>1 DEF Transcripts
    <3>3. QED
      BY <1>0, <2>3, <3>2, ActivationType DEF Activation
  <2>5. Activation(l, rows).control = control
    BY <1>0, <2>3, <2>4
  <2>6. PlanHolds(w)'
    BY <1>0, <2>1, <2>2, <2>3, <2>5 DEF PlanHolds
  <2>7. \A v \in Workers \ {w} : worker'[v] = worker[v]
    BY <1>0, <1>8 DEF PlanConsumption
  <2>8. QED
    BY <1>2, <2>6, <2>7 DEF PlansHold
<1>9. ASSUME NEW w \in Workers, EvidenceAges(w) PROVE PlansHold'
  <2> DEFINE b == [worker[w] EXCEPT !.fresh = FALSE]
  <2>1. /\ b.pc = worker[w].pc /\ b.lease = worker[w].lease /\ b.head = worker[w].head
        /\ b.epoch = worker[w].epoch /\ b.control = worker[w].control
    BY <1>0, <1>9, Aged DEF EvidenceAges
  <2>2. worker' = [worker EXCEPT ![w] = b] /\ worker[w].pc # "idle"
    BY <1>9 DEF EvidenceAges
  <2> HIDE DEF b
  <2>3. worker'[w] = b /\ \A v \in Workers \ {w} : worker'[v] = worker[v]
    BY <1>0, <2>2
  <2>4. PlanHolds(w)'
    BY <1>0, <1>1, <2>1, <2>2, <2>3, PlanKept DEF PlansHold
  <2>5. QED
    BY <1>2, <2>3, <2>4 DEF PlansHold
<1>10. QED
  BY <1>4, <1>5, <1>6, <1>7, <1>8, <1>9
     DEF Next, vars, HaltRecorded, LeaseExpires, RecordActivation, RecordPreCall,
         SubmitOnceRecords, SubmitOnceBegins

LEMMA OneOpenStep ==
  ASSUME Shapes, Transcripts, PlansHold, OneOpen, [Next]_vars
  PROVE  OneOpen'
<1>0. /\ rows \in Seq(Row) /\ Len(rows) \in Nat
      /\ control \in Nat /\ control' \in Nat
  BY ShapesStep, AuthorityAssumption DEF Shapes, TypeOK
<1> SUFFICES ASSUME NEW e \in 0 .. MaxEpochs, NEW l \in Leases, NEW m \in Leases,
                    Retained(l, rows'), IsOpen(l, rows', e, control', expired'),
                    Retained(m, rows'), IsOpen(m, rows', e, control', expired'),
                    l # m
             PROVE  FALSE
  BY DEF OneOpen
<1>1. CASE KeepsRows
  <2>1. /\ Retained(l, rows) /\ IsOpen(l, rows, e, control', expired')
        /\ Retained(m, rows) /\ IsOpen(m, rows, e, control', expired')
        /\ control <= control' /\ expired \subseteq expired'
    BY <1>1 DEF KeepsRows
  <2>2. IsOpen(l, rows, e, control, expired) /\ IsOpen(m, rows, e, control, expired)
    BY <1>0, <2>1, OpenEarlier
  <2>3. QED
    BY <2>1, <2>2 DEF OneOpen
<1>2. ASSUME NEW w \in Workers, Activates(w) PROVE FALSE
  <2> DEFINE r == ActivationRow(w)
  <2>1. /\ rows' = Append(rows, r) /\ control' = control /\ expired' = expired
        /\ r \in Row /\ r.lease = worker[w].lease /\ r.epoch = worker[w].epoch
    BY <1>2, AppendsRows DEF Activates, ActivationRow
  <2>2. /\ ~ Retained(r.lease, rows)
        /\ worker[w].control \in Nat /\ worker[w].control <= control
        /\ \A n \in Leases : Retained(n, rows) =>
             ~ IsOpen(n, rows, worker[w].epoch, worker[w].control, expired)
    <3>1. worker[w] \in WorkerStates
      BY DEF Shapes
    <3>2. QED
      BY <1>2, <2>1, <3>1, WorkerFields
         DEF Activates, MayActivate, HeadUnchanged, PlansHold, PlanHolds
  <2> HIDE DEF r
  <2>3. ASSUME NEW n \in Leases, n # r.lease,
               Retained(n, rows'), IsOpen(n, rows', e, control, expired)
        PROVE  Retained(n, rows) /\ IsOpen(n, rows, e, control, expired)
               /\ (e = r.epoch => FALSE)
    <3>1. Retained(n, rows)
      BY <1>0, <2>1, <2>3, AppendedRows
    <3>2. IsOpen(n, rows, e, control, expired)
      BY <1>0, <2>1, <2>3, <3>1, OpenShorter
    <3>3. IsOpen(n, rows, e, worker[w].control, expired)
      BY <1>0, <2>2, <3>1, <3>2, OpenEarlier
    <3>4. QED
      BY <2>1, <2>2, <3>1, <3>2, <3>3
  <2>4. ASSUME NEW n \in Leases, n = r.lease, IsOpen(n, rows', e, control, expired)
        PROVE  e = r.epoch
    <3>1. Activation(n, rows') = r
      BY <1>0, <2>1, <2>2, <2>4, AppendedFirst
    <3>2. QED
      BY <2>4, <3>1, OpenMeans
  <2>5. QED
    BY <2>1, <2>3, <2>4 DEF OneOpen
<1>3. ASSUME NEW w \in Workers, Consumes(w) PROVE FALSE
  <2> DEFINE r == ConsumptionRow(w)
  <2>1. /\ rows' = Append(rows, r) /\ control' = control /\ expired' = expired
        /\ r \in Row /\ r.lease = worker[w].lease
    BY <1>3, AppendsRows DEF Consumes, ConsumptionRow
  <2>2. Retained(r.lease, rows)
    BY <1>3, <2>1 DEF Consumes, MayConsume, HeadUnchanged, PlansHold, PlanHolds
  <2> HIDE DEF r
  <2>3. Retained(l, rows) /\ Retained(m, rows)
    BY <1>0, <2>1, <2>2, AppendedRows
  <2>4. IsOpen(l, rows, e, control, expired) /\ IsOpen(m, rows, e, control, expired)
    BY <1>0, <2>1, <2>3, OpenShorter
  <2>5. QED
    BY <2>3, <2>4 DEF OneOpen
<1>4. QED
  BY <1>1, <1>2, <1>3, TableSteps

LEMMA KeysStep ==
  ASSUME Shapes, KeysApart, [Next]_vars
  PROVE  KeysApart'
<1>0. /\ rows \in Seq(Row) /\ risk \subseteq Keys
      /\ risk \subseteq started /\ called \subseteq started /\ risk \intersect called = {}
      /\ \A i, j \in DOMAIN rows : rows[i].key # "none" /\ rows[i].key = rows[j].key => i = j
      /\ \A k \in Keys : k \in risk <=> \E i \in DOMAIN rows : rows[i].key = k
  BY DEF Shapes, TypeOK, KeysApart
<1>1. CASE KeepsRows
  <2>1. /\ risk \subseteq started' /\ called' \subseteq started'
        /\ risk \intersect called' = {}
    BY <1>0, <1>1 DEF KeepsRows
  <2>2. QED
    BY <1>0, <1>1, <2>1 DEF KeepsRows, KeysApart
<1>2. ASSUME NEW r \in Row, rows' = Append(rows, r),
             r.key # "none" => \A i \in DOMAIN rows : rows[i].key # r.key
      PROVE  /\ \A i, j \in DOMAIN rows' :
                  rows'[i].key # "none" /\ rows'[i].key = rows'[j].key => i = j
             /\ \A k \in Keys : (\E i \in DOMAIN rows' : rows'[i].key = k) <=>
                  k = r.key \/ \E i \in DOMAIN rows : rows[i].key = k
  <2> DEFINE q == Append(rows, r)
             n == Len(rows) + 1
  <2>1. /\ Len(rows) \in Nat /\ DOMAIN rows = 1 .. Len(rows) /\ DOMAIN q = 1 .. n
        /\ q[n] = r /\ \A i \in DOMAIN rows : q[i] = rows[i]
    BY <1>0, Appended
  <2>2. \A i \in DOMAIN q : i \in DOMAIN rows \/ i = n
    BY <2>1
  <2>3. DOMAIN rows \subseteq DOMAIN q /\ n \in DOMAIN q
    BY <2>1
  <2>4. rows' = q
    BY <1>2
  <2> HIDE DEF q, n
  <2>5. QED
    BY <1>0, <1>2, <2>1, <2>2, <2>3, <2>4
<1>3. ASSUME NEW w \in Workers, Activates(w) PROVE KeysApart'
  <2>1. ActivationRow(w) \in Row /\ ActivationRow(w).key = "none"
    BY <1>3, AppendsRows DEF Activates, ActivationRow
  <2>2. QED
    BY <1>0, <1>2, <1>3, <2>1, AuthorityAssumption DEF Activates, KeysApart
<1>4. ASSUME NEW w \in Workers, Consumes(w) PROVE KeysApart'
  <2> DEFINE k == worker[w].key
  <2>1. ConsumptionRow(w) \in Row /\ ConsumptionRow(w).key = k
    BY <1>4, AppendsRows DEF Consumes, ConsumptionRow
  <2>2. k \in Keys
    <3>1. worker[w] \in WorkerStates
      BY DEF Shapes
    <3>2. QED
      BY <1>4, <3>1, WorkerFields DEF Consumes
  <2>3. (\A i \in DOMAIN rows : rows[i].key # k) /\ k \notin started
    BY <1>4 DEF Consumes, MayConsume, NoTrace
  <2>4. /\ \A i, j \in DOMAIN rows' :
             rows'[i].key # "none" /\ rows'[i].key = rows'[j].key => i = j
        /\ \A c \in Keys : (\E i \in DOMAIN rows' : rows'[i].key = c) <=>
             c = k \/ \E i \in DOMAIN rows : rows[i].key = c
    BY <1>2, <1>4, <2>1, <2>3 DEF Consumes
  <2>5. /\ risk' = risk \union {k} /\ started' = started \union {k} /\ called' = called
    BY <1>4 DEF Consumes
  <2> HIDE DEF k
  <2>6. QED
    BY <1>0, <2>2, <2>3, <2>4, <2>5 DEF KeysApart
<1>5. QED
  BY <1>1, <1>3, <1>4, TableSteps

LEMMA UsageStep ==
  ASSUME Shapes, PlansHold, UsageWithin, [Next]_vars
  PROVE  UsageWithin'
<1>0. rows \in Seq(Row) /\ max_orders \in Nat /\ capital_ceiling \in Nat
  BY AuthorityAssumption DEF Shapes, TypeOK
<1> SUFFICES ASSUME NEW l \in Leases
             PROVE  /\ Consumptions(l, rows') <= max_orders
                    /\ ConsumedNotional(l, rows') <= capital_ceiling
  BY DEF UsageWithin
<1>1. /\ Consumptions(l, rows) <= max_orders
      /\ ConsumedNotional(l, rows) <= capital_ceiling
  BY DEF UsageWithin
<1>2. CASE KeepsRows
  BY <1>1, <1>2 DEF KeepsRows
<1>3. ASSUME NEW w \in Workers, Activates(w)
      PROVE  /\ Consumptions(l, rows') <= max_orders
             /\ ConsumedNotional(l, rows') <= capital_ceiling
  <2> DEFINE r == ActivationRow(w)
  <2>1. r \in Row /\ rows' = Append(rows, r) /\ ~ Retained(r.lease, rows)
    BY <1>3, AppendsRows DEF Activates, MayActivate, ActivationRow
  <2> HIDE DEF r
  <2>2. QED
    BY <1>0, <1>1, <2>1, AppendedUsage
<1>4. ASSUME NEW w \in Workers, Consumes(w)
      PROVE  /\ Consumptions(l, rows') <= max_orders
             /\ ConsumedNotional(l, rows') <= capital_ceiling
  <2> DEFINE r == ConsumptionRow(w)
  <2>1. /\ r \in Row /\ rows' = Append(rows, r) /\ r.lease = worker[w].lease
        /\ IsOpen(worker[w].lease, Append(rows, r), worker[w].epoch, worker[w].control, expired)
    BY <1>4, AppendsRows DEF Consumes, ConsumptionRow, ResultVerifies
  <2> HIDE DEF r
  <2>2. CASE l = r.lease
    <3>1. rows' \in Seq(Row)
      BY <1>0, <2>1, Appended
    <3>2. Consumptions(l, rows') \in Nat /\ ConsumedNotional(l, rows') \in Nat
      BY <3>1, UsageType
    <3>3. ~ (Consumptions(l, rows') >= max_orders) /\ ~ (ConsumedNotional(l, rows') >= capital_ceiling)
      BY <2>1, <2>2, OpenMeans
    <3>4. QED
      BY <1>0, <3>2, <3>3
  <2>3. CASE l # r.lease
    BY <1>0, <1>1, <2>1, <2>3, AppendedUsage
  <2>4. QED
    BY <2>2, <2>3
<1>5. QED
  BY <1>2, <1>3, <1>4, TableSteps

-----------------------------------------------------------------------------
(* The theorems.                                                           *)

\* The invariant holds in every reachable state: every transcript begins with
\* its one activation, a plan whose head still stands is true of the table,
\* one lease at most is open per epoch, keys are spent once, and what a lease
\* has spent is within it.
THEOREM AuthoritySound == Spec => []AuthorityInv
<1>1. Init => AuthorityInv
  BY AuthorityInit
<1>2. AuthorityInv /\ [Next]_vars => AuthorityInv'
  BY ShapesStep, TranscriptsStep, PlansStep, OneOpenStep, KeysStep, UsageStep DEF AuthorityInv
<1>3. QED
  BY <1>1, <1>2, PTL DEF Spec

\* The rows after the first are those that spend a key.
LEMMA LaterSpends ==
  ASSUME Shapes, Transcripts, NEW l \in Leases
  PROVE  Later(l, rows) = {i \in DOMAIN rows : rows[i].lease = l /\ rows[i].key # "none"}
<1>0. rows \in Seq(Row)
  BY DEF Shapes, TypeOK
<1>1. ASSUME NEW i \in DOMAIN rows, rows[i].lease = l
      PROVE  i = Min(RowsOf(l, rows)) <=> rows[i].key = "none"
  BY <1>1 DEF Transcripts
<1>2. QED
  BY <1>1 DEF Later, RowsOf

\* However many threads plan and record orders on however many leases, no
\* lease spends more orders or more notional than it grants.
THEOREM LeasesWithin == Spec => []WithinLease
<1>1. AuthorityInv => WithinLease
  <2> SUFFICES ASSUME AuthorityInv, NEW l \in Leases
               PROVE  LET spent == {i \in DOMAIN rows : rows[i].lease = l /\ rows[i].key # "none"}
                      IN  /\ Cardinality(spent) <= max_orders
                          /\ Total([i \in DOMAIN rows |->
                                      IF i \in spent THEN rows[i].notional ELSE 0])
                               <= capital_ceiling
    BY DEF WithinLease
  <2>1. Later(l, rows) = {i \in DOMAIN rows : rows[i].lease = l /\ rows[i].key # "none"}
    BY LaterSpends DEF AuthorityInv
  <2>2. Cardinality(Later(l, rows)) <= max_orders
    BY DEF AuthorityInv, UsageWithin, Consumptions
  <2>3. Total([i \in DOMAIN rows |-> IF i \in Later(l, rows) THEN rows[i].notional ELSE 0])
          <= capital_ceiling
    BY DEF AuthorityInv, UsageWithin, ConsumedNotional
  <2>4. QED
    BY <2>1, <2>2, <2>3
<1>2. QED
  BY <1>1, AuthoritySound, PTL

\* Every order stands under the activation of its lease: its epoch, its halt
\* anchor, and there is one activation, the first row.
THEOREM SpentAnchored == Spec => []SpentUnderItsAnchor
<1>1. AuthorityInv => SpentUnderItsAnchor
  <2> SUFFICES ASSUME AuthorityInv, NEW i \in DOMAIN rows
               PROVE  LET a == Activation(rows[i].lease, rows) IN
                      /\ a.key = "none"
                      /\ rows[i].epoch = a.epoch /\ rows[i].control = a.control
                      /\ rows[i].key = "none" => rows[i] = a /\
                           \A j \in DOMAIN rows : rows[j] = a => j = i
    BY DEF SpentUnderItsAnchor
  <2> DEFINE first == Min(RowsOf(rows[i].lease, rows))
  <2>1. /\ rows[first].key = "none"
        /\ rows[i].epoch = rows[first].epoch /\ rows[i].control = rows[first].control
        /\ rows[i].key = "none" => i = first
    BY DEF AuthorityInv, Transcripts
  <2>2. ASSUME rows[i].key = "none", NEW j \in DOMAIN rows, rows[j] = rows[first]
        PROVE  j = i
    <3>1. rows[j].key = "none" /\ rows[j].lease = rows[i].lease
      BY <2>1, <2>2
    <3>2. j = Min(RowsOf(rows[j].lease, rows))
      BY <3>1 DEF AuthorityInv, Transcripts
    <3>3. QED
      BY <2>1, <2>2, <3>1, <3>2
  <2>3. QED
    BY <2>1, <2>2 DEF Activation
<1>2. QED
  BY <1>1, AuthoritySound, PTL

\* A key is spent by one row only, with its risk evaluation and its started
\* marker, and submit_once never calls the adapter for it.
THEOREM KeysSpentApart == Spec => []SpentKeysApart
<1>1. AuthorityInv => SpentKeysApart
  <2> SUFFICES ASSUME AuthorityInv PROVE SpentKeysApart
    OBVIOUS
  <2> DEFINE spent == {i \in DOMAIN rows : rows[i].key # "none"}
             keys == {rows[i].key : i \in spent}
             f == [i \in spent |-> rows[i].key]
  <2>0. /\ rows \in Seq(Row) /\ Len(rows) \in Nat /\ DOMAIN rows = 1 .. Len(rows)
        /\ risk \subseteq Keys /\ risk \subseteq started /\ risk \intersect called = {}
    BY DEF AuthorityInv, Shapes, TypeOK, KeysApart
  <2>1. keys = risk
    <3>1. \A i \in DOMAIN rows : rows[i].key \in Keys \union {"none"}
      BY <2>0, RowFields
    <3>2. \A k \in Keys : k \in risk <=> \E i \in DOMAIN rows : rows[i].key = k
      BY DEF AuthorityInv, KeysApart
    <3>3. QED
      BY <2>0, <3>1, <3>2, AuthorityAssumption
  <2>2. Cardinality(keys) = Cardinality(spent)
    <3>1. IsFiniteSet(spent)
      <4>1. IsFiniteSet(1 .. Len(rows))
        BY <2>0, FS_Interval
      <4>2. spent \subseteq 1 .. Len(rows)
        BY <2>0
      <4>3. QED
        BY <4>1, <4>2, FS_Subset
    <3>2. \A i, j \in spent : rows[i].key = rows[j].key => i = j
      BY DEF AuthorityInv, KeysApart
    <3>3. f \in Bijection(spent, keys)
      <4>1. f \in [spent -> keys]
        OBVIOUS
      <4>2. \A a, b \in spent : f[a] = f[b] => a = b
        BY <3>2
      <4>3. \A t \in keys : \E s \in spent : f[s] = t
        OBVIOUS
      <4> HIDE DEF f, keys, spent
      <4>4. QED
        BY <4>1, <4>2, <4>3 DEF Bijection, Injection, Surjection, IsInjective
    <3> HIDE DEF f, keys, spent
    <3>4. ExistsBijection(spent, keys)
      BY <3>3 DEF ExistsBijection
    <3>5. QED
      BY <3>1, <3>4, FS_Bijection
  <2>3. QED
    BY <2>0, <2>1, <2>2 DEF SpentKeysApart
<1>2. QED
  BY <1>1, AuthoritySound, PTL

\* At most one lease is open to a process at a time.
THEOREM OneOpenPerProcess == Spec => []OneOpenEpoch
<1>1. AuthorityInv => OneOpenEpoch
  <2> SUFFICES ASSUME AuthorityInv, NEW p \in Procs
               PROVE  Cardinality({l \in Leases :
                        Retained(l, rows) /\ IsOpen(l, rows, epoch[p], control, expired)}) <= 1
    BY DEF OneOpenEpoch
  <2> DEFINE S == {l \in Leases :
                     Retained(l, rows) /\ IsOpen(l, rows, epoch[p], control, expired)}
  <2>1. epoch[p] \in 0 .. MaxEpochs
    BY DEF AuthorityInv, Shapes, TypeOK
  <2>2. \A l, m \in S : l = m
    BY <2>1 DEF AuthorityInv, OneOpen
  <2> HIDE DEF S
  <2>3. CASE S = {}
    BY <2>3, FS_EmptySet DEF S
  <2>4. CASE S # {}
    <3>1. PICK l \in S : S = {l}
      BY <2>2, <2>4
    <3>2. Cardinality(S) = 1
      BY <3>1, FS_Singleton
    <3>3. QED
      BY <3>2 DEF S
  <2>5. QED
    BY <2>3, <2>4
<1>2. QED
  BY <1>1, AuthoritySound, PTL
=============================================================================

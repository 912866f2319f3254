----------------------------- MODULE SumTheorems -----------------------------
(***************************************************************************)
(* The total of a sequence of naturals is a natural number, and what a     *)
(* sequence gains at its end its total gains.  Both are inductions on the  *)
(* positions, carried out on the set of positions where the claim fails:   *)
(* such a set, if it is not empty, has a least element.  The sum over a    *)
(* finite set does not depend on the order in which its elements are       *)
(* chosen; that is an induction on the number of its elements.             *)
(***************************************************************************)
EXTENDS Sums, TLAPS, FiniteSetTheorems

\* Every nonempty set of naturals has a least element.
LEMMA Least ==
  ASSUME NEW T \in SUBSET Nat, T # {}
  PROVE  \E x \in T : \A y \in T : x <= y
<1>1. IsWellFoundedOn(OpToRel(<, Nat), Nat)
  BY NatLessThanWellFounded
<1>2. PICK x \in T : \A y \in T : ~ (<<y, x>> \in OpToRel(<, Nat))
  BY <1>1, WFMin
<1>3. \A y \in T : ~ (y < x)
  BY <1>2 DEF OpToRel
<1>4. QED
  BY <1>3

\* Induction on 0 .. n: a set of positions that holds 0 and, with each
\* position, the next one, holds them all.
LEMMA Positions ==
  ASSUME NEW n \in Nat, NEW S \in SUBSET (0 .. n),
         0 \in S,
         \A i \in 1 .. n : i - 1 \in S => i \in S
  PROVE  S = 0 .. n
<1> DEFINE T == (0 .. n) \ S
<1> SUFFICES ASSUME T # {} PROVE FALSE
  OBVIOUS
<1>1. T \in SUBSET Nat
  OBVIOUS
<1>2. PICK x \in T : \A y \in T : x <= y
  <2> HIDE DEF T
  <2>1. QED
    BY <1>1, Least
<1>3. x \in 1 .. n
  BY <1>2
<1>4. x - 1 \in S
  BY <1>2, <1>3
<1>5. QED
  BY <1>2, <1>3, <1>4

-----------------------------------------------------------------------------
\* f has the sums of the first elements of v, up to n of them.
SumsUpTo(f, v, n) == f = [i \in 0 .. n |-> IF i = 0 THEN 0 ELSE f[i - 1] + v[i]]

\* Such a function exists, and its values are natural numbers.
LEMMA SumsExist ==
  ASSUME NEW v \in Seq(Nat)
  PROVE  \A n \in 0 .. Len(v) : \E f \in [0 .. n -> Nat] : SumsUpTo(f, v, n)
<1> DEFINE S == {n \in 0 .. Len(v) : \E f \in [0 .. n -> Nat] : SumsUpTo(f, v, n)}
<1>0. Len(v) \in Nat /\ \A i \in 1 .. Len(v) : v[i] \in Nat
  OBVIOUS
<1>1. 0 \in S
  <2> DEFINE f == [i \in 0 .. 0 |-> 0]
  <2>1. f \in [0 .. 0 -> Nat] /\ SumsUpTo(f, v, 0)
    BY DEF SumsUpTo
  <2>2. QED
    BY <1>0, <2>1
<1>2. ASSUME NEW n \in 1 .. Len(v), n - 1 \in S
      PROVE  n \in S
  <2>0. n \in Nat /\ n - 1 \in Nat /\ n # 0 /\ n - 1 # n /\ n - 1 \in 0 .. n
        /\ n \in 0 .. Len(v) /\ n \in 0 .. n /\ v[n] \in Nat
    BY <1>0
  <2>1. PICK f \in [0 .. n - 1 -> Nat] : SumsUpTo(f, v, n - 1)
    BY <1>2
  <2> DEFINE g == [i \in 0 .. n |-> IF i = n THEN f[n - 1] + v[n] ELSE f[i]]
  <2>2. f[n - 1] \in Nat
    BY <2>0, <2>1
  <2>3. g \in [0 .. n -> Nat]
    <3>1. ASSUME NEW i \in 0 .. n PROVE (IF i = n THEN f[n - 1] + v[n] ELSE f[i]) \in Nat
      <4>1. CASE i = n
        BY <2>0, <2>2, <4>1
      <4>2. CASE i # n
        <5>1. i \in 0 .. n - 1
          BY <2>0, <4>2
        <5>2. QED
          BY <2>1, <4>2, <5>1
      <4>3. QED
        BY <4>1, <4>2
    <3>2. QED
      BY <3>1
  <2>4. ASSUME NEW i \in 0 .. n
        PROVE  g[i] = IF i = 0 THEN 0 ELSE g[i - 1] + v[i]
    <3>1. CASE i = n
      BY <2>0, <3>1
    <3>2. CASE i # n
      <4>1. i \in 0 .. n - 1 /\ (i # 0 => i - 1 \in 0 .. n /\ i - 1 # n)
        BY <2>0, <3>2
      <4>2. f[i] = IF i = 0 THEN 0 ELSE f[i - 1] + v[i]
        BY <2>1, <4>1 DEF SumsUpTo
      <4>3. g[i] = f[i] /\ (i # 0 => g[i - 1] = f[i - 1])
        BY <3>2, <4>1
      <4>4. QED
        BY <4>2, <4>3
    <3>3. QED
      BY <3>1, <3>2
  <2>5. SumsUpTo(g, v, n)
    <3> DEFINE h == [i \in 0 .. n |-> IF i = 0 THEN 0 ELSE g[i - 1] + v[i]]
    <3>1. g = h
      <4>1. \A i \in 0 .. n : g[i] = h[i]
        <5> HIDE DEF g
        <5>1. QED
          BY <2>4
      <4>2. g = [i \in 0 .. n |-> g[i]] /\ h = [i \in 0 .. n |-> h[i]]
        OBVIOUS
      <4>3. QED
        BY <4>1, <4>2
    <3>2. QED
      BY <3>1 DEF SumsUpTo
  <2>6. QED
    <3> HIDE DEF g
    <3>1. QED
      BY <2>0, <2>3, <2>5
<1>3. S = 0 .. Len(v)
  <2> HIDE DEF S
  <2>1. S \in SUBSET (0 .. Len(v))
    BY DEF S
  <2>2. QED
    BY <1>0, <1>1, <1>2, <2>1, Positions
<1>4. QED
  BY <1>3

\* The partial sums of v are natural numbers, each the one before it and an
\* element more; the total is the last of them.
LEMMA PartialSums ==
  ASSUME NEW v \in Seq(Nat)
  PROVE  /\ Partial(v) \in [0 .. Len(v) -> Nat]
         /\ Partial(v)[0] = 0
         /\ \A i \in 1 .. Len(v) : Partial(v)[i] = Partial(v)[i - 1] + v[i]
         /\ Total(v) \in Nat
<1> DEFINE f == Partial(v)
           S == {i \in 0 .. Len(v) : f[i] \in Nat}
<1>0. Len(v) \in Nat /\ Len(v) \in 0 .. Len(v) /\ \A i \in 1 .. Len(v) : v[i] \in Nat
  OBVIOUS
<1>1. \E g : SumsUpTo(g, v, Len(v))
  BY <1>0, SumsExist
<1>2. SumsUpTo(f, v, Len(v))
  BY <1>1 DEF Partial, SumsUpTo
<1> HIDE DEF f
<1>3. f = [i \in 0 .. Len(v) |-> IF i = 0 THEN 0 ELSE f[i - 1] + v[i]]
  BY <1>2 DEF SumsUpTo
<1>4. f[0] = 0 /\ DOMAIN f = 0 .. Len(v)
  BY <1>0, <1>3
<1>5. ASSUME NEW i \in 1 .. Len(v) PROVE f[i] = f[i - 1] + v[i]
  <2>1. i \in 0 .. Len(v) /\ i # 0
    BY <1>0
  <2>2. QED
    BY <1>3, <2>1
<1>6. 0 \in S
  BY <1>0, <1>4
<1>7. ASSUME NEW i \in 1 .. Len(v), i - 1 \in S PROVE i \in S
  <2>1. i \in 0 .. Len(v) /\ f[i] = f[i - 1] + v[i] /\ v[i] \in Nat /\ f[i - 1] \in Nat
    BY <1>0, <1>5, <1>7
  <2>2. QED
    BY <2>1
<1>8. S = 0 .. Len(v)
  <2> HIDE DEF S
  <2>1. S \in SUBSET (0 .. Len(v))
    BY DEF S
  <2>2. QED
    BY <1>0, <1>6, <1>7, <2>1, Positions
<1>9. \A i \in 0 .. Len(v) : f[i] \in Nat
  BY <1>8
<1>10. f \in [0 .. Len(v) -> Nat]
  <2>1. f = [i \in 0 .. Len(v) |-> f[i]]
    BY <1>3
  <2>2. QED
    BY <1>9, <2>1
<1>11. Total(v) \in Nat
  BY <1>0, <1>9 DEF Total, f
<1>12. QED
  BY <1>4, <1>5, <1>10, <1>11 DEF f

\* What a sequence gains at its end, its total gains.
LEMMA TotalGrows ==
  ASSUME NEW v \in Seq(Nat), NEW u \in Seq(Nat),
         Len(u) = Len(v) + 1,
         \A i \in 1 .. Len(v) : u[i] = v[i]
  PROVE  Total(u) = Total(v) + u[Len(u)]
<1> DEFINE f == Partial(v)
           g == Partial(u)
           n == Len(v)
           S == {i \in 0 .. n : f[i] = g[i]}
<1>0. n \in Nat /\ n + 1 = Len(u) /\ n + 1 - 1 = n /\ n + 1 \in 1 .. Len(u)
  OBVIOUS
<1>1. /\ f[0] = 0 /\ \A i \in 1 .. n : f[i] = f[i - 1] + v[i]
      /\ g[0] = 0 /\ \A i \in 1 .. Len(u) : g[i] = g[i - 1] + u[i]
  BY PartialSums
<1>2. Total(v) = f[n] /\ Total(u) = g[n + 1]
  BY <1>0 DEF Total
<1> HIDE DEF f, g, n
<1>3. 0 \in S
  BY <1>0, <1>1
<1>4. ASSUME NEW i \in 1 .. n, i - 1 \in S PROVE i \in S
  <2>1. i \in 1 .. Len(u) /\ i \in 0 .. n /\ u[i] = v[i]
    BY <1>0 DEF n
  <2>2. f[i] = g[i]
    BY <1>1, <1>4, <2>1
  <2>3. QED
    BY <2>1, <2>2
<1>5. S = 0 .. n
  <2> HIDE DEF S
  <2>1. S \in SUBSET (0 .. n)
    BY DEF S
  <2>2. QED
    BY <1>0, <1>3, <1>4, <2>1, Positions
<1>6. f[n] = g[n]
  BY <1>0, <1>5
<1>7. g[n + 1] = g[n] + u[n + 1]
  BY <1>0, <1>1
<1>8. QED
  BY <1>0, <1>2, <1>6, <1>7
LEMMA SameGain ==
  ASSUME NEW a \in Nat, NEW b \in Nat, NEW c \in Nat, NEW x \in Nat, NEW y \in Nat,
         a + x = b + y
  PROVE  (a + c) + x = (b + c) + y
OBVIOUS

\* What a sequence gains at one position, its total gains.
LEMMA TotalMoves ==
  ASSUME NEW v \in Seq(Nat), NEW u \in Seq(Nat), Len(u) = Len(v),
         NEW k \in 1 .. Len(v), \A i \in 1 .. Len(v) : i # k => u[i] = v[i]
  PROVE  Total(u) + v[k] = Total(v) + u[k]
<1> DEFINE f == Partial(v)
           g == Partial(u)
           n == Len(v)
           S == {i \in 0 .. n : IF i < k THEN g[i] = f[i] ELSE g[i] + v[k] = f[i] + u[k]}
<1>0. n \in Nat /\ n = Len(u) /\ k \in 1 .. n /\ k \in Nat /\ v[k] \in Nat /\ u[k] \in Nat
  OBVIOUS
<1>1. /\ f[0] = 0 /\ \A i \in 1 .. n : f[i] = f[i - 1] + v[i]
      /\ g[0] = 0 /\ \A i \in 1 .. n : g[i] = g[i - 1] + u[i]
      /\ \A i \in 0 .. n : f[i] \in Nat /\ g[i] \in Nat
  <2>1. /\ f \in [0 .. Len(v) -> Nat] /\ f[0] = 0
        /\ \A i \in 1 .. Len(v) : f[i] = f[i - 1] + v[i]
    BY PartialSums
  <2>2. /\ g \in [0 .. Len(u) -> Nat] /\ g[0] = 0
        /\ \A i \in 1 .. Len(u) : g[i] = g[i - 1] + u[i]
    BY PartialSums
  <2> HIDE DEF f, g
  <2>3. QED
    BY <1>0, <2>1, <2>2
<1>2. Total(v) = f[n] /\ Total(u) = g[n] /\ \A i \in 1 .. n : v[i] \in Nat /\ u[i] \in Nat
  BY <1>0 DEF Total
<1>3. \A i \in 1 .. n : i # k => u[i] = v[i]
  OBVIOUS
<1> HIDE DEF f, g, n
<1>4. 0 \in S
  BY <1>0, <1>1
<1>5. ASSUME NEW i \in 1 .. n, i - 1 \in S PROVE i \in S
  <2>0. /\ i \in Nat /\ i \in 0 .. n /\ i - 1 \in 0 .. n /\ v[i] \in Nat /\ u[i] \in Nat
        /\ f[i] = f[i - 1] + v[i] /\ g[i] = g[i - 1] + u[i]
        /\ f[i - 1] \in Nat /\ g[i - 1] \in Nat
    BY <1>0, <1>1, <1>2
  <2>1. CASE i < k
    <3>1. i - 1 < k /\ i # k
      BY <1>0, <2>0, <2>1
    <3>2. g[i - 1] = f[i - 1] /\ u[i] = v[i]
      BY <1>3, <1>5, <3>1
    <3>3. g[i] = f[i]
      BY <2>0, <3>2
    <3>4. QED
      BY <2>0, <2>1, <3>3
  <2>2. CASE i = k
    <3>1. i - 1 < k /\ ~ (i < k)
      BY <1>0, <2>0, <2>2
    <3>2. g[i - 1] = f[i - 1]
      BY <1>5, <3>1
    <3>3. g[i] + v[k] = f[i] + u[k]
      BY <1>0, <2>0, <2>2, <3>2
    <3>4. QED
      BY <2>0, <3>1, <3>3
  <2>3. CASE k < i
    <3>1. ~ (i - 1 < k) /\ ~ (i < k) /\ i # k
      BY <1>0, <2>0, <2>3
    <3>2. g[i - 1] + v[k] = f[i - 1] + u[k] /\ u[i] = v[i]
      BY <1>3, <1>5, <3>1
    <3>3. g[i] + v[k] = f[i] + u[k]
      <4>1. PICK a \in Nat, b \in Nat, c \in Nat, x \in Nat, y \in Nat :
              a = g[i - 1] /\ b = f[i - 1] /\ c = v[i] /\ x = v[k] /\ y = u[k]
        BY <1>0, <2>0
      <4>2. a + x = b + y /\ g[i] = a + c /\ f[i] = b + c
        BY <2>0, <3>2, <4>1
      <4>3. (a + c) + x = (b + c) + y
        BY <4>2, SameGain
      <4>4. QED
        BY <4>1, <4>2, <4>3
    <3>4. QED
      BY <2>0, <3>1, <3>3
  <2>4. QED
    BY <1>0, <2>0, <2>1, <2>2, <2>3
<1>6. S = 0 .. n
  <2> HIDE DEF S
  <2>1. S \in SUBSET (0 .. n)
    BY DEF S
  <2>2. QED
    BY <1>0, <1>4, <1>5, <2>1, Positions
<1>7. n \in 0 .. n /\ ~ (n < k)
  BY <1>0
<1>8. g[n] + v[k] = f[n] + u[k]
  BY <1>6, <1>7
<1>9. QED
  BY <1>2, <1>8

\* A sequence of zeros has the total 0.
LEMMA TotalZero ==
  ASSUME NEW v \in Seq(Nat), \A i \in 1 .. Len(v) : v[i] = 0
  PROVE  Total(v) = 0
<1> DEFINE f == Partial(v)
           n == Len(v)
           S == {i \in 0 .. n : f[i] = 0}
<1>0. n \in Nat /\ Total(v) = f[n] /\ \A i \in 1 .. n : v[i] = 0
  BY DEF Total
<1>1. f[0] = 0 /\ \A i \in 1 .. n : f[i] = f[i - 1] + v[i]
  BY PartialSums
<1> HIDE DEF f, n
<1>2. 0 \in S
  BY <1>0, <1>1
<1>3. ASSUME NEW i \in 1 .. n, i - 1 \in S PROVE i \in S
  <2>1. i \in 0 .. n /\ f[i - 1] = 0 /\ v[i] = 0 /\ f[i] = f[i - 1] + v[i]
    BY <1>0, <1>1, <1>3
  <2>2. QED
    BY <2>1
<1>4. S = 0 .. n
  <2> HIDE DEF S
  <2>1. S \in SUBSET (0 .. n)
    BY DEF S
  <2>2. QED
    BY <1>0, <1>2, <1>3, <2>1, Positions
<1>5. QED
  BY <1>0, <1>4

-----------------------------------------------------------------------------
(* Sums over finite sets.                                                  *)

\* Induction on the subsets of a finite set: a collection that holds the empty
\* set, and every set from which removing any element leaves one of its own,
\* holds them all.
LEMMA Subsets ==
  ASSUME NEW S, IsFiniteSet(S), NEW G,
         {} \in G,
         \A T \in SUBSET S : T # {} /\ (\A x \in T : T \ {x} \in G) => T \in G
  PROVE  \A T \in SUBSET S : T \in G
<1> DEFINE B == {Cardinality(T) : T \in {U \in SUBSET S : U \notin G}}
<1>1. \A T \in SUBSET S : IsFiniteSet(T) /\ Cardinality(T) \in Nat
  BY FS_Subset, FS_CardinalityType
<1> SUFFICES ASSUME B # {} PROVE FALSE
  OBVIOUS
<1>2. B \in SUBSET Nat
  BY <1>1
<1>3. PICK n \in B : \A m \in B : n <= m
  <2> HIDE DEF B
  <2>1. QED
    BY <1>2, Least
<1>4. PICK T \in SUBSET S : T \notin G /\ n = Cardinality(T)
  BY <1>3
<1>5. T # {}
  BY <1>4
<1>6. ASSUME NEW x \in T PROVE T \ {x} \in G
  <2>1. Cardinality(T \ {x}) = Cardinality(T) - 1
    BY <1>1, FS_RemoveElement
  <2>2. T \ {x} \in SUBSET S /\ Cardinality(T) \in Nat
    BY <1>1
  <2>3. ~ (Cardinality(T) <= Cardinality(T \ {x}))
    BY <2>1, <2>2
  <2>4. Cardinality(T \ {x}) \notin B
    BY <1>3, <1>4, <2>3
  <2>5. QED
    BY <2>2, <2>4
<1>7. QED
  BY <1>4, <1>5, <1>6

\* The subsets of S with at most n elements, and the sums over them.
Small(S, n) == {T \in SUBSET S : Cardinality(T) <= n}
SumsOn(g, f, D) ==
    g = [T \in D |-> IF T = {} THEN 0 ELSE g[T \ {Chosen(T)}] + f[Chosen(T)]]

LEMMA ChosenIn == ASSUME NEW T, T # {} PROVE Chosen(T) \in T
BY DEF Chosen

LEMMA SumsOnSmall ==
  ASSUME NEW S, IsFiniteSet(S), NEW f, \A x \in S : f[x] \in Int
  PROVE  \A n \in 0 .. Cardinality(S) : \E g \in [Small(S, n) -> Int] : SumsOn(g, f, Small(S, n))
<1> DEFINE N == {n \in 0 .. Cardinality(S) :
                   \E g \in [Small(S, n) -> Int] : SumsOn(g, f, Small(S, n))}
<1>0. Cardinality(S) \in Nat
  BY FS_CardinalityType
<1>1. \A T \in SUBSET S : /\ IsFiniteSet(T) /\ Cardinality(T) \in Nat
                          /\ Cardinality(T) = 0 <=> T = {}
  BY FS_Subset, FS_CardinalityType, FS_EmptySet
<1>2. ASSUME NEW T \in SUBSET S, T # {}
      PROVE  /\ Chosen(T) \in S /\ T \ {Chosen(T)} \in SUBSET S
             /\ Cardinality(T \ {Chosen(T)}) = Cardinality(T) - 1
  BY <1>1, <1>2, ChosenIn, FS_RemoveElement
<1>3. 0 \in N
  <2> DEFINE g == [T \in Small(S, 0) |-> 0]
  <2>1. \A T \in Small(S, 0) : T = {}
    BY <1>1 DEF Small
  <2>2. g \in [Small(S, 0) -> Int] /\ SumsOn(g, f, Small(S, 0))
    BY <2>1 DEF SumsOn
  <2>3. QED
    BY <1>0, <2>2
<1>4. ASSUME NEW n \in 1 .. Cardinality(S), n - 1 \in N
      PROVE  n \in N
  <2>0. n \in Nat /\ n - 1 \in Nat /\ n \in 0 .. Cardinality(S)
    BY <1>0
  <2>1. PICK g \in [Small(S, n - 1) -> Int] : SumsOn(g, f, Small(S, n - 1))
    BY <1>4
  <2> DEFINE Val(T) == IF T = {} THEN 0 ELSE g[T \ {Chosen(T)}] + f[Chosen(T)]
             h == [T \in Small(S, n) |-> Val(T)]
  <2>2. ASSUME NEW T \in Small(S, n), T # {}
        PROVE  T \ {Chosen(T)} \in Small(S, n - 1) /\ T \ {Chosen(T)} \in Small(S, n)
    BY <1>1, <1>2, <2>0, <2>2 DEF Small
  <2>3. h \in [Small(S, n) -> Int]
    <3>1. ASSUME NEW T \in Small(S, n) PROVE Val(T) \in Int
      <4>1. CASE T = {}
        BY <4>1
      <4>2. CASE T # {}
        <5>1. g[T \ {Chosen(T)}] \in Int
          BY <2>1, <2>2, <4>2
        <5>2. f[Chosen(T)] \in Int
          BY <1>2, <4>2 DEF Small
        <5>3. QED
          BY <4>2, <5>1, <5>2
      <4>3. QED
        BY <4>1, <4>2
    <3> HIDE DEF Val
    <3>2. QED
      BY <3>1
  <2>4. \A T \in Small(S, n - 1) : T \in Small(S, n) /\ h[T] = g[T]
    <3> SUFFICES ASSUME NEW T \in Small(S, n - 1) PROVE T \in Small(S, n) /\ h[T] = g[T]
      OBVIOUS
    <3>1. T \in Small(S, n)
      BY <1>1, <2>0 DEF Small
    <3>2. g[T] = Val(T)
      BY <2>1 DEF SumsOn
    <3>3. QED
      BY <3>1, <3>2
  <2>5. ASSUME NEW T \in Small(S, n)
        PROVE  h[T] = IF T = {} THEN 0 ELSE h[T \ {Chosen(T)}] + f[Chosen(T)]
    <3>1. CASE T = {}
      BY <3>1
    <3>2. CASE T # {}
      <4>1. h[T \ {Chosen(T)}] = g[T \ {Chosen(T)}]
        <5> HIDE DEF h
        <5>1. QED
          BY <2>2, <2>4, <3>2
      <4>2. h[T] = g[T \ {Chosen(T)}] + f[Chosen(T)]
        BY <3>2
      <4>3. QED
        BY <3>2, <4>1, <4>2
    <3>3. QED
      BY <3>1, <3>2
  <2>6. SumsOn(h, f, Small(S, n))
    <3> DEFINE k == [T \in Small(S, n) |->
                       IF T = {} THEN 0 ELSE h[T \ {Chosen(T)}] + f[Chosen(T)]]
    <3>1. h = [T \in Small(S, n) |-> h[T]]
      OBVIOUS
    <3> HIDE DEF h
    <3>2. h = k
      BY <2>5, <3>1
    <3>3. QED
      BY <3>2 DEF SumsOn
  <2>7. QED
    <3> HIDE DEF h
    <3>1. QED
      BY <2>0, <2>3, <2>6
<1>5. N = 0 .. Cardinality(S)
  <2> HIDE DEF N
  <2>1. N \in SUBSET (0 .. Cardinality(S))
    BY DEF N
  <2>2. QED
    BY <1>0, <1>3, <1>4, <2>1, Positions
<1>6. QED
  BY <1>5

\* The sums over the subsets are integers, each the sum without the element
\* chosen from the subset and that element's value.
LEMMA SubsetSumsMean ==
  ASSUME NEW S, IsFiniteSet(S), NEW f, \A x \in S : f[x] \in Int
  PROVE  /\ SubsetSums(f, S) \in [SUBSET S -> Int]
         /\ SubsetSums(f, S)[{}] = 0
         /\ \A T \in SUBSET S : T # {} =>
              SubsetSums(f, S)[T] = SubsetSums(f, S)[T \ {Chosen(T)}] + f[Chosen(T)]
<1>1. Small(S, Cardinality(S)) = SUBSET S
  BY FS_Subset DEF Small
<1>2. Cardinality(S) \in 0 .. Cardinality(S)
  BY FS_CardinalityType
<1>3. PICK g : SumsOn(g, f, SUBSET S)
  <2> DEFINE D(n) == \E g \in [Small(S, n) -> Int] : SumsOn(g, f, Small(S, n))
  <2>1. \A n \in 0 .. Cardinality(S) : D(n)
    BY SumsOnSmall
  <2>2. D(Cardinality(S))
    <3> HIDE DEF D
    <3>1. QED
      BY <1>2, <2>1
  <2>3. QED
    BY <1>1, <2>2
<1> DEFINE h == SubsetSums(f, S)
<1>4. SumsOn(h, f, SUBSET S)
  BY <1>3 DEF SubsetSums, SumsOn
<1> HIDE DEF h
<1>5. h = [T \in SUBSET S |-> IF T = {} THEN 0 ELSE h[T \ {Chosen(T)}] + f[Chosen(T)]]
  BY <1>4 DEF SumsOn
<1>6. h[{}] = 0 /\ \A T \in SUBSET S : T # {} => h[T] = h[T \ {Chosen(T)}] + f[Chosen(T)]
  <2>1. {} \in SUBSET S
    OBVIOUS
  <2>2. \A T \in SUBSET S : h[T] = IF T = {} THEN 0 ELSE h[T \ {Chosen(T)}] + f[Chosen(T)]
    BY <1>5
  <2>3. QED
    BY <2>1, <2>2
<1> DEFINE G == {T \in SUBSET S : h[T] \in Int}
<1>7. {} \in G
  BY <1>6
<1>8. ASSUME NEW T \in SUBSET S, T # {}, \A x \in T : T \ {x} \in G PROVE T \in G
  <2>1. Chosen(T) \in T
    BY <1>8, ChosenIn
  <2>2. h[T] = h[T \ {Chosen(T)}] + f[Chosen(T)]
    BY <1>6, <1>8
  <2>3. h[T \ {Chosen(T)}] \in Int /\ f[Chosen(T)] \in Int
    BY <1>8, <2>1
  <2>4. QED
    BY <2>2, <2>3
<1>9. \A T \in SUBSET S : T \in G
  <2> HIDE DEF G
  <2>1. QED
    BY <1>7, <1>8, Subsets
<1>10. h \in [SUBSET S -> Int]
  <2>1. h = [T \in SUBSET S |-> h[T]]
    BY <1>5
  <2>2. QED
    BY <1>9, <2>1
<1>11. QED
  BY <1>6, <1>10 DEF h

\* The element removed makes no difference.
LEMMA SubsetSumsStep ==
  ASSUME NEW S, IsFiniteSet(S), NEW f, \A x \in S : f[x] \in Int
  PROVE  \A T \in SUBSET S : \A y \in T :
            SubsetSums(f, S)[T] = SubsetSums(f, S)[T \ {y}] + f[y]
<1> DEFINE h == SubsetSums(f, S)
           G == {T \in SUBSET S : \A y \in T : h[T] = h[T \ {y}] + f[y]}
<1>1. /\ h \in [SUBSET S -> Int] /\ h[{}] = 0
      /\ \A T \in SUBSET S : T # {} => h[T] = h[T \ {Chosen(T)}] + f[Chosen(T)]
  BY SubsetSumsMean
<1> HIDE DEF h
<1>2. {} \in G
  OBVIOUS
<1>3. ASSUME NEW T \in SUBSET S, T # {}, \A x \in T : T \ {x} \in G PROVE T \in G
  <2> DEFINE c == Chosen(T)
  <2>1. c \in T /\ h[T] = h[T \ {c}] + f[c]
    BY <1>1, <1>3, ChosenIn
  <2> HIDE DEF c
  <2>2. ASSUME NEW y \in T PROVE h[T] = h[T \ {y}] + f[y]
    <3>1. CASE y = c
      BY <2>1, <3>1
    <3>2. CASE y # c
      <4> DEFINE U == (T \ {c}) \ {y}
      <4>1. U = (T \ {y}) \ {c} /\ y \in T \ {c} /\ c \in T \ {y}
        BY <2>1, <3>2
      <4>2. h[T \ {c}] = h[U] + f[y]
        BY <1>3, <2>1, <4>1
      <4>3. h[T \ {y}] = h[U] + f[c]
        BY <1>3, <4>1
      <4>4. h[U] \in Int /\ f[y] \in Int /\ f[c] \in Int
        BY <1>1, <2>1
      <4> HIDE DEF U
      <4>5. QED
        BY <2>1, <4>2, <4>3, <4>4
    <3>3. QED
      BY <3>1, <3>2
  <2>3. QED
    BY <2>2
<1>4. \A T \in SUBSET S : T \in G
  <2> HIDE DEF G
  <2>1. QED
    BY <1>2, <1>3, Subsets
<1>5. QED
  BY <1>4 DEF h

\* Nor does the set the subsets are taken from, nor what the function is
\* elsewhere.
LEMMA SubsetSumsAgree ==
  ASSUME NEW S, IsFiniteSet(S), NEW f, \A x \in S : f[x] \in Int,
         NEW R, IsFiniteSet(R), NEW g, \A x \in R : g[x] \in Int,
         S \subseteq R, \A x \in S : f[x] = g[x]
  PROVE  \A T \in SUBSET S : SubsetSums(f, S)[T] = SubsetSums(g, R)[T]
<1> DEFINE h == SubsetSums(f, S)
           k == SubsetSums(g, R)
           G == {T \in SUBSET S : h[T] = k[T]}
<1>1. h[{}] = 0 /\ \A T \in SUBSET S : T # {} => h[T] = h[T \ {Chosen(T)}] + f[Chosen(T)]
  BY SubsetSumsMean
<1>2. k[{}] = 0 /\ \A T \in SUBSET R : T # {} => k[T] = k[T \ {Chosen(T)}] + g[Chosen(T)]
  BY SubsetSumsMean
<1> HIDE DEF h, k
<1>3. {} \in G
  BY <1>1, <1>2
<1>4. ASSUME NEW T \in SUBSET S, T # {}, \A x \in T : T \ {x} \in G PROVE T \in G
  <2>1. Chosen(T) \in T
    BY <1>4, ChosenIn
  <2>2. f[Chosen(T)] = g[Chosen(T)] /\ h[T \ {Chosen(T)}] = k[T \ {Chosen(T)}]
    BY <1>4, <2>1
  <2>3. QED
    BY <1>1, <1>2, <1>4, <2>2
<1>5. \A T \in SUBSET S : T \in G
  <2> HIDE DEF G
  <2>1. QED
    BY <1>3, <1>4, Subsets
<1>6. QED
  BY <1>5 DEF h, k

-----------------------------------------------------------------------------
\* A sum is an integer.
LEMMA SumInt ==
  ASSUME NEW S, IsFiniteSet(S), NEW f, \A x \in S : f[x] \in Int
  PROVE  SumOver(f, S) \in Int
BY SubsetSumsMean DEF SumOver

LEMMA SumNone == ASSUME NEW f PROVE SumOver(f, {}) = 0
BY SubsetSumsMean, FS_EmptySet DEF SumOver

\* It depends on the values on the set alone.
LEMMA SumSame ==
  ASSUME NEW S, IsFiniteSet(S), NEW f, NEW g, \A x \in S : f[x] \in Int /\ f[x] = g[x]
  PROVE  SumOver(f, S) = SumOver(g, S)
BY SubsetSumsAgree DEF SumOver

\* An element more adds its value.
LEMMA SumAdd ==
  ASSUME NEW S, IsFiniteSet(S), NEW y, y \notin S,
         NEW f, \A x \in S \cup {y} : f[x] \in Int
  PROVE  SumOver(f, S \cup {y}) = SumOver(f, S) + f[y]
<1> DEFINE R == S \cup {y}
<1>1. IsFiniteSet(R) /\ R \ {y} = S /\ y \in R /\ S \subseteq R /\ \A x \in R : f[x] \in Int
  BY FS_AddElement
<1> HIDE DEF R
<1>2. SubsetSums(f, R)[R] = SubsetSums(f, R)[S] + f[y]
  BY <1>1, SubsetSumsStep
<1>3. \A x \in S : f[x] \in Int
  BY <1>1
<1>4. SubsetSums(f, S)[S] = SubsetSums(f, R)[S]
  BY <1>1, <1>3, SubsetSumsAgree
<1>5. QED
  BY <1>2, <1>4 DEF SumOver, R

LEMMA SumGrows ==
  ASSUME NEW S, IsFiniteSet(S), NEW y, y \notin S,
         NEW f, NEW g, \A x \in S \cup {y} : f[x] \in Int, \A x \in S : g[x] = f[x]
  PROVE  SumOver(f, S \cup {y}) = SumOver(g, S) + f[y]
<1>1. SumOver(f, S \cup {y}) = SumOver(f, S) + f[y]
  BY SumAdd
<1>2. \A x \in S : f[x] \in Int /\ f[x] = g[x]
  OBVIOUS
<1>3. SumOver(f, S) = SumOver(g, S)
  BY <1>2, SumSame
<1>4. QED
  BY <1>1, <1>3

\* The sum over two disjoint sets is the sum of their sums.
LEMMA SumUnion ==
  ASSUME NEW S, IsFiniteSet(S), NEW R, IsFiniteSet(R), S \cap R = {},
         NEW f, \A x \in S \cup R : f[x] \in Int
  PROVE  SumOver(f, S \cup R) = SumOver(f, S) + SumOver(f, R)
<1> DEFINE G == {T \in SUBSET R : SumOver(f, S \cup T) = SumOver(f, S) + SumOver(f, T)}
<1>1. {} \in G
  <2>1. S \cup {} = S /\ SumOver(f, S) \in Int
    BY SumInt
  <2>2. QED
    BY <2>1, SumNone
<1>2. ASSUME NEW T \in SUBSET R, T # {}, \A x \in T : T \ {x} \in G PROVE T \in G
  <2> DEFINE y == Chosen(T)
  <2>1. y \in T
    BY <1>2, ChosenIn
  <2> DEFINE U == T \ {y}
  <2>2. IsFiniteSet(U) /\ IsFiniteSet(S \cup U) /\ U \in SUBSET R /\ y \notin U /\ y \notin S
        /\ U \cup {y} = T /\ (S \cup U) \cup {y} = S \cup T /\ y \in R
    <3>1. IsFiniteSet(U)
      BY FS_Subset
    <3>2. IsFiniteSet(S \cup U)
      <4> HIDE DEF U
      <4>1. QED
        BY <3>1, FS_Union
    <3>3. QED
      BY <2>1, <3>1, <3>2
  <2>3. SumOver(f, S \cup U) = SumOver(f, S) + SumOver(f, U)
    BY <1>2, <2>1
  <2> HIDE DEF U, y
  <2>4. \A x \in U \cup {y} : f[x] \in Int
    BY <2>2
  <2>5. \A x \in (S \cup U) \cup {y} : f[x] \in Int
    BY <2>2
  <2>6. SumOver(f, T) = SumOver(f, U) + f[y]
    BY <2>2, <2>4, SumAdd
  <2>7. SumOver(f, S \cup T) = SumOver(f, S \cup U) + f[y]
    BY <2>2, <2>5, SumAdd
  <2>8. SumOver(f, S) \in Int /\ SumOver(f, U) \in Int /\ f[y] \in Int
    BY <2>2, SumInt
  <2>9. QED
    BY <2>3, <2>6, <2>7, <2>8
<1>3. \A T \in SUBSET R : T \in G
  <2> HIDE DEF G
  <2>1. QED
    BY <1>1, <1>2, Subsets
<1>4. QED
  BY <1>3

\* A sum of naturals is a natural.
LEMMA SumNat ==
  ASSUME NEW S, IsFiniteSet(S), NEW f, \A x \in S : f[x] \in Nat
  PROVE  SumOver(f, S) \in Nat
<1> DEFINE G == {T \in SUBSET S : SumOver(f, T) \in Nat}
<1>1. {} \in G
  BY SumNone
<1>2. ASSUME NEW T \in SUBSET S, T # {}, \A x \in T : T \ {x} \in G PROVE T \in G
  <2> DEFINE y == Chosen(T)
             U == T \ {y}
  <2>1. y \in T
    BY <1>2, ChosenIn
  <2>2. IsFiniteSet(U) /\ y \notin U /\ U \cup {y} = T /\ y \in S /\ f[y] \in Nat
    BY <2>1, FS_Subset
  <2>3. SumOver(f, U) \in Nat
    BY <1>2, <2>1
  <2> HIDE DEF U, y
  <2>4. \A x \in U \cup {y} : f[x] \in Int
    BY <2>2
  <2>5. SumOver(f, T) = SumOver(f, U) + f[y]
    BY <2>2, <2>4, SumAdd
  <2>6. QED
    BY <2>2, <2>3, <2>5
<1>3. \A T \in SUBSET S : T \in G
  <2> HIDE DEF G
  <2>1. QED
    BY <1>1, <1>2, Subsets
<1>4. QED
  BY <1>3

\* A sum of zeros is zero.
LEMMA SumZero ==
  ASSUME NEW S, IsFiniteSet(S), NEW f, \A x \in S : f[x] = 0
  PROVE  SumOver(f, S) = 0
<1> DEFINE G == {T \in SUBSET S : SumOver(f, T) = 0}
<1>1. {} \in G
  BY SumNone
<1>2. ASSUME NEW T \in SUBSET S, T # {}, \A x \in T : T \ {x} \in G PROVE T \in G
  <2> DEFINE y == Chosen(T)
             U == T \ {y}
  <2>1. y \in T
    BY <1>2, ChosenIn
  <2>2. IsFiniteSet(U) /\ y \notin U /\ U \cup {y} = T /\ y \in S /\ f[y] = 0
    BY <2>1, FS_Subset
  <2>3. SumOver(f, U) = 0
    BY <1>2, <2>1
  <2> HIDE DEF U, y
  <2>4. \A x \in U \cup {y} : f[x] \in Int
    BY <2>2
  <2>5. SumOver(f, T) = SumOver(f, U) + f[y]
    BY <2>2, <2>4, SumAdd
  <2>6. QED
    BY <2>2, <2>3, <2>5
<1>3. \A T \in SUBSET S : T \in G
  <2> HIDE DEF G
  <2>1. QED
    BY <1>1, <1>2, Subsets
<1>4. QED
  BY <1>3

\* A smaller set of naturals has a smaller sum.
LEMMA SumSubset ==
  ASSUME NEW S, IsFiniteSet(S), NEW T \in SUBSET S, NEW f, \A x \in S : f[x] \in Nat
  PROVE  /\ SumOver(f, T) \in Nat /\ SumOver(f, S) \in Nat
         /\ SumOver(f, T) <= SumOver(f, S)
<1> DEFINE U == S \ T
<1>1. IsFiniteSet(T) /\ IsFiniteSet(U) /\ T \cap U = {} /\ T \cup U = S
  BY FS_Subset
<1> HIDE DEF U
<1>2. \A x \in T \cup U : f[x] \in Int
  BY <1>1
<1>3. SumOver(f, S) = SumOver(f, T) + SumOver(f, U)
  BY <1>1, <1>2, SumUnion
<1>4. \A x \in U : f[x] \in Nat
  BY <1>1
<1>5. SumOver(f, T) \in Nat /\ SumOver(f, U) \in Nat
  BY <1>1, <1>4, SumNat
<1>6. QED
  BY <1>3, <1>5

\* The sum of sums, and of differences.
LEMMA SumPlus ==
  ASSUME NEW S, IsFiniteSet(S), NEW f, NEW g, NEW h,
         \A x \in S : f[x] \in Int /\ g[x] \in Int /\ h[x] = f[x] + g[x]
  PROVE  SumOver(h, S) = SumOver(f, S) + SumOver(g, S)
<1> DEFINE G == {T \in SUBSET S : SumOver(h, T) = SumOver(f, T) + SumOver(g, T)}
<1>1. {} \in G
  BY SumNone
<1>2. ASSUME NEW T \in SUBSET S, T # {}, \A x \in T : T \ {x} \in G PROVE T \in G
  <2> DEFINE y == Chosen(T)
             U == T \ {y}
  <2>1. y \in T
    BY <1>2, ChosenIn
  <2>2. IsFiniteSet(U) /\ y \notin U /\ U \cup {y} = T /\ y \in S
        /\ f[y] \in Int /\ g[y] \in Int /\ h[y] = f[y] + g[y]
    BY <2>1, FS_Subset
  <2>3. SumOver(h, U) = SumOver(f, U) + SumOver(g, U)
    BY <1>2, <2>1
  <2> HIDE DEF U, y
  <2>4. \A x \in U \cup {y} : f[x] \in Int /\ g[x] \in Int /\ h[x] \in Int
    BY <2>2
  <2>5. /\ SumOver(f, T) = SumOver(f, U) + f[y]
        /\ SumOver(g, T) = SumOver(g, U) + g[y]
        /\ SumOver(h, T) = SumOver(h, U) + h[y]
    BY <2>2, <2>4, SumAdd
  <2>6. SumOver(f, U) \in Int /\ SumOver(g, U) \in Int
    BY <2>2, <2>4, SumInt
  <2>7. QED
    BY <2>2, <2>3, <2>5, <2>6
<1>3. \A T \in SUBSET S : T \in G
  <2> HIDE DEF G
  <2>1. QED
    BY <1>1, <1>2, Subsets
<1>4. QED
  BY <1>3

LEMMA SumMinus ==
  ASSUME NEW S, IsFiniteSet(S), NEW f, NEW g, NEW h,
         \A x \in S : f[x] \in Int /\ g[x] \in Int /\ h[x] = f[x] - g[x]
  PROVE  SumOver(h, S) = SumOver(f, S) - SumOver(g, S)
<1>1. \A x \in S : h[x] \in Int /\ g[x] \in Int /\ f[x] = h[x] + g[x]
  OBVIOUS
<1>2. SumOver(f, S) = SumOver(h, S) + SumOver(g, S)
  BY <1>1, SumPlus
<1>3. SumOver(h, S) \in Int /\ SumOver(g, S) \in Int
  BY <1>1, SumInt
<1>4. QED
  BY <1>2, <1>3

\* Larger values have a larger sum.
LEMMA SumLeq ==
  ASSUME NEW S, IsFiniteSet(S), NEW f, NEW g,
         \A x \in S : f[x] \in Int /\ g[x] \in Int /\ f[x] <= g[x]
  PROVE  SumOver(f, S) <= SumOver(g, S)
<1> DEFINE h == [x \in S |-> g[x] - f[x]]
<1>1. \A x \in S : h[x] \in Nat /\ h[x] \in Int /\ g[x] = f[x] + h[x]
  OBVIOUS
<1> HIDE DEF h
<1>2. SumOver(g, S) = SumOver(f, S) + SumOver(h, S)
  BY <1>1, SumPlus
<1>3. SumOver(h, S) \in Nat
  BY <1>1, SumNat
<1>4. SumOver(f, S) \in Int
  BY SumInt
<1>5. QED
  BY <1>2, <1>3, <1>4

\* The sum over a part of a set is one over the set with zeros elsewhere.
LEMMA SumPart ==
  ASSUME NEW S, IsFiniteSet(S), NEW T \in SUBSET S, NEW f, NEW g,
         \A x \in T : f[x] \in Int /\ g[x] = f[x],
         \A x \in S \ T : g[x] = 0
  PROVE  SumOver(f, T) = SumOver(g, S)
<1> DEFINE U == S \ T
<1>1. IsFiniteSet(T) /\ IsFiniteSet(U) /\ T \cap U = {} /\ T \cup U = S
      /\ \A x \in U : g[x] = 0
  BY FS_Subset
<1> HIDE DEF U
<1>2. \A x \in T \cup U : g[x] \in Int
  BY <1>1
<1>3. SumOver(g, S) = SumOver(g, T) + SumOver(g, U)
  BY <1>1, <1>2, SumUnion
<1>4. SumOver(g, U) = 0
  BY <1>1, SumZero
<1>5. SumOver(f, T) = SumOver(g, T) /\ SumOver(f, T) \in Int
  BY <1>1, SumSame, SumInt
<1>6. QED
  BY <1>3, <1>4, <1>5

\* The sum over the image of a set under a one-to-one function.
Picked(h, S) == {h[x] : x \in S}

LEMMA SumImage ==
  ASSUME NEW S, IsFiniteSet(S), NEW h, \A x, y \in S : h[x] = h[y] => x = y,
         NEW f, NEW g, \A x \in S : g[x] \in Int /\ f[h[x]] = g[x]
  PROVE  IsFiniteSet(Picked(h, S)) /\ SumOver(f, Picked(h, S)) = SumOver(g, S)
<1> DEFINE I(T) == {h[x] : x \in T}
           G == {T \in SUBSET S : IsFiniteSet(I(T)) /\ SumOver(f, I(T)) = SumOver(g, T)}
<1>1. {} \in G
  <2>1. I({}) = {}
    OBVIOUS
  <2>2. QED
    BY <2>1, SumNone, FS_EmptySet
<1>2. ASSUME NEW T \in SUBSET S, T # {}, \A x \in T : T \ {x} \in G PROVE T \in G
  <2> DEFINE y == Chosen(T)
             U == T \ {y}
  <2>1. y \in T
    BY <1>2, ChosenIn
  <2>2. IsFiniteSet(U) /\ y \notin U /\ U \cup {y} = T /\ y \in S /\ U \subseteq S
    BY <2>1, FS_Subset
  <2>3. IsFiniteSet(I(U)) /\ SumOver(f, I(U)) = SumOver(g, U)
    BY <1>2, <2>1
  <2> HIDE DEF U, y
  <2>4. I(T) = I(U) \cup {h[y]} /\ h[y] \notin I(U)
    BY <2>2
  <2>5. \A z \in I(U) \cup {h[y]} : f[z] \in Int
    BY <2>2
  <2>6. \A x \in U \cup {y} : g[x] \in Int
    BY <2>2
  <2>7. SumOver(g, T) = SumOver(g, U) + g[y]
    BY <2>2, <2>6, SumAdd
  <2>8. IsFiniteSet(I(T)) /\ SumOver(f, I(T)) = SumOver(f, I(U)) + f[h[y]]
    <3> DEFINE J == I(U)
    <3>1. /\ IsFiniteSet(J) /\ I(T) = J \cup {h[y]} /\ h[y] \notin J
          /\ \A z \in J \cup {h[y]} : f[z] \in Int
      BY <2>3, <2>4, <2>5
    <3> HIDE DEF J
    <3>2. IsFiniteSet(J \cup {h[y]})
      BY <3>1, FS_AddElement
    <3>3. SumOver(f, J \cup {h[y]}) = SumOver(f, J) + f[h[y]]
      <4> DEFINE z == h[y]
      <4>1. z \notin J /\ \A x \in J \cup {z} : f[x] \in Int
        BY <3>1
      <4> HIDE DEF z
      <4>2. SumOver(f, J \cup {z}) = SumOver(f, J) + f[z]
        BY <3>1, <4>1, SumAdd
      <4>3. QED
        BY <4>2 DEF z
    <3>4. IsFiniteSet(I(T)) /\ SumOver(f, I(T)) = SumOver(f, J) + f[h[y]]
      <4> HIDE DEF I
      <4>1. QED
        BY <3>1, <3>2, <3>3
    <3>5. QED
      BY <3>4 DEF J
  <2>9. f[h[y]] = g[y]
    BY <2>2
  <2>10. QED
    BY <2>3, <2>7, <2>8, <2>9
<1>3. \A T \in SUBSET S : T \in G
  <2> HIDE DEF G
  <2>1. QED
    BY <1>1, <1>2, Subsets
<1>4. QED
  BY <1>3 DEF Picked
=============================================================================

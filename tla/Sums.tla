-------------------------------- MODULE Sums --------------------------------
(***************************************************************************)
(* The sum of a sequence of natural numbers, as a recursive function on    *)
(* its positions, and the sum of integers over a finite set, as one on its *)
(* subsets.  The folds of the community modules compute the same, but take *)
(* an operator as their argument, which no installed prover can            *)
(* instantiate; SumTheorems proves what the models need of these two.      *)
(***************************************************************************)
EXTENDS Integers, Sequences

\* The sum of the first n elements, for each n.
Partial(v) ==
  LET sum[n \in 0 .. Len(v)] == IF n = 0 THEN 0 ELSE sum[n - 1] + v[n] IN sum

Total(v) == Partial(v)[Len(v)]

\* The sum of f over every subset of S, and over S itself.
Chosen(T) == CHOOSE x \in T : TRUE
SubsetSums(f, S) ==
  LET sum[T \in SUBSET S] ==
        IF T = {} THEN 0 ELSE sum[T \ {Chosen(T)}] + f[Chosen(T)]
  IN sum

SumOver(f, S) == SubsetSums(f, S)[S]
=============================================================================

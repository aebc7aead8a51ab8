--------------------------- MODULE Combinations ---------------------------
(***************************************************************************)
(* src/src/combinations.c: the filters a client's lookups go to.  The hash *)
(* of the client, modulo the number of subsets of number_of_filters_per_   *)
(* user filters, is the place of its subset in lexicographic order.        *)
(***************************************************************************)
EXTENDS Integers, FiniteSetsExt

CONSTANTS
  SetSizes     \* numbers of filters

ASSUME CombinationsAssumption == SetSizes \subseteq Nat \ {0}

VARIABLES
  set_size,
  subset_size,
  combination,
  subset_indexes,
  c

combVars == <<set_size, subset_size, combination, subset_indexes, c>>

\* Mutant: one subset too many.
combinations_past[n \in Nat] ==
  [k \in 0..n |->
     IF k = 0 \/ k = n THEN 1
     ELSE IF k = 1 THEN n + 1
     ELSE combinations_past[n - 1][k] + combinations_past[n - 1][k - 1]]

\* The recursion of number_of_combinations() for set_size n, by subset_size k <= n.
\* The configuration is not checked for that; otherwise the recursion would pass
\* 0 and the unsigned set_size wrap around.
combinations[n \in Nat] ==
  [k \in 0..n |->
     IF k = 0 \/ k = n THEN 1
     ELSE IF k = 1 THEN n
     ELSE combinations[n - 1][k] + combinations[n - 1][k - 1]]

\* Mutant of number_of_combinations().
number_of_combinations_off(n, k) == combinations_past[n][k]

number_of_combinations(n, k) == combinations[n][k]

\* lookup_combination(): `combination` is client_hash modulo the number.
CombInit ==
  /\ set_size \in SetSizes
  /\ subset_size \in 1..set_size
  /\ combination \in 0..(number_of_combinations(set_size, subset_size) - 1)
  /\ subset_indexes = [t \in 0..(subset_size - 1) |-> t]
  /\ c = 0

\* Mutant: an index may go one further.
MovablePast == {t \in 0..(subset_size - 1) : subset_indexes[t] # t + set_size - subset_size + 1}

\* The indexes that can still be incremented.
Movable == {t \in 0..(subset_size - 1) : subset_indexes[t] # t + set_size - subset_size}

\* Mutant: the indexes after p stay where they are.
NextSubsetLoose(p) == [subset_indexes EXCEPT ![p] = @ + 1]

\* Index p is incremented, the ones after it follow it closely.
NextSubset(p) ==
  [t \in 0..(subset_size - 1) |->
     IF t < p THEN subset_indexes[t] ELSE subset_indexes[p] + 1 + (t - p)]

\* One turn of the loop over the combinations: the last movable index moves.
NextCombination ==
  /\ c < combination
  /\ \E p \in Movable :
       /\ \A t \in Movable : t <= p
       /\ subset_indexes' = NextSubset(p)
  /\ c' = c + 1
  /\ UNCHANGED <<set_size, subset_size, combination>>

CombSpec == CombInit /\ [][NextCombination]_combVars

----------------------------------------------------------------------------
CombTypeOK ==
  /\ set_size \in Nat \ {0}
  /\ subset_size \in 1..set_size
  /\ combination \in Nat
  /\ subset_indexes \in [0..(subset_size - 1) -> Int]
  /\ c \in Nat

\* A client gets number_of_filters_per_user different filters, all of them
\* filters of the state: strictly increasing indexes at every turn.
SubsetSorted ==
  /\ \A t \in 0..(subset_size - 1) : subset_indexes[t] \in 0..(set_size - 1)
  /\ \A s, t \in 0..(subset_size - 1) : s < t => subset_indexes[s] < subset_indexes[t]

\* "We should never run of the start of the set": as long as the target is not
\* reached there is an index to increment.
NeverRunsOff == c < combination => Movable # {}

\* The inductive invariant: an index leaves room for the ones after it.
CombInv ==
  /\ CombTypeOK
  /\ SubsetSorted
  /\ \A t \in 0..(subset_size - 1) : subset_indexes[t] <= t + set_size - subset_size

\* Subsets of subset_size filters, and the order the loop visits them in.
Subsets == kSubset(subset_size, 0..(set_size - 1))

LexBefore(S, T) ==
  \E x \in S \ T : \A y \in SymDiff(S, T) : x <= y

\* The subset reached after c turns has exactly c subsets before it: every
\* subset belongs to one combination number, and number_of_combinations()
\* counts them all, so clients are spread evenly over all subsets.
RankIsCount ==
  LET this == {subset_indexes[t] : t \in 0..(subset_size - 1)}
  IN  /\ Cardinality({S \in Subsets : LexBefore(S, this)}) = c
      /\ number_of_combinations(set_size, subset_size) = Cardinality(Subsets)

=============================================================================

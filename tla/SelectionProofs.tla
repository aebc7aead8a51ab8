------------------------- MODULE SelectionProofs -------------------------
(***************************************************************************)
(* Theorems about the selection of filters for a client (Combinations) and *)
(* of bits for a hash (BloomOffsets), for every number of filters, size of *)
(* filter and number of hashes.                                            *)
(***************************************************************************)
EXTENDS BloomOffsets, Combinations, NumberLemmas, FiniteSetTheorems, TLAPS

----------------------------------------------------------------------------
(***************************************************************************)
(* lookup_combination()                                                    *)
(***************************************************************************)

\* lookup_combination() begins with the first indexes.
LEMMA CombStart == CombInit => CombInv
BY CombinationsAssumption DEF CombInit, CombInv, CombTypeOK, SubsetSorted

\* Each turn of lookup_combination() leaves room for the indexes that follow
\* the one it increments.
LEMMA CombStep == CombInv /\ [NextCombination]_combVars => CombInv'
<1> SUFFICES ASSUME CombInv, [NextCombination]_combVars
             PROVE  CombInv'
  OBVIOUS
<1> USE DEF CombInv, CombTypeOK, SubsetSorted
<1>1. CASE NextCombination
  <2>1. PICK p \in Movable : subset_indexes' = NextSubset(p)
    BY <1>1 DEF NextCombination
  <2>2. /\ UNCHANGED <<set_size, subset_size, combination>>
        /\ c' = c + 1
    BY <1>1 DEF NextCombination
  <2>3. /\ p \in 0..(subset_size - 1)
        /\ subset_indexes[p] + 1 <= p + set_size - subset_size
    <3>1. p \in 0..(subset_size - 1) /\ subset_indexes[p] # p + set_size - subset_size
      BY <2>1 DEF Movable
    <3>2. subset_indexes[p] \in Int /\ subset_indexes[p] <= p + set_size - subset_size
      BY <3>1
    <3> QED BY <3>1, <3>2
  <2>4. CombTypeOK'
    BY <2>1, <2>2, <2>3 DEF NextSubset
  <2>0. /\ set_size \in Nat /\ subset_size \in 1..set_size /\ p \in Int
        /\ \A t \in 0..(subset_size - 1) : subset_indexes[t] \in Int
        /\ \A t \in 0..(subset_size - 1) : t < p => subset_indexes'[t] = subset_indexes[t]
        /\ \A t \in 0..(subset_size - 1) :
             ~(t < p) => subset_indexes'[t] = subset_indexes[p] + 1 + (t - p)
    BY <2>1, <2>3 DEF NextSubset
  <2>5. \A t \in 0..(subset_size - 1) :
          /\ subset_indexes'[t] <= t + set_size - subset_size
          /\ subset_indexes'[t] \in 0..(set_size - 1)
    <3> SUFFICES ASSUME NEW t \in 0..(subset_size - 1)
                 PROVE  /\ subset_indexes'[t] <= t + set_size - subset_size
                        /\ subset_indexes'[t] \in 0..(set_size - 1)
      OBVIOUS
    <3>1. CASE t < p
      BY <2>0, <3>1
    <3>2. CASE ~(t < p)
      <4> DEFINE moved == subset_indexes[p]
      <4>1. moved \in Int /\ moved + 1 <= p + set_size - subset_size /\ moved >= 0
        BY <2>0, <2>3
      <4>2. subset_indexes'[t] = moved + 1 + (t - p)
        BY <2>0, <3>2
      <4> HIDE DEF moved
      <4>3. QED
        BY ONLY <4>1, <4>2, <2>0, <2>3, <3>2
    <3> QED BY <3>1, <3>2
  <2>6. \A s, t \in 0..(subset_size - 1) :
          s < t => subset_indexes'[s] < subset_indexes'[t]
    <3> SUFFICES ASSUME NEW s \in 0..(subset_size - 1),
                        NEW t \in 0..(subset_size - 1), s < t
                 PROVE  subset_indexes'[s] < subset_indexes'[t]
      OBVIOUS
    <3>1. CASE t < p
      <4>1. s < p
        BY <3>1, <2>0
      <4>2. QED
        BY <2>0, <3>1, <4>1
    <3>2. CASE ~(t < p) /\ s < p
      <4> DEFINE moved == subset_indexes[p]
      <4>1. subset_indexes'[s] = subset_indexes[s] /\ subset_indexes'[t] = moved + 1 + (t - p)
        BY <2>0, <3>2
      <4>2. subset_indexes[s] < moved /\ moved \in Int /\ subset_indexes[s] \in Int
        BY <2>0, <2>3, <3>2
      <4> HIDE DEF moved
      <4>3. QED
        BY ONLY <4>1, <4>2, <2>0, <3>2
    <3>3. CASE ~(s < p)
      <4> DEFINE moved == subset_indexes[p]
      <4>0. ~(t < p)
        BY <3>3, <2>0
      <4>1. subset_indexes'[s] = moved + 1 + (s - p) /\ subset_indexes'[t] = moved + 1 + (t - p)
        BY <2>0, <3>3, <4>0
      <4>2. moved \in Int
        BY <2>0, <2>3
      <4> HIDE DEF moved
      <4>3. QED
        BY ONLY <4>1, <4>2, <2>0, s < t
    <3> QED BY <3>1, <3>2, <3>3, <2>3
  <2> QED BY <2>2, <2>4, <2>5, <2>6
<1>2. CASE UNCHANGED combVars
  BY <1>2 DEF combVars
<1> QED BY <1>1, <1>2

\* The invariant of lookup_combination(): sorted indexes, each with room for those
\* after it.
THEOREM CombInvariant == CombSpec => []CombInv
<1> QED BY CombStart, CombStep, PTL DEF CombSpec

\* A client always gets number_of_filters_per_user different filters of the
\* state: the indexes lookup_combination() computes are sorted and in range.
THEOREM SubsetSortedHolds == CombSpec => []SubsetSorted
<1>1. CombInv => SubsetSorted
  BY DEF CombInv
<1> QED BY <1>1, CombInvariant, PTL

\* What is known of a set of k of the numbers below n.
LEMMA OfSize ==
  ASSUME NEW n \in Nat, NEW k \in Nat
  PROVE  /\ IsFiniteSet(kSubset(k, 0..(n - 1)))
         /\ \A S \in kSubset(k, 0..(n - 1)) :
              S \subseteq 0..(n - 1) /\ IsFiniteSet(S) /\ Cardinality(S) = k
<1>1. IsFiniteSet(0..(n - 1))
  BY FS_Interval
<1>2. IsFiniteSet(SUBSET (0..(n - 1)))
  BY <1>1, FS_SUBSET
<1>3. kSubset(k, 0..(n - 1)) \in SUBSET SUBSET (0..(n - 1))
  BY DEF kSubset
<1>4. IsFiniteSet(kSubset(k, 0..(n - 1)))
  BY <1>2, <1>3, FS_Subset
<1>5. ASSUME NEW S \in kSubset(k, 0..(n - 1))
      PROVE  S \subseteq 0..(n - 1) /\ IsFiniteSet(S) /\ Cardinality(S) = k
  <2>1. S \in SUBSET (0..(n - 1)) /\ Cardinality(S) = k
    BY DEF kSubset
  <2>2. IsFiniteSet(S)
    BY <1>1, <2>1, FS_Subset
  <2>3. QED
    BY <2>1, <2>2
<1>6. QED
  BY <1>4, <1>5

\* Of two sets of the same size none is part of the other.
LEMMA SameSize ==
  ASSUME NEW n \in Nat, NEW k \in Nat, NEW S \in kSubset(k, 0..(n - 1)),
         NEW T \in kSubset(k, 0..(n - 1)), S \subseteq T
  PROVE  S = T
<1>1. IsFiniteSet(T) /\ Cardinality(S) = Cardinality(T)
  BY OfSize
<1>2. QED
  BY <1>1, FS_Subset

\* Of two different sets one comes first.
LEMMA OneIsFirst ==
  ASSUME NEW S \in SUBSET Nat, NEW T \in SUBSET Nat, S # T
  PROVE  \E x \in SymDiff(S, T) : \A y \in SymDiff(S, T) : x <= y
<1>1. SymDiff(S, T) \in SUBSET Nat /\ SymDiff(S, T) # {}
  BY DEF SymDiff
<1>2. QED
  BY <1>1, Least

\* If all numbers of T from some point on are the highest there are, only T
\* itself and what is before it agree with T up to that point.
LEMMA HighestIsLast ==
  ASSUME NEW n \in Nat, NEW k \in Nat, NEW S \in kSubset(k, 0..(n - 1)),
         NEW T \in kSubset(k, 0..(n - 1)), NEW v \in Int, NEW w \in Int,
         \A y \in Int : y <= v => (y \in S <=> y \in T),
         \A y \in Int : v < y => (y \in T <=> (w <= y /\ y < n))
  PROVE  S = T \/ LexBefore(S, T)
<1>0. S \subseteq 0..(n - 1) /\ T \subseteq 0..(n - 1)
  BY OfSize
<1> SUFFICES ASSUME S # T PROVE LexBefore(S, T)
  OBVIOUS
<1>1. PICK x \in SymDiff(S, T) : \A y \in SymDiff(S, T) : x <= y
  <2>1. S \in SUBSET Nat /\ T \in SUBSET Nat
    BY <1>0
  <2>2. QED
    BY <2>1, OneIsFirst
<1>2. CASE x \in S \ T
  BY <1>1, <1>2 DEF LexBefore
<1>3. CASE x \in T \ S
  <2>1. x \in Int /\ v < x
    BY <1>0, <1>3
  <2>2. w <= x
    BY <1>3, <2>1
  <2>3. ASSUME NEW y \in S
        PROVE  y \in T
    <3>1. y \in Int /\ y < n
      BY <1>0
    <3>2. CASE y < x
      <4>1. y \notin SymDiff(S, T)
        BY <1>1, <2>1, <3>1, <3>2
      <4>2. QED
        BY <4>1 DEF SymDiff
    <3>3. CASE x <= y
      BY <2>1, <2>2, <3>1, <3>3
    <3>4. QED
      BY <2>1, <3>1, <3>2, <3>3
  <2>4. S = T
    BY <2>3, SameSize
  <2>5. QED
    BY <2>4
<1>4. QED
  BY <1>2, <1>3, <1>1 DEF SymDiff

\* Nothing comes before the set of which all numbers are the lowest from some
\* point on, of what agrees with it up to that point.
LEMMA LowestIsFirst ==
  ASSUME NEW n \in Nat, NEW k \in Nat, NEW S \in kSubset(k, 0..(n - 1)),
         NEW U \in kSubset(k, 0..(n - 1)), NEW v \in Int, NEW e \in Int,
         \A y \in Int : v < y => (y \in U <=> y <= e),
         NEW x \in S \ U, v < x, \A y \in SymDiff(S, U) : x <= y
  PROVE  FALSE
<1>0. S \subseteq 0..(n - 1) /\ U \subseteq 0..(n - 1)
  BY OfSize
<1>1. x \in Int /\ e < x
  BY <1>0
<1>2. ASSUME NEW y \in U
      PROVE  y \in S
  <2>1. y \in Int
    BY <1>0
  <2>2. y < x
    BY <1>1, <2>1
  <2>3. y \notin SymDiff(S, U)
    BY <1>1, <2>1, <2>2
  <2>4. QED
    BY <2>3 DEF SymDiff
<1>3. U = S
  BY <1>2, SameSize
<1>4. QED
  BY <1>3

\* Two sets agree below v; above v, one has all numbers from w to the highest;
\* above v, one has all numbers up to e.
AgreeBelow(S, T, v) == \A y \in Int : y < v => (y \in S <=> y \in T)
AllFrom(T, v, w, n) == \A y \in Int : v < y => (y \in T <=> (w <= y /\ y < n))
AllUpTo(U, v, e)    == \A y \in Int : v < y => (y \in U <=> y <= e)

\* U follows T immediately: they agree below v, T is the last set with v that
\* begins so and U the first without.
LEMMA FollowsImmediately ==
  ASSUME NEW n \in Nat, NEW k \in Nat, NEW S \in kSubset(k, 0..(n - 1)),
         NEW T \in kSubset(k, 0..(n - 1)), NEW U \in kSubset(k, 0..(n - 1)),
         NEW v \in T \ U, NEW w \in Int, NEW e \in Int,
         AgreeBelow(T, U, v), AllFrom(T, v, w, n), AllUpTo(U, v, e)
  PROVE  LexBefore(S, U) <=> (LexBefore(S, T) \/ S = T)
<1> USE DEF AgreeBelow, AllFrom, AllUpTo
<1>0. /\ S \subseteq 0..(n - 1) /\ T \subseteq 0..(n - 1) /\ U \subseteq 0..(n - 1)
      /\ v \in Int
  <2>1. S \subseteq 0..(n - 1) /\ T \subseteq 0..(n - 1) /\ U \subseteq 0..(n - 1)
    BY OfSize
  <2>2. QED
    BY <2>1
<1>1. ASSUME S = T
      PROVE  LexBefore(S, U)
  <2>1. v \in S \ U
    BY <1>1
  <2>2. ASSUME NEW y \in SymDiff(S, U)
        PROVE  v <= y
    BY <1>0, <1>1 DEF SymDiff
  <2>3. QED
    BY <2>1, <2>2 DEF LexBefore
<1>2. ASSUME LexBefore(S, T)
      PROVE  LexBefore(S, U)
  <2>1. PICK x \in S \ T : \A y \in SymDiff(S, T) : x <= y
    BY <1>2 DEF LexBefore
  <2>2. x \in Int /\ x # v
    BY <1>0
  <2>3. \A y \in Int : y < x => (y \in S <=> y \in T)
    BY <2>1, <2>2 DEF SymDiff
  <2>4. CASE x < v
    <3>1. x \in S \ U
      BY <2>2, <2>4
    <3>2. ASSUME NEW y \in SymDiff(S, U)
          PROVE  x <= y
      <4>1. y \in Int /\ (y \in S <=> y \notin U)
        BY <1>0 DEF SymDiff
      <4>2. ~(y < x)
        BY <1>0, <2>2, <2>3, <2>4, <4>1
      <4>3. QED
        BY <2>2, <4>1, <4>2
    <3>3. QED
      BY <3>1, <3>2 DEF LexBefore
  <2>5. CASE v < x
    <3>1. v \in S \ U
      BY <1>0, <2>3, <2>5
    <3>2. ASSUME NEW y \in SymDiff(S, U)
          PROVE  v <= y
      <4>1. y \in Int /\ (y \in S <=> y \notin U)
        BY <1>0 DEF SymDiff
      <4>2. ~(y < v)
        BY <1>0, <2>2, <2>3, <2>5, <4>1
      <4>3. QED
        BY <1>0, <4>1, <4>2
    <3>3. QED
      BY <3>1, <3>2 DEF LexBefore
  <2>6. QED
    BY <1>0, <2>2, <2>4, <2>5
<1>3. ASSUME LexBefore(S, U)
      PROVE  LexBefore(S, T) \/ S = T
  <2>1. PICK x \in S \ U : \A y \in SymDiff(S, U) : x <= y
    BY <1>3 DEF LexBefore
  <2>2. x \in Int
    BY <1>0
  <2>3. \A y \in Int : y < x => (y \in S <=> y \in U)
    BY <2>1, <2>2 DEF SymDiff
  <2>4. CASE x < v
    <3>1. x \in S \ T
      BY <2>2, <2>4
    <3>2. ASSUME NEW y \in SymDiff(S, T)
          PROVE  x <= y
      <4>1. y \in Int /\ (y \in S <=> y \notin T)
        BY <1>0 DEF SymDiff
      <4>2. ~(y < x)
        BY <1>0, <2>2, <2>3, <2>4, <4>1
      <4>3. QED
        BY <2>2, <4>1, <4>2
    <3>3. QED
      BY <3>1, <3>2 DEF LexBefore
  <2>5. CASE x = v
    <3>1. \A y \in Int : y <= v => (y \in S <=> y \in T)
      BY <1>0, <2>1, <2>3, <2>5
    <3>2. QED
      BY <1>0, <3>1, HighestIsLast
  <2>6. CASE v < x
    BY <1>0, <2>1, <2>6, LowestIsFirst
  <2>7. QED
    BY <1>0, <2>2, <2>4, <2>5, <2>6
<1>4. QED
  BY <1>1, <1>2, <1>3

\* The numbers of an increasing sequence of k numbers are a set of k numbers.
LEMMA IncreasingIsSet ==
  ASSUME NEW n \in Nat, NEW k \in Nat, NEW a,
         \A t \in 0..(k - 1) : a[t] \in 0..(n - 1),
         \A s, t \in 0..(k - 1) : s < t => a[s] < a[t]
  PROVE  {a[t] : t \in 0..(k - 1)} \in kSubset(k, 0..(n - 1))
<1> DEFINE T == {a[t] : t \in 0..(k - 1)}
           f == [t \in 0..(k - 1) |-> a[t]]
<1>1. f \in Bijection(0..(k - 1), T)
  <2>1. \A s, t \in 0..(k - 1) : a[s] = a[t] => s = t
    <3> SUFFICES ASSUME NEW s \in 0..(k - 1), NEW t \in 0..(k - 1), s # t
                 PROVE  a[s] # a[t]
      OBVIOUS
    <3>1. s < t \/ t < s
      OBVIOUS
    <3>2. a[s] \in Int /\ a[t] \in Int
      OBVIOUS
    <3>3. QED
      BY <3>1, <3>2
  <2>2. f \in [0..(k - 1) -> T]
    OBVIOUS
  <2>3. QED
    BY <2>1, <2>2 DEF Bijection, Injection, Surjection, IsInjective
<1>2. IsFiniteSet(0..(k - 1)) /\ Cardinality(0..(k - 1)) = k
  <2>1. Cardinality(0..(k - 1)) = IF 0 > k - 1 THEN 0 ELSE (k - 1) - 0 + 1
    BY FS_Interval
  <2>2. QED
    BY <2>1, FS_Interval
<1>3. Cardinality(T) = k
  BY <1>1, <1>2, FS_Bijection DEF ExistsBijection
<1>4. T \subseteq 0..(n - 1)
  OBVIOUS
<1>5. QED
  BY <1>3, <1>4 DEF kSubset

\* The set of the k numbers of a sequence; the sequence in which index p, the last
\* that is not at its end, is incremented and those after it follow closely.
SetOf(a, k) == {a[t] : t \in 0..(k - 1)}

Increasing(a, k, n) ==
  /\ \A t \in 0..(k - 1) : a[t] \in 0..(n - 1)
  /\ \A s, t \in 0..(k - 1) : s < t => a[s] < a[t]

Incremented(a, b, p, k, n) ==
  /\ \A t \in 0..(k - 1) : p < t => a[t] = t + n - k
  /\ \A t \in 0..(k - 1) : t < p => b[t] = a[t]
  /\ \A t \in 0..(k - 1) : ~(t < p) => b[t] = a[p] + 1 + (t - p)

\* Incrementing an index makes the next set.
LEMMA IncrementIsNext ==
  ASSUME NEW n \in Nat, NEW k \in Nat, NEW a, NEW b, NEW p \in 0..(k - 1),
         Increasing(a, k, n), Increasing(b, k, n), Incremented(a, b, p, k, n),
         NEW S \in kSubset(k, 0..(n - 1))
  PROVE  LexBefore(S, SetOf(b, k)) <=> (LexBefore(S, SetOf(a, k)) \/ S = SetOf(a, k))
<1> USE DEF Increasing, Incremented
<1> DEFINE T == {a[t] : t \in 0..(k - 1)}
           U == {b[t] : t \in 0..(k - 1)}
           v == a[p]
           w == p + 1 + n - k
           e == a[p] + k - p
<1>0. v \in Int /\ w \in Int /\ e \in Int /\ v \in T
  OBVIOUS
<1>1. T \in kSubset(k, 0..(n - 1)) /\ U \in kSubset(k, 0..(n - 1))
  BY IncreasingIsSet
<1>2. ASSUME NEW y \in Int, y < v
      PROVE  y \in T <=> y \in U
  <2>1. ASSUME NEW t \in 0..(k - 1), y = a[t]
        PROVE  y \in U
    <3>1. t < p
      <4>1. t # p
        BY <1>0, <1>2, <2>1
      <4>2. ~(p < t)
        BY <1>0, <1>2, <2>1
      <4>3. QED
        BY <4>1, <4>2
    <3>2. QED
      BY <2>1, <3>1
  <2>2. ASSUME NEW t \in 0..(k - 1), y = b[t]
        PROVE  y \in T
    <3>1. t < p
      <4> SUFFICES ASSUME ~(t < p) PROVE FALSE
        OBVIOUS
      <4>1. y = v + 1 + (t - p)
        BY <2>2
      <4> HIDE DEF v
      <4>2. QED
        BY <1>0, <1>2, <4>1
    <3>2. QED
      BY <2>2, <3>1
  <2>3. QED
    BY <2>1, <2>2
<1>3. v \notin U
  <2> SUFFICES ASSUME NEW t \in 0..(k - 1), v = b[t] PROVE FALSE
    OBVIOUS
  <2>1. CASE t < p
    <3>1. a[t] < a[p] /\ b[t] = a[t]
      BY <2>1
    <3>2. QED
      BY <1>0, <3>1
  <2>2. CASE ~(t < p)
    <3>1. v = v + 1 + (t - p)
      BY <2>2
    <3> HIDE DEF v
    <3>2. QED
      BY <1>0, <2>2, <3>1
  <2>3. QED
    BY <2>1, <2>2
<1>4. ASSUME NEW y \in Int, v < y
      PROVE  y \in T <=> (w <= y /\ y < n)
  <2>1. ASSUME NEW t \in 0..(k - 1), y = a[t]
        PROVE  w <= y /\ y < n
    <3>1. p < t
      <4>1. t # p
        BY <1>0, <1>4, <2>1
      <4>2. ~(t < p)
        BY <1>0, <1>4, <2>1
      <4>3. QED
        BY <4>1, <4>2
    <3>2. y = t + n - k
      BY <2>1, <3>1
    <3>3. QED
      BY <3>1, <3>2
  <2>2. ASSUME w <= y, y < n
        PROVE  y \in T
    <3> DEFINE t == y - n + k
    <3>1. t \in 0..(k - 1) /\ p < t /\ t + n - k = y
      BY <2>2
    <3>2. a[t] = y
      BY <3>1
    <3>3. QED
      BY <3>1, <3>2
  <2>3. QED
    BY <2>1, <2>2
<1>5. ASSUME NEW y \in Int, v < y
      PROVE  y \in U <=> y <= e
  <2>1. ASSUME NEW t \in 0..(k - 1), y = b[t]
        PROVE  y <= e
    <3>1. ~(t < p)
      <4> SUFFICES ASSUME t < p PROVE FALSE
        OBVIOUS
      <4>1. a[t] < a[p] /\ b[t] = a[t]
        OBVIOUS
      <4>2. QED
        BY <1>0, <1>5, <2>1, <4>1
    <3>2. y = v + 1 + (t - p) /\ e = v + k - p
      BY <2>1, <3>1
    <3> HIDE DEF v, e
    <3>3. QED
      BY <1>0, <3>1, <3>2
  <2>2. ASSUME y <= e
        PROVE  y \in U
    <3> DEFINE t == (y - v) - 1 + p
    <3>1. e = v + k - p
      OBVIOUS
    <3>2. t \in 0..(k - 1) /\ ~(t < p) /\ v + 1 + (t - p) = y
      <4> HIDE DEF v, e
      <4>1. QED
        BY <1>0, <1>5, <2>2, <3>1
    <3>3. b[t] = y
      BY <3>2
    <3> HIDE DEF t
    <3>4. QED
      BY <3>2, <3>3
  <2>3. QED
    BY <2>1, <2>2
<1>6. QED
  <2> HIDE DEF T, U, v, w, e
  <2>1. v \in T \ U
    BY <1>0, <1>3
  <2>2. AgreeBelow(T, U, v)
    BY <1>2 DEF AgreeBelow
  <2>3. AllFrom(T, v, w, n)
    BY <1>4 DEF AllFrom
  <2>4. AllUpTo(U, v, e)
    BY <1>5 DEF AllUpTo
  <2>5. LexBefore(S, U) <=> (LexBefore(S, T) \/ S = T)
    BY ONLY n \in Nat, k \in Nat, S \in kSubset(k, 0..(n - 1)), <1>0, <1>1, <2>1, <2>2, <2>3,
            <2>4, FollowsImmediately
  <2>6. QED
    BY <2>5 DEF T, U, SetOf

\* Nothing comes before the first k numbers.
LEMMA FirstIsFirst ==
  ASSUME NEW n \in Nat, NEW k \in Nat, k <= n, NEW S \in kSubset(k, 0..(n - 1))
  PROVE  ~LexBefore(S, 0..(k - 1))
<1>1. 0..(k - 1) \in kSubset(k, 0..(n - 1))
  <2>1. Cardinality(0..(k - 1)) = IF 0 > k - 1 THEN 0 ELSE (k - 1) - 0 + 1
    BY FS_Interval
  <2>2. 0..(k - 1) \subseteq 0..(n - 1)
    OBVIOUS
  <2>3. QED
    BY <2>1, <2>2 DEF kSubset
<1>2. S \subseteq 0..(n - 1)
  BY OfSize
<1> SUFFICES ASSUME NEW x \in S \ (0..(k - 1)), \A y \in SymDiff(S, 0..(k - 1)) : x <= y
             PROVE  FALSE
  BY DEF LexBefore
<1>3. \A y \in Int : -1 < y => (y \in 0..(k - 1) <=> y <= k - 1)
  OBVIOUS
<1>4. -1 \in Int /\ k - 1 \in Int /\ -1 < x
  BY <1>2
<1>5. QED
  BY <1>1, <1>3, <1>4, LowestIsFirst

\* The last k numbers come after all others.
LEMMA LastIsLast ==
  ASSUME NEW n \in Nat, NEW k \in Nat, k <= n, NEW S \in kSubset(k, 0..(n - 1)),
         NEW T \in kSubset(k, 0..(n - 1)), T = (n - k)..(n - 1)
  PROVE  S = T \/ LexBefore(S, T)
<1>1. S \subseteq 0..(n - 1) /\ T \subseteq 0..(n - 1)
  BY OfSize
<1>2. \A y \in Int : y <= -1 => (y \in S <=> y \in T)
  BY <1>1
<1>3. \A y \in Int : -1 < y => (y \in T <=> (n - k <= y /\ y < n))
  OBVIOUS
<1>4. -1 \in Int /\ n - k \in Int
  OBVIOUS
<1>5. QED
  BY <1>2, <1>3, <1>4, HighestIsLast

\* The sets of one number, of none and of all.
LEMMA SmallAndLarge ==
  ASSUME NEW n \in Nat
  PROVE  /\ Cardinality(kSubset(0, 0..(n - 1))) = 1
         /\ Cardinality(kSubset(1, 0..(n - 1))) = n
         /\ Cardinality(kSubset(n, 0..(n - 1))) = 1
<1> DEFINE N == 0..(n - 1)
<1>1. IsFiniteSet(N) /\ Cardinality(N) = n
  <2>1. Cardinality(N) = IF 0 > n - 1 THEN 0 ELSE (n - 1) - 0 + 1
    BY FS_Interval
  <2>2. QED
    BY <2>1, FS_Interval
<1>2. \A S \in SUBSET N : IsFiniteSet(S)
  BY <1>1, FS_Subset
<1>3. kSubset(0, N) = {{}}
  <2>1. \A S \in SUBSET N : Cardinality(S) = 0 <=> S = {}
    BY <1>2, FS_EmptySet
  <2>2. QED
    BY <2>1 DEF kSubset
<1>4. kSubset(n, N) = {N}
  <2>1. \A S \in SUBSET N : Cardinality(S) = n => S = N
    BY <1>1, FS_Subset
  <2>2. QED
    BY <1>1, <2>1 DEF kSubset
<1>5. Cardinality(kSubset(1, N)) = n
  <2> DEFINE f == [x \in N |-> {x}]
  <2>1. \A x \in N : {x} \in kSubset(1, N)
    BY FS_Singleton DEF kSubset
  <2>2. \A S \in kSubset(1, N) : \E x \in N : S = {x}
    <3>1. \A S \in kSubset(1, N) : IsFiniteSet(S) /\ Cardinality(S) = 1 /\ S \subseteq N
      BY <1>2 DEF kSubset
    <3>2. \A S \in kSubset(1, N) : \E x : S = {x}
      BY <3>1, FS_Singleton
    <3>3. QED
      BY <3>1, <3>2
  <2> HIDE DEF N
  <2>3. f \in Bijection(N, kSubset(1, N))
    <3>1. f \in [N -> kSubset(1, N)] /\ \A x \in N : f[x] = {x}
      BY <2>1
    <3>2. \A x, y \in N : f[x] = f[y] => x = y
      BY <3>1
    <3>3. \A S \in kSubset(1, N) : \E x \in N : f[x] = S
      BY <2>2, <3>1
    <3>4. f \in Injection(N, kSubset(1, N))
      BY <3>1, <3>2 DEF Injection, IsInjective
    <3>5. f \in Surjection(N, kSubset(1, N))
      BY <3>1, <3>3 DEF Surjection
    <3>6. QED
      BY <3>4, <3>5 DEF Bijection
  <2>4. QED
    BY <1>1, <2>3, FS_Bijection DEF ExistsBijection
<1>6. QED
  BY <1>3, <1>4, <1>5, FS_Singleton

\* Sets of numbers below n + 1 either do without n or consist of n and a smaller
\* set of numbers below n.
LEMMA Pascal ==
  ASSUME NEW n \in Nat, NEW k \in Nat
  PROVE  Cardinality(kSubset(k + 1, 0..n)) =
           Cardinality(kSubset(k + 1, 0..(n - 1))) + Cardinality(kSubset(k, 0..(n - 1)))
<1> DEFINE N == 0..(n - 1)
           B == kSubset(k + 1, N)
           C == kSubset(k, N)
           D == {S \in kSubset(k + 1, 0..n) : n \in S}
           f == [S \in C |-> S \cup {n}]
<1>1. 0..n = N \cup {n} /\ n \notin N /\ IsFiniteSet(N)
  BY FS_Interval
<1>2. \A S \in SUBSET N : IsFiniteSet(S) /\ Cardinality(S) \in Nat
  BY <1>1, FS_Subset, FS_CardinalityType
<1>3. IsFiniteSet(B) /\ IsFiniteSet(C)
  BY OfSize
<1> HIDE DEF N
<1>4. ASSUME NEW S \in C
      PROVE  S \cup {n} \in D
  <2>1. S \in SUBSET N /\ Cardinality(S) = k /\ n \notin S
    BY <1>1 DEF kSubset
  <2>2. Cardinality(S \cup {n}) = k + 1
    BY <1>2, <2>1, FS_AddElement
  <2>3. QED
    BY <1>1, <2>1, <2>2 DEF kSubset
<1>5. ASSUME NEW S \in D
      PROVE  S \ {n} \in C /\ (S \ {n}) \cup {n} = S
  <2>1. S \in SUBSET (N \cup {n}) /\ Cardinality(S) = k + 1 /\ n \in S
    BY <1>1 DEF kSubset
  <2>2. S \ {n} \in SUBSET N
    BY <2>1
  <2>3. IsFiniteSet(S \ {n}) /\ n \notin S \ {n} /\ (S \ {n}) \cup {n} = S
    BY <1>2, <2>1, <2>2
  <2>4. Cardinality(S) = Cardinality(S \ {n}) + 1
    BY <2>3, FS_AddElement
  <2>5. Cardinality(S \ {n}) = k
    <3>1. Cardinality(S \ {n}) \in Nat
      BY <1>2, <2>2
    <3>2. QED
      BY <2>1, <2>4, <3>1
  <2>6. QED
    BY <2>2, <2>3, <2>5 DEF kSubset
<1>6. f \in Bijection(C, D)
  <2>1. f \in [C -> D] /\ \A S \in C : f[S] = S \cup {n}
    BY <1>4
  <2>2. \A S \in C : n \notin S
    BY <1>1 DEF kSubset
  <2> HIDE DEF f, C, D
  <2>3. \A S, T \in C : f[S] = f[T] => S = T
    <3>1. \A S \in C : S = f[S] \ {n}
      BY <2>1, <2>2
    <3>2. QED
      BY <3>1
  <2>4. \A S \in D : \E T \in C : f[T] = S
    BY <1>5, <2>1
  <2>5. f \in Injection(C, D)
    BY <2>1, <2>3 DEF Injection, IsInjective
  <2>6. f \in Surjection(C, D)
    BY <2>1, <2>4 DEF Surjection
  <2>7. QED
    BY <2>5, <2>6 DEF Bijection
<1>7. IsFiniteSet(D) /\ Cardinality(D) = Cardinality(C)
  BY <1>3, <1>6, FS_Bijection DEF ExistsBijection
<1>8. kSubset(k + 1, 0..n) = B \cup D /\ B \cap D = {}
  <2>1. \A S \in SUBSET (N \cup {n}) : n \notin S => S \in SUBSET N
    OBVIOUS
  <2>2. QED
    BY <1>1, <2>1 DEF kSubset
<1>9. Cardinality(B \cup D) = Cardinality(B) + Cardinality(D) - Cardinality(B \cap D)
  BY <1>3, <1>7, FS_Union
<1>10. Cardinality(B) \in Nat /\ Cardinality(C) \in Nat /\ Cardinality({}) = 0
  BY <1>3, FS_CardinalityType, FS_EmptySet
<1> HIDE DEF B, C, D
<1>11. Cardinality(kSubset(k + 1, 0..n)) = Cardinality(B) + Cardinality(C)
  <2>1. Cardinality(B \cup D) = Cardinality(B) + Cardinality(C) - 0
    BY <1>7, <1>8, <1>9, <1>10
  <2>2. Cardinality(B) + Cardinality(C) - 0 = Cardinality(B) + Cardinality(C)
    BY <1>10
  <2>3. Cardinality(kSubset(k + 1, 0..n)) = Cardinality(B \cup D)
    BY <1>8
  <2>4. QED
    BY <2>1, <2>2, <2>3
<1>12. QED
  BY <1>11 DEF B, C, N

\* The number of sets of k of n numbers, as a function of n and k.
Sized == [n \in Nat |-> [k \in 0..n |-> Cardinality(kSubset(k, 0..(n - 1)))]]

\* It is counted by the recursion of number_of_combinations() ...
LEMMA SizedRecursion ==
  Sized = [n \in Nat |->
             [k \in 0..n |->
                IF k = 0 \/ k = n THEN 1
                ELSE IF k = 1 THEN n
                ELSE Sized[n - 1][k] + Sized[n - 1][k - 1]]]
<1>1. ASSUME NEW n \in Nat, NEW k \in 0..n
      PROVE  Sized[n][k] = IF k = 0 \/ k = n THEN 1
                           ELSE IF k = 1 THEN n
                           ELSE Sized[n - 1][k] + Sized[n - 1][k - 1]
  <2>1. \A m \in Nat : \A l \in 0..m : Sized[m][l] = Cardinality(kSubset(l, 0..(m - 1)))
    BY DEF Sized
  <2>2. CASE k = 0 \/ k = n \/ k = 1
    BY <2>1, <2>2, SmallAndLarge
  <2>3. CASE ~(k = 0 \/ k = n \/ k = 1)
    <3>1. /\ n - 1 \in Nat /\ k - 1 \in Nat /\ k \in 0..(n - 1) /\ k - 1 \in 0..(n - 1)
          /\ (k - 1) + 1 = k
      BY <2>3
    <3>2. Cardinality(kSubset((k - 1) + 1, 0..(n - 1))) =
            Cardinality(kSubset((k - 1) + 1, 0..((n - 1) - 1))) + Cardinality(kSubset(k - 1, 0..((n - 1) - 1)))
      BY <3>1, Pascal
    <3>3. /\ Sized[n - 1][k] = Cardinality(kSubset(k, 0..((n - 1) - 1)))
          /\ Sized[n - 1][k - 1] = Cardinality(kSubset(k - 1, 0..((n - 1) - 1)))
          /\ Sized[n][k] = Cardinality(kSubset(k, 0..(n - 1)))
      BY <2>1, <3>1
    <3>4. Sized[n][k] = Sized[n - 1][k] + Sized[n - 1][k - 1]
      BY <3>1, <3>2, <3>3
    <3>5. QED
      BY <2>3, <3>4
  <2>4. QED
    BY <2>2, <2>3
<1>2. Sized = [n \in Nat |-> [k \in 0..n |-> Sized[n][k]]]
  BY DEF Sized
<1> DEFINE Row(n) == [k \in 0..n |->
                        IF k = 0 \/ k = n THEN 1
                        ELSE IF k = 1 THEN n
                        ELSE Sized[n - 1][k] + Sized[n - 1][k - 1]]
<1>3. \A n \in Nat : [k \in 0..n |-> Sized[n][k]] = Row(n)
  BY <1>1
<1>4. Sized = [n \in Nat |-> Row(n)]
  <2> HIDE DEF Row
  <2>1. QED
    BY <1>2, <1>3
<1>5. QED
  BY <1>4

\* ... and by nothing else.
LEMMA CombinationsCount ==
  \A n \in Nat : \A k \in 0..n :
    number_of_combinations(n, k) = Cardinality(kSubset(k, 0..(n - 1)))
<1> DEFINE Recursion(f) == f = [n \in Nat |->
                                  [k \in 0..n |->
                                     IF k = 0 \/ k = n THEN 1
                                     ELSE IF k = 1 THEN n
                                     ELSE f[n - 1][k] + f[n - 1][k - 1]]]
<1>1. Recursion(combinations)
  <2>1. Recursion(Sized)
    BY SizedRecursion
  <2>2. combinations = CHOOSE f : Recursion(f)
    BY DEF combinations
  <2> HIDE DEF Recursion
  <2>3. QED
    BY <2>1, <2>2
<1>2. \A f : Recursion(f) =>
        \A n \in Nat : \A k \in 0..n :
          f[n][k] = IF k = 0 \/ k = n THEN 1
                    ELSE IF k = 1 THEN n
                    ELSE f[n - 1][k] + f[n - 1][k - 1]
  OBVIOUS
<1>3. Recursion(Sized)
  BY SizedRecursion
<1> HIDE DEF Recursion
<1> DEFINE Q == {n \in Nat : \A k \in 0..n : combinations[n][k] = Sized[n][k]}
<1>4. Q \in SUBSET Nat
  OBVIOUS
<1>5. 0 \in Q
  <2>1. ASSUME NEW k \in 0..0
        PROVE  combinations[0][k] = Sized[0][k]
    <3>1. 0 \in Nat /\ k = 0
      OBVIOUS
    <3>2. combinations[0][k] = 1 /\ Sized[0][k] = 1
      BY <1>1, <1>2, <1>3, <3>1
    <3>3. QED
      BY <3>2
  <2>2. QED
    BY <2>1
<1>6. ASSUME NEW n \in Nat, n \in Q
      PROVE  n + 1 \in Q
  <2>1. \A k \in 0..n : combinations[n][k] = Sized[n][k]
    BY <1>6
  <2>2. ASSUME NEW k \in 0..(n + 1)
        PROVE  combinations[n + 1][k] = Sized[n + 1][k]
    <3>1. n + 1 \in Nat /\ (n + 1) - 1 = n
      OBVIOUS
    <3>2. /\ combinations[n + 1][k] = IF k = 0 \/ k = n + 1 THEN 1
                                      ELSE IF k = 1 THEN n + 1
                                      ELSE combinations[(n + 1) - 1][k] + combinations[(n + 1) - 1][k - 1]
          /\ Sized[n + 1][k] = IF k = 0 \/ k = n + 1 THEN 1
                               ELSE IF k = 1 THEN n + 1
                               ELSE Sized[(n + 1) - 1][k] + Sized[(n + 1) - 1][k - 1]
      BY <1>1, <1>2, <1>3, <3>1
    <3>3. CASE k = 0 \/ k = n + 1 \/ k = 1
      BY <3>2, <3>3
    <3>4. CASE ~(k = 0 \/ k = n + 1 \/ k = 1)
      <4>1. k \in 0..n /\ k - 1 \in 0..n
        BY <3>4
      <4>2. QED
        BY <2>1, <3>1, <3>2, <3>4, <4>1
    <3>5. QED
      BY <3>3, <3>4
  <2>3. QED
    BY <2>2
<1> HIDE DEF Q
<1>7. Q = Nat
  BY <1>4, <1>5, <1>6, Induction
<1>8. QED
  <2>1. \A n \in Nat : \A k \in 0..n : combinations[n][k] = Sized[n][k]
    BY <1>7 DEF Q
  <2>2. \A n \in Nat : \A k \in 0..n : Sized[n][k] = Cardinality(kSubset(k, 0..(n - 1)))
    BY DEF Sized
  <2>3. QED
    BY <2>1, <2>2 DEF number_of_combinations

\* The subset selected so far, and the invariant: the combination asked for is
\* one of those there are, and the loop has passed one subset per turn.
This == SetOf(subset_indexes, subset_size)
Earlier == {S \in Subsets : LexBefore(S, This)}

RankInv ==
  /\ CombInv
  /\ combination < Cardinality(Subsets)
  /\ Cardinality(Earlier) = c

\* What the invariant of the indexes says of the subsets.
LEMMA ThisIsSubset ==
  ASSUME CombInv
  PROVE  /\ set_size \in Nat /\ subset_size \in Nat /\ subset_size > 0
         /\ subset_size <= set_size
         /\ IsFiniteSet(Subsets) /\ IsFiniteSet(Earlier)
         /\ This \in Subsets /\ This \notin Earlier
         /\ number_of_combinations(set_size, subset_size) = Cardinality(Subsets)
<1>1. /\ set_size \in Nat /\ subset_size \in Nat /\ subset_size > 0
      /\ subset_size <= set_size /\ subset_size \in 0..set_size
  BY DEF CombInv, CombTypeOK
<1>2. IsFiniteSet(Subsets)
  BY <1>1, OfSize DEF Subsets
<1>3. Earlier \in SUBSET Subsets
  BY DEF Earlier
<1>4. IsFiniteSet(Earlier)
  BY <1>2, <1>3, FS_Subset
<1>5. This \in Subsets
  BY <1>1, IncreasingIsSet DEF CombInv, SubsetSorted, This, SetOf, Subsets
<1>6. This \notin Earlier
  BY DEF Earlier, LexBefore
<1>7. number_of_combinations(set_size, subset_size) = Cardinality(Subsets)
  BY <1>1, CombinationsCount DEF Subsets
<1>8. QED
  BY <1>1, <1>2, <1>4, <1>5, <1>6, <1>7

\* Each turn passes exactly the subset it leaves.
LEMMA OnePassed ==
  ASSUME CombInv, CombInv', NextCombination
  PROVE  Earlier' = Earlier \cup {This} /\ Subsets' = Subsets
<1>1. PICK p \in Movable : /\ \A t \in Movable : t <= p
                           /\ subset_indexes' = NextSubset(p)
  BY DEF NextCombination
<1>2. UNCHANGED <<set_size, subset_size>>
  BY DEF NextCombination
<1>3. Subsets' = Subsets
  BY <1>2 DEF Subsets
<1> DEFINE n == set_size
           k == subset_size
           a == subset_indexes
           b == subset_indexes'
<1>4. n \in Nat /\ k \in Nat
  BY ThisIsSubset
<1>5. p \in 0..(k - 1)
  BY <1>1 DEF Movable
<1>6. /\ \A t \in 0..(k - 1) : a[t] \in 0..(n - 1)
      /\ \A s, t \in 0..(k - 1) : s < t => a[s] < a[t]
  BY DEF CombInv, SubsetSorted
<1>7. /\ \A t \in 0..(k - 1) : b[t] \in 0..(n - 1)
      /\ \A s, t \in 0..(k - 1) : s < t => b[s] < b[t]
  BY <1>2 DEF CombInv, SubsetSorted
<1>8. \A t \in 0..(k - 1) : p < t => a[t] = t + n - k
  <2>1. ASSUME NEW t \in 0..(k - 1), p < t
        PROVE  t \notin Movable
    <3>1. ~(t <= p)
      BY <1>4, <1>5, <2>1
    <3>2. QED
      BY <1>1, <3>1
  <2>2. QED
    BY <2>1 DEF Movable
<1>9. /\ \A t \in 0..(k - 1) : t < p => b[t] = a[t]
      /\ \A t \in 0..(k - 1) : ~(t < p) => b[t] = a[p] + 1 + (t - p)
  BY <1>1 DEF NextSubset
<1>10. This = SetOf(a, k) /\ This' = SetOf(b, k)
  BY <1>2 DEF This, SetOf
<1>11. \A S \in Subsets : LexBefore(S, This') <=> (LexBefore(S, This) \/ S = This)
  <2>1. Subsets = kSubset(k, 0..(n - 1))
    BY DEF Subsets
  <2> SUFFICES ASSUME NEW S \in kSubset(k, 0..(n - 1))
               PROVE  LexBefore(S, This') <=> (LexBefore(S, This) \/ S = This)
    BY <2>1
  <2> HIDE DEF n, k, a, b
  <2>2. Increasing(a, k, n) /\ Increasing(b, k, n) /\ Incremented(a, b, p, k, n)
    BY <1>6, <1>7, <1>8, <1>9 DEF Increasing, Incremented
  <2>3. LexBefore(S, SetOf(b, k)) <=> (LexBefore(S, SetOf(a, k)) \/ S = SetOf(a, k))
    BY ONLY <1>4, <1>5, <2>2, IncrementIsNext, S \in kSubset(k, 0..(n - 1))
  <2>4. QED
    BY <1>10, <2>3
<1>12. This \in Subsets
  BY ThisIsSubset
<1>13. Earlier' = {S \in Subsets : LexBefore(S, This')}
  BY <1>3 DEF Earlier, LexBefore
<1>14. QED
  BY <1>3, <1>11, <1>12, <1>13 DEF Earlier

\* The loop begins with the first of the subsets.
LEMMA RankStart == CombInit => RankInv
<1> SUFFICES ASSUME CombInit PROVE RankInv
  OBVIOUS
<1>1. CombInv
  BY CombStart
<1>2. This = 0..(subset_size - 1)
  BY DEF CombInit, This, SetOf
<1>3. combination < Cardinality(Subsets)
  <2>1. combination \in 0..(Cardinality(Subsets) - 1)
    BY <1>1, ThisIsSubset DEF CombInit
  <2>2. Cardinality(Subsets) \in Nat
    BY <1>1, ThisIsSubset, FS_CardinalityType
  <2>3. QED
    BY <2>1, <2>2
<1>4. Earlier = {}
  <2>1. \A S \in kSubset(subset_size, 0..(set_size - 1)) : ~LexBefore(S, 0..(subset_size - 1))
    BY <1>1, ThisIsSubset, FirstIsFirst
  <2>2. QED
    BY <1>2, <2>1 DEF Earlier, Subsets
<1>5. Cardinality(Earlier) = c
  BY <1>4, FS_EmptySet DEF CombInit
<1>6. QED
  BY <1>1, <1>3, <1>5 DEF RankInv

LEMMA RankStep == RankInv /\ [NextCombination]_combVars => RankInv'
<1> SUFFICES ASSUME RankInv, [NextCombination]_combVars
             PROVE  RankInv'
  OBVIOUS
<1>1. CombInv /\ CombInv'
  BY CombStep DEF RankInv
<1>2. CASE NextCombination
  <2>1. Earlier' = Earlier \cup {This} /\ Subsets' = Subsets
    BY <1>1, <1>2, OnePassed
  <2>2. Cardinality(Earlier \cup {This}) = Cardinality(Earlier) + 1
    BY <1>1, ThisIsSubset, FS_AddElement
  <2>3. c' = c + 1 /\ combination' = combination
    BY <1>2 DEF NextCombination
  <2>4. Cardinality(Earlier)' = c'
    BY <2>1, <2>2, <2>3 DEF RankInv
  <2>5. Cardinality(Subsets)' = Cardinality(Subsets)
    BY <2>1
  <2>6. QED
    BY <1>1, <2>3, <2>4, <2>5 DEF RankInv
<1>3. CASE UNCHANGED combVars
  <2>1. /\ combination' = combination /\ c' = c
        /\ set_size' = set_size /\ subset_size' = subset_size /\ subset_indexes' = subset_indexes
    BY <1>3 DEF combVars
  <2>2. Subsets' = Subsets /\ This' = This
    BY <2>1 DEF Subsets, This, SetOf
  <2>3. Earlier' = Earlier
    BY <2>2 DEF Earlier, LexBefore
  <2>4. QED
    BY <1>1, <2>1, <2>2, <2>3 DEF RankInv
<1>4. QED
  BY <1>2, <1>3

\* The invariant of the loop of lookup_combination().
THEOREM RankInvariant == CombSpec => []RankInv
<1> QED BY RankStart, RankStep, PTL DEF CombSpec

\* lookup_combination() ends at the subset whose place in lexicographic order is
\* the combination asked for, and number_of_combinations() counts the subsets.
THEOREM RankIsCountHolds == CombSpec => []RankIsCount
<1>1. RankInv => RankIsCount
  BY ThisIsSubset DEF RankInv, RankIsCount, Earlier, This, SetOf
<1> QED BY <1>1, RankInvariant, PTL

\* The comment of lookup_combination(): the search for an index to increment does
\* not run off the start of the set.  When none is left the subset is the last,
\* and all other subsets have been passed.
THEOREM NeverRunsOffHolds == CombSpec => []NeverRunsOff
<1>1. RankInv => NeverRunsOff
  <2> SUFFICES ASSUME RankInv, c < combination, Movable = {}
               PROVE  FALSE
    BY DEF NeverRunsOff
  <2>1. CombInv
    BY DEF RankInv
  <2>2. /\ set_size \in Nat /\ subset_size \in Nat /\ subset_size > 0
        /\ subset_size <= set_size
        /\ IsFiniteSet(Subsets) /\ IsFiniteSet(Earlier)
        /\ This \in Subsets /\ This \notin Earlier
    BY <2>1, ThisIsSubset
  <2>3. \A t \in 0..(subset_size - 1) : subset_indexes[t] = t + set_size - subset_size
    BY DEF Movable
  <2>4. This = (set_size - subset_size)..(set_size - 1)
    <3>1. This = {t + set_size - subset_size : t \in 0..(subset_size - 1)}
      BY <2>3 DEF This, SetOf
    <3>2. ASSUME NEW y \in (set_size - subset_size)..(set_size - 1)
          PROVE  \E t \in 0..(subset_size - 1) : y = t + set_size - subset_size
      <4>1. y - set_size + subset_size \in 0..(subset_size - 1)
        BY <2>2
      <4>2. y = (y - set_size + subset_size) + set_size - subset_size
        BY <2>2
      <4>3. QED
        BY <4>1, <4>2
    <3>3. \A t \in 0..(subset_size - 1) :
            t + set_size - subset_size \in (set_size - subset_size)..(set_size - 1)
      BY <2>2
    <3>4. QED
      BY <3>1, <3>2, <3>3
  <2>5. \A S \in Subsets : S = This \/ LexBefore(S, This)
    BY <2>2, <2>4, LastIsLast DEF Subsets
  <2>6. Subsets = Earlier \cup {This}
    BY <2>2, <2>5 DEF Earlier
  <2>7. Cardinality(Earlier \cup {This}) = Cardinality(Earlier) + 1
    BY <2>2, FS_AddElement
  <2>8. Cardinality(Subsets) = c + 1
    BY <2>6, <2>7 DEF RankInv
  <2>9. c \in Nat /\ combination \in Nat /\ combination < c + 1
    BY <2>1, <2>8 DEF RankInv, CombInv, CombTypeOK
  <2>10. QED
    BY <2>9
<1> QED BY <1>1, RankInvariant, PTL

----------------------------------------------------------------------------
(***************************************************************************)
(* bloom_determine_offsets()                                               *)
(***************************************************************************)

\* The types of what bloom_determine_offsets() keeps, as the proofs need them.
LEMMA BloomTypes ==
  ASSUME BloomTypeOK
  PROVE  /\ bits \in Nat /\ bits >= 8 /\ bits < Wrap /\ Wrap \in Nat
         /\ len \in Nat /\ len > 0
         /\ NumBits \in Nat /\ NumBits > 0 /\ NumBits <= bits /\ NumBits <= len
         /\ j \in Nat /\ j <= NumBits
BY BloomAssumption DEF BloomTypeOK, NumBits

\* The invariant holds when bloom_determine_offsets() is called.
LEMMA BloomStart == BloomInit => BloomInv
<1> SUFFICES ASSUME BloomInit PROVE BloomInv
  OBVIOUS
<1>1. PICK f \in FilterSizes : bits = 8 * f
  BY DEF BloomInit
<1>2. bits \in 8..(Wrap - 1)
  BY <1>1, BloomAssumption
<1>3. BloomTypeOK
  BY <1>2, BloomAssumption DEF BloomInit, BloomTypeOK, NumBits
<1>4. Filled = {}
  BY <1>3, BloomTypes DEF BloomInit, Filled
<1>5. \A t \in NumBits..(len - 1) : bit_offsets[t] = 0
  BY <1>3, BloomTypes DEF BloomInit
<1> QED BY <1>3, <1>4, <1>5, BloomTypes DEF BloomInit, BloomInv, OffsetsSorted

\* Every step of bloom_determine_offsets() keeps the invariant.
LEMMA BloomStep == BloomInv /\ [BloomNext]_bloomVars => BloomInv'
<1> SUFFICES ASSUME BloomInv, [BloomNext]_bloomVars
             PROVE  BloomInv'
  OBVIOUS
<1> USE DEF BloomInv
<1>0. BloomTypeOK
  OBVIOUS
<1>t. /\ bits \in Nat /\ bits >= 8 /\ bits < Wrap /\ Wrap \in Nat
      /\ len \in Nat /\ len > 0
      /\ NumBits \in Nat /\ NumBits > 0 /\ NumBits <= bits /\ NumBits <= len
      /\ j \in Nat /\ j <= NumBits
  BY <1>0, BloomTypes
<1>1. CASE Draw
  <2>1. NumBits' = NumBits
    BY <1>1 DEF Draw, NumBits
  <2>2. Filled' = Filled
    BY <1>1, <1>t, <2>1 DEF Draw, Filled
  <2>3. OffsetsSorted'
    BY <1>1, <2>2 DEF Draw, OffsetsSorted
  <2>4. BloomTypeOK'
    BY <1>1, <1>t, <2>1 DEF Draw, BloomTypeOK
  <2>5. /\ bs' = bits' - (NumBits' - j')
        /\ bloomPc' = "insert" /\ j' > 0
        /\ i' = j' - 1
        /\ overflow' \in 0..(bs' - 1)
        /\ new' = overflow'
    BY <1>1, <1>t, <2>1 DEF Draw
  <2>6. i' \in (j' - 1)..(NumBits' - 1)
    BY <1>1, <1>t, <2>1, <2>5 DEF Draw
  <2>7. new' = overflow' + (i' - (j' - 1))
    <3>1. overflow' \in Int /\ j' \in Int
      BY <1>1, <1>t DEF Draw
    <3>2. new' = overflow' /\ i' = j' - 1
      BY <2>5
    <3>3. \A x, y, z \in Int : x = y - 1 => z + (x - (y - 1)) = z
      OBVIOUS
    <3>4. i' \in Int
      BY <3>1, <3>2
    <3> QED BY <3>1, <3>2, <3>3, <3>4, Zenon
  <2>8. (j' - 1)..(i' - 1) = {}
    BY <1>1, <1>t, <2>5 DEF Draw
  <2>9. \A t \in NumBits'..(len' - 1) : bit_offsets'[t] = 0
    BY <1>1, <2>1 DEF Draw
  <2> QED BY <2>3, <2>4, <2>5, <2>6, <2>7, <2>8, <2>9
<1>2. CASE Shift
  <2>1. /\ NumBits' = NumBits
        /\ UNCHANGED <<bits, len, bs, j, overflow, bloomPc>>
        /\ bloomPc = "insert"
        /\ i' = i + 1
        /\ i + 1 < NumBits
        /\ new >= bit_offsets[i + 1]
        /\ bit_offsets' = [bit_offsets EXCEPT ![i] = bit_offsets[i + 1]]
    BY <1>2 DEF Shift, NumBits, Passes
  <2>2. /\ j > 0
        /\ i \in (j - 1)..(NumBits - 1)
        /\ overflow \in 0..(bs - 1)
        /\ new = overflow + (i - (j - 1))
        /\ \A t \in (j - 1)..(i - 1) : bit_offsets[t] < new
    BY <2>1
  <2>3. bs = bits - (NumBits - j)
    OBVIOUS
  <2>4. new + 1 < Wrap
    BY <2>1, <2>2, <2>3, <1>t
  <2>5. new' = new + 1
    BY <1>2, <2>4, <2>2, <1>t DEF Shift
  <2>6. bit_offsets \in [0..(len - 1) -> Int] /\ bit_offsets' \in [0..(len - 1) -> Int]
    BY <2>1, <2>2, <1>t DEF BloomTypeOK
  <2>7. BloomTypeOK'
    BY <2>1, <2>2, <2>5, <2>6, <1>t DEF BloomTypeOK
  <2>8. Filled = ((j - 1)..(NumBits - 1)) \ {i} /\ Filled' = ((j - 1)..(NumBits - 1)) \ {i + 1}
    BY <2>1 DEF Filled
  <2>9. \A t \in Filled' : bit_offsets'[t] = IF t = i THEN bit_offsets[i + 1] ELSE bit_offsets[t]
    BY <2>1, <2>2, <2>6, <2>8, <1>t
  <2>10. OffsetsSorted'
    <3>1. \A t \in Filled : bit_offsets[t] \in 0..(bits - 1)
      BY DEF OffsetsSorted
    <3>2. \A s, t \in Filled : s < t => bit_offsets[s] < bit_offsets[t]
      BY DEF OffsetsSorted
    <3>3. i + 1 \in Filled
      BY <2>1, <2>2, <2>8, <1>t
    <3>4. \A t \in Filled' : bit_offsets'[t] \in 0..(bits - 1)
      BY <3>1, <3>3, <2>1, <2>8, <2>9
    <3>5. \A s, t \in Filled' : s < t => bit_offsets'[s] < bit_offsets'[t]
      BY <3>2, <3>3, <2>2, <2>8, <2>9, <1>t
    <3> QED BY <3>4, <3>5, <2>1 DEF OffsetsSorted
  <2>11. \A t \in (j - 1)..i : bit_offsets'[t] < new + 1
    BY <2>1, <2>2, <2>6, <1>t
  <2>12. \A t \in NumBits'..(len' - 1) : bit_offsets'[t] = 0
    BY <2>1, <2>2, <2>6, <1>t
  <2> QED BY <2>1, <2>2, <2>3, <2>5, <2>7, <2>10, <2>11, <2>12, <1>t
<1>3. CASE Place
  <2>1. /\ NumBits' = NumBits
        /\ UNCHANGED <<bits, len, i, overflow, new>>
        /\ bloomPc = "insert"
        /\ bloomPc' = "draw"
        /\ j' = j - 1
        /\ bs' = bs - 1
        /\ ~(i + 1 < NumBits /\ new >= bit_offsets[i + 1])
        /\ bit_offsets' = [bit_offsets EXCEPT ![i] = new]
    BY <1>3 DEF Place, NumBits, Passes
  <2>2. /\ j > 0
        /\ i \in (j - 1)..(NumBits - 1)
        /\ overflow \in 0..(bs - 1)
        /\ new = overflow + (i - (j - 1))
        /\ \A t \in (j - 1)..(i - 1) : bit_offsets[t] < new
    BY <2>1
  <2>3. bs = bits - (NumBits - j)
    OBVIOUS
  <2>4. new \in 0..(bits - 1)
    BY <2>2, <2>3, <1>t
  <2>5. bit_offsets \in [0..(len - 1) -> Int] /\ bit_offsets' \in [0..(len - 1) -> Int]
    BY <2>1, <2>2, <2>4, <1>t DEF BloomTypeOK
  <2>6. BloomTypeOK'
    BY <2>1, <2>2, <2>3, <2>5, <1>t DEF BloomTypeOK
  <2>7. Filled = ((j - 1)..(NumBits - 1)) \ {i} /\ Filled' = (j - 1)..(NumBits - 1)
    BY <2>1 DEF Filled
  <2>8. \A t \in Filled' : bit_offsets'[t] = IF t = i THEN new ELSE bit_offsets[t]
    BY <2>1, <2>2, <2>5, <2>7, <1>t
  <2>9. OffsetsSorted'
    <3>1. \A t \in Filled : bit_offsets[t] \in 0..(bits - 1)
      BY DEF OffsetsSorted
    <3>2. \A s, t \in Filled : s < t => bit_offsets[s] < bit_offsets[t]
      BY DEF OffsetsSorted
    <3>3. \A t \in Filled : t > i => new < bit_offsets[t]
      <4> SUFFICES ASSUME NEW t \in Filled, t > i
                   PROVE  new < bit_offsets[t]
        OBVIOUS
      <4>1. i + 1 \in Filled /\ i + 1 < NumBits
        BY <2>2, <2>7, <1>t
      <4>2. new < bit_offsets[i + 1]
        BY <4>1, <2>1, <2>4, <3>1
      <4>3. CASE t = i + 1
        BY <4>2, <4>3
      <4>4. CASE t > i + 1
        <5>1. bit_offsets[i + 1] < bit_offsets[t]
          BY <3>2, <4>1, <4>4
        <5> QED BY <5>1, <4>2, <4>1, <3>1, <2>4
      <4> QED BY <4>3, <4>4, <2>2, <2>7, <1>t
    <3>4. \A t \in Filled : t < i => bit_offsets[t] < new
      BY <2>2, <2>7, <1>t
    <3>5. \A t \in Filled' : bit_offsets'[t] \in 0..(bits - 1)
      BY <3>1, <2>1, <2>4, <2>7, <2>8
    <3>6. \A s, t \in Filled' : s < t => bit_offsets'[s] < bit_offsets'[t]
      BY <3>2, <3>3, <3>4, <2>2, <2>7, <2>8, <1>t
    <3> QED BY <3>5, <3>6, <2>1 DEF OffsetsSorted
  <2>10. \A t \in NumBits'..(len' - 1) : bit_offsets'[t] = 0
    BY <2>1, <2>2, <2>5, <1>t
  <2> QED BY <2>1, <2>2, <2>3, <2>6, <2>9, <2>10, <1>t
<1>4. CASE Determined
  <2>1. NumBits' = NumBits /\ Filled' = Filled
    BY <1>4 DEF Determined, NumBits, Filled
  <2>2. OffsetsSorted' /\ BloomTypeOK'
    BY <1>4, <2>1 DEF Determined, OffsetsSorted, BloomTypeOK
  <2> QED BY <1>4, <2>1, <2>2 DEF Determined
<1>5. CASE UNCHANGED bloomVars
  <2>1. NumBits' = NumBits /\ Filled' = Filled
    BY <1>5 DEF bloomVars, NumBits, Filled
  <2>2. OffsetsSorted' /\ BloomTypeOK'
    BY <1>5, <2>1 DEF bloomVars, OffsetsSorted, BloomTypeOK
  <2> QED BY <1>5, <2>1, <2>2 DEF bloomVars
<1> QED BY <1>1, <1>2, <1>3, <1>4, <1>5 DEF BloomNext

\* The invariant of bloom_determine_offsets().
THEOREM BloomInvariant == BloomSpec => []BloomInv
<1> QED BY BloomStart, BloomStep, PTL DEF BloomSpec

\* At the end of an insertion the offsets below the new one are those passed.
LEMMA PassedAreBelow ==
  ASSUME BloomInv, bloomPc = "insert", ~Passes
  PROVE  /\ new \in 0..(bits - 1)
         /\ \A t \in Filled : (t < i => bit_offsets[t] < new) /\ (t > i => new < bit_offsets[t])
         /\ Filled = ((j - 1)..(NumBits - 1)) \ {i}
<1> USE DEF BloomInv
<1>t. /\ bits \in Nat /\ bits >= 8 /\ bits < Wrap /\ Wrap \in Nat
      /\ len \in Nat /\ len > 0
      /\ NumBits \in Nat /\ NumBits > 0 /\ NumBits <= bits /\ NumBits <= len
      /\ j \in Nat /\ j <= NumBits
  BY BloomTypes
<1>1. /\ j > 0
      /\ i \in (j - 1)..(NumBits - 1)
      /\ overflow \in 0..(bs - 1)
      /\ new = overflow + (i - (j - 1))
      /\ \A t \in (j - 1)..(i - 1) : bit_offsets[t] < new
      /\ bs = bits - (NumBits - j)
  OBVIOUS
<1>2. new \in 0..(bits - 1)
  BY <1>1, <1>t
<1>3. Filled = ((j - 1)..(NumBits - 1)) \ {i}
  BY DEF Filled
<1>4. ASSUME NEW t \in Filled, t > i
      PROVE  new < bit_offsets[t]
  <2>1. i + 1 \in Filled /\ i + 1 < NumBits
    BY <1>1, <1>3, <1>4, <1>t
  <2>2. bit_offsets[i + 1] \in 0..(bits - 1) /\ bit_offsets[t] \in 0..(bits - 1)
    BY <2>1, <1>4 DEF OffsetsSorted
  <2>3. new < bit_offsets[i + 1]
    BY <2>1, <2>2, <1>2 DEF Passes
  <2>4. t = i + 1 \/ bit_offsets[i + 1] < bit_offsets[t]
    BY <2>1, <1>4, <1>3, <1>1, <1>t DEF OffsetsSorted
  <2> QED BY <2>2, <2>3, <2>4, <1>2
<1>5. ASSUME NEW t \in Filled, t < i
      PROVE  bit_offsets[t] < new
  BY <1>1, <1>3, <1>5, <1>t
<1> QED BY <1>2, <1>3, <1>4, <1>5

\* The step of bloom_determine_offsets() that ends an insertion picks the free
\* bit whose number among the free bits is the overflow of the multiplication.
THEOREM PicksFreeBitHolds == BloomSpec => []PicksFreeBit
<1>1. BloomInv => PicksFreeBit
  <2> SUFFICES ASSUME BloomInv, bloomPc = "insert", ~Passes
               PROVE  /\ new \in (0..(bits - 1)) \ Chosen
                      /\ Cardinality({b \in 0..(new - 1) : b \notin Chosen}) = overflow
    BY DEF PicksFreeBit
  <2> DEFINE Passed == (j - 1)..(i - 1)
             Below  == {b \in 0..(new - 1) : b \in Chosen}
             Free   == {b \in 0..(new - 1) : b \notin Chosen}
             f      == [t \in Passed |-> bit_offsets[t]]
  <2>1. /\ new \in 0..(bits - 1)
        /\ \A t \in Filled : (t < i => bit_offsets[t] < new) /\ (t > i => new < bit_offsets[t])
        /\ Filled = ((j - 1)..(NumBits - 1)) \ {i}
    BY PassedAreBelow
  <2>2. /\ j \in Nat /\ j > 0 /\ NumBits \in Nat /\ bits \in Nat /\ bs \in Nat
        /\ i \in (j - 1)..(NumBits - 1)
        /\ overflow \in 0..(bs - 1)
        /\ new = overflow + (i - (j - 1))
    BY BloomTypes DEF BloomInv, BloomTypeOK
  <2>3. /\ \A t \in Filled : bit_offsets[t] \in 0..(bits - 1)
        /\ \A s, t \in Filled : s < t => bit_offsets[s] < bit_offsets[t]
    BY DEF BloomInv, OffsetsSorted
  <2>4. \A t \in Filled : t \in Int /\ t # i
    BY <2>1, <2>2
  <2>5. new \notin Chosen
    <3> SUFFICES ASSUME NEW t \in Filled, new = bit_offsets[t]
                 PROVE  FALSE
      BY DEF Chosen
    <3>1. t < i \/ t > i
      BY <2>2, <2>4
    <3>2. new < new
      BY <3>1, <2>1
    <3> QED BY <3>2, <2>1
  <2>6. Passed \subseteq Filled /\ \A t \in Filled : t < i => t \in Passed
    BY <2>1, <2>2
  <2>7. f \in Bijection(Passed, Below)
    <3>1. \A t \in Passed : bit_offsets[t] \in Below
      BY <2>1, <2>2, <2>3, <2>6 DEF Chosen
    <3>2. \A s, t \in Passed : s # t => bit_offsets[s] # bit_offsets[t]
      <4> SUFFICES ASSUME NEW s \in Passed, NEW t \in Passed, s # t
                   PROVE  bit_offsets[s] # bit_offsets[t]
        OBVIOUS
      <4>1. s \in Filled /\ t \in Filled /\ s \in Int /\ t \in Int
        BY <2>6, <2>4
      <4>2. s < t \/ t < s
        BY <4>1
      <4> QED BY <4>1, <4>2, <2>3
    <3>3. \A b \in Below : \E t \in Passed : bit_offsets[t] = b
      <4> SUFFICES ASSUME NEW b \in Below
                   PROVE  \E t \in Passed : bit_offsets[t] = b
        OBVIOUS
      <4>1. PICK t \in Filled : b = bit_offsets[t]
        BY DEF Chosen
      <4>2. b < new /\ b \in Int
        BY <2>1
      <4>3. ~(t > i)
        BY <4>1, <4>2, <2>1, <2>2
      <4>4. t < i
        BY <4>3, <2>2, <2>4
      <4> QED BY <4>1, <4>4, <2>6
    <3>4. f \in [Passed -> Below]
      BY <3>1
    <3>5. f \in Injection(Passed, Below)
      BY <3>2, <3>4 DEF Injection, IsInjective
    <3>6. f \in Surjection(Passed, Below)
      BY <3>3, <3>4 DEF Surjection
    <3> QED BY <3>5, <3>6 DEF Bijection
  <2>8. /\ IsFiniteSet(Passed)
        /\ Cardinality(Passed) = i - (j - 1)
    <3>1. j - 1 \in Int /\ i - 1 \in Int
      BY <2>2
    <3>2. IsFiniteSet(Passed) /\ Cardinality(Passed) = IF j - 1 > i - 1 THEN 0 ELSE (i - 1) - (j - 1) + 1
      BY <3>1, FS_Interval
    <3> QED BY <2>2, <3>2
  <2>9. /\ IsFiniteSet(Below)
        /\ Cardinality(Below) = i - (j - 1)
    BY <2>7, <2>8, FS_Bijection DEF ExistsBijection
  <2>10. /\ IsFiniteSet(0..(new - 1))
         /\ Cardinality(0..(new - 1)) = new
    <3>1. 0 \in Int /\ new - 1 \in Int
      BY <2>1
    <3>2. /\ IsFiniteSet(0..(new - 1))
          /\ Cardinality(0..(new - 1)) = IF 0 > new - 1 THEN 0 ELSE (new - 1) - 0 + 1
      BY <3>1, FS_Interval
    <3> QED BY <2>1, <3>2
  <2>11. Cardinality((0..(new - 1)) \ Below)
           = Cardinality(0..(new - 1)) - Cardinality((0..(new - 1)) \cap Below)
    BY <2>10, FS_Difference
  <2>12. (0..(new - 1)) \ Below = Free /\ (0..(new - 1)) \cap Below = Below
    OBVIOUS
  <2>13. Cardinality(Free) = overflow
    <3>1. Cardinality(Free) = Cardinality(0..(new - 1)) - Cardinality(Below)
      BY <2>11, <2>12
    <3>2. Cardinality(Free) = new - (i - (j - 1))
      BY <3>1, <2>9, <2>10
    <3>3. /\ overflow \in Int /\ i \in Int /\ j \in Int
          /\ new = overflow + (i - (j - 1))
      BY <2>2
    <3> QED BY <3>2, <3>3
  <2> QED BY <2>1, <2>5, <2>13
<1> QED BY <1>1, BloomInvariant, PTL

\* bloom_determine_offsets() chooses distinct bits, all inside the filter.
THEOREM OffsetsSortedHolds == BloomSpec => []OffsetsSorted
<1>1. BloomInv => OffsetsSorted
  BY DEF BloomInv
<1> QED BY <1>1, BloomInvariant, PTL

\* bloom_set() sets exactly num_bits bits, all of the filter: as many as were
\* asked for, or the whole filter when it has fewer.
THEOREM SetsNumBitsHolds == BloomSpec => []SetsNumBits
<1>1. BloomInv => SetsNumBits
  <2> SUFFICES ASSUME BloomInv, bloomPc = "done"
               PROVE  LET set == {bit_offsets[t] : t \in DOMAIN bit_offsets}
                      IN  set \subseteq 0..(bits - 1) /\ Cardinality(set) = NumBits
    BY DEF SetsNumBits
  <2> DEFINE set == {bit_offsets[t] : t \in DOMAIN bit_offsets}
             Used == 0..(NumBits - 1)
             g == [t \in Used |-> bit_offsets[t]]
  <2>1. /\ bits \in Nat /\ bits >= 8 /\ len \in Nat
        /\ NumBits \in Nat /\ NumBits > 0 /\ NumBits <= bits /\ NumBits <= len
        /\ DOMAIN bit_offsets = 0..(len - 1)
    BY BloomTypes DEF BloomInv, BloomTypeOK
  <2>2. Filled = Used
    BY DEF BloomInv, Filled
  <2>3. /\ \A t \in Used : bit_offsets[t] \in 0..(bits - 1)
        /\ \A s, t \in Used : s < t => bit_offsets[s] < bit_offsets[t]
        /\ \A t \in NumBits..(len - 1) : bit_offsets[t] = 0
    BY <2>2 DEF BloomInv, OffsetsSorted
  <2>4. set \subseteq 0..(bits - 1)
    <3> SUFFICES ASSUME NEW t \in 0..(len - 1)
                 PROVE  bit_offsets[t] \in 0..(bits - 1)
      BY <2>1
    <3>1. CASE t \in Used
      BY <3>1, <2>3
    <3>2. CASE t \in NumBits..(len - 1)
      BY <3>2, <2>3, <2>1
    <3> QED BY <3>1, <3>2, <2>1
  <2>5. \A s, t \in Used : bit_offsets[s] = bit_offsets[t] => s = t
    <3> SUFFICES ASSUME NEW s \in Used, NEW t \in Used, s # t
                 PROVE  bit_offsets[s] # bit_offsets[t]
      OBVIOUS
    <3>1. s < t \/ t < s
      BY <2>1
    <3> QED BY <3>1, <2>3
  <2>6. IsFiniteSet(Used) /\ Cardinality(Used) = NumBits
    <3>1. IsFiniteSet(Used) /\ Cardinality(Used) = IF 0 > NumBits - 1 THEN 0 ELSE (NumBits - 1) - 0 + 1
      BY <2>1, FS_Interval
    <3> QED BY <3>1, <2>1
  <2>7. CASE NumBits = len
    <3>1. Used = DOMAIN bit_offsets
      BY <2>1, <2>7
    <3>2. g \in [Used -> set]
      BY <3>1
    <3>3. g \in Bijection(Used, set)
      BY <3>1, <3>2, <2>5 DEF Bijection, Injection, Surjection, IsInjective
    <3>4. Cardinality(set) = Cardinality(Used)
      BY <3>3, <2>6, FS_Bijection DEF ExistsBijection
    <3> QED BY <3>4, <2>4, <2>6
  <2>8. CASE NumBits = bits
    <3>1. IsFiniteSet(0..(bits - 1)) /\ Cardinality(0..(bits - 1)) = NumBits
      BY <2>6, <2>8
    <3>2. g \in [Used -> 0..(bits - 1)]
      BY <2>3
    <3>3. g \in Injection(Used, 0..(bits - 1))
      BY <3>2, <2>5 DEF Injection, IsInjective
    <3>4. g \in Surjection(Used, 0..(bits - 1))
      BY <3>1, <3>3, <2>6, FS_Injection
    <3>5. \A b \in 0..(bits - 1) : \E t \in Used : bit_offsets[t] = b
      BY <3>4 DEF Surjection
    <3>6. 0..(bits - 1) \subseteq set
      BY <3>5, <2>1
    <3> QED BY <3>1, <3>6, <2>4
  <2> QED BY <2>7, <2>8 DEF NumBits
<1> QED BY <1>1, BloomInvariant, PTL

=============================================================================

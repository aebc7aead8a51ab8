--------------------------- MODULE NumberLemmas ---------------------------
(***************************************************************************)
(* Facts about numbers that the proofs about several components share:     *)
(* least and greatest elements, and induction in the form the provers can  *)
(* use, over a set of numbers instead of a predicate.                      *)
(***************************************************************************)
EXTENDS Binary, FiniteSetsExt, WellFoundedInduction, TLAPS

\* Multiplication by a natural number is monotone.
LEMMA TimesMonotone ==
  ASSUME NEW a \in Nat, NEW b \in Nat, NEW c \in Nat, a <= b
  PROVE  a * c \in Nat /\ b * c \in Nat /\ a * c <= b * c
OBVIOUS

\* A set of natural numbers that is not empty has a least element.
LEMMA Least ==
  ASSUME NEW T \in SUBSET Nat, T # {}
  PROVE  \E x \in T : \A y \in T : x <= y
<1>1. PICK x \in T : \A y \in T : ~(<<y, x>> \in OpToRel(<, Nat))
  BY NatLessThanWellFounded, WFMin
<1>2. \A y \in T : ~(y < x)
  BY <1>1 DEF OpToRel
<1>3. QED
  BY <1>2

\* A set of numbers that holds 0 and, with each number, the next one holds all.
LEMMA Induction ==
  ASSUME NEW Q \in SUBSET Nat, 0 \in Q, \A n \in Nat : n \in Q => n + 1 \in Q
  PROVE  Q = Nat
<1> SUFFICES ASSUME Nat \ Q # {} PROVE FALSE
  OBVIOUS
<1>1. Nat \ Q \in SUBSET Nat
  OBVIOUS
<1>2. PICK x \in Nat \ Q : \A y \in Nat \ Q : x <= y
  BY <1>1, Least
<1>3. x # 0 /\ x \in Nat
  BY <1>2
<1>4. x - 1 \in Nat /\ x - 1 \in Q
  BY <1>2, <1>3
<1>5. (x - 1) + 1 \in Q /\ (x - 1) + 1 = x
  BY <1>3, <1>4
<1>6. QED
  BY <1>2, <1>5

\* The least element is the one Min() chooses.
LEMMA MinOfSet ==
  ASSUME NEW S \in SUBSET Nat, S # {}
  PROVE  Min(S) \in S /\ \A y \in S : Min(S) <= y
BY Least DEF Min

\* A set of numbers up to a bound has a greatest element, which Max() chooses.
LEMMA MaxOfBounded ==
  ASSUME NEW S, S # {}, NEW b \in Nat, S \subseteq 0..b
  PROVE  Max(S) \in S /\ \A y \in S : Max(S) >= y
<1> DEFINE T == {b - y : y \in S}
<1>1. T \in SUBSET Nat /\ T # {}
  <2>1. \A y \in S : b - y \in Nat
    OBVIOUS
  <2>2. PICK y : y \in S
    OBVIOUS
  <2>3. QED
    BY <2>1, <2>2
<1>2. PICK x \in T : \A y \in T : x <= y
  BY <1>1, Least
<1>3. PICK z \in S : x = b - z
  BY <1>2
<1>4. \A y \in S : z >= y
  BY <1>2, <1>3
<1>5. QED
  BY <1>3, <1>4 DEF Max

\* Min() and Max() of two numbers.
LEMMA MinMaxOfTwo ==
  ASSUME NEW a \in Nat, NEW b \in Nat
  PROVE  /\ Min({a, b}) \in Nat /\ Min({a, b}) <= a /\ Min({a, b}) <= b
         /\ Min({a, b}) = a \/ Min({a, b}) = b
         /\ Max({a, b}) \in Nat /\ Max({a, b}) >= a /\ Max({a, b}) >= b
         /\ Max({a, b}) = a \/ Max({a, b}) = b
<1>1. Min({a, b}) \in {a, b} /\ \A y \in {a, b} : Min({a, b}) <= y
  BY MinOfSet
<1>2. Max({a, b}) \in {a, b} /\ \A y \in {a, b} : Max({a, b}) >= y
  <2>1. \E x \in {a, b} : \A y \in {a, b} : x >= y
    OBVIOUS
  <2>2. QED
    BY <2>1 DEF Max
<1>3. QED
  BY <1>1, <1>2

\* A function that is defined by recursion over numbers up to N exists: the
\* provers know the function of a recursive definition only as a CHOOSE.
Steps(S) == [Nat -> [S -> S]]
Iterates(f, S, s, G, N) ==
  f \in [0..N -> S] /\ f[0] = s /\ \A t \in 1..N : f[t] = G[t][f[t - 1]]

LEMMA Iterated ==
  ASSUME NEW S, NEW s \in S, NEW G \in Steps(S), NEW N \in Nat
  PROVE  \E f : Iterates(f, S, s, G, N)
<1>0. G \in [Nat -> [S -> S]]
  BY DEF Steps
<1> DEFINE Q == {n \in Nat : \E f \in [0..n -> S] :
                               f[0] = s /\ \A t \in 1..n : f[t] = G[t][f[t - 1]]}
<1>1. 0 \in Q
  <2>1. [t \in 0..0 |-> s] \in [0..0 -> S] /\ [t \in 0..0 |-> s][0] = s
    OBVIOUS
  <2>2. 1..0 = {}
    OBVIOUS
  <2>3. QED
    BY <2>1, <2>2
<1>2. ASSUME NEW n \in Nat, n \in Q
      PROVE  n + 1 \in Q
  <2>1. PICK f \in [0..n -> S] : f[0] = s /\ \A t \in 1..n : f[t] = G[t][f[t - 1]]
    BY <1>2
  <2> DEFINE g == [t \in 0..(n + 1) |-> IF t <= n THEN f[t] ELSE G[n + 1][f[n]]]
  <2>2. f[n] \in S /\ G[n + 1][f[n]] \in S
    BY <1>0, <2>1
  <2>3. g \in [0..(n + 1) -> S] /\ g[n + 1] = G[n + 1][f[n]]
    BY <2>1, <2>2
  <2>4. \A t \in 0..n : g[t] = f[t]
    BY <2>1
  <2> HIDE DEF g
  <2>5. g[0] = s
    BY <2>1, <2>4
  <2>6. ASSUME NEW t \in 1..(n + 1)
        PROVE  g[t] = G[t][g[t - 1]]
    <3>1. CASE t = n + 1
      BY <2>3, <2>4, <3>1
    <3>2. CASE t \in 1..n
      <4>1. t \in 0..n /\ t - 1 \in 0..n
        BY <3>2
      <4>2. QED
        BY <2>1, <2>4, <3>2, <4>1
    <3>3. QED
      BY <3>1, <3>2
  <2>7. QED
    BY <2>3, <2>5, <2>6
<1> HIDE DEF Q
<1>3. Q = Nat
  <2>1. Q \in SUBSET Nat
    BY DEF Q
  <2>2. QED
    BY <1>1, <1>2, <2>1, Induction
<1>4. N \in Q
  BY <1>3
<1>5. QED
  BY <1>4 DEF Q, Iterates

\* What every step of such a recursion keeps, all of its values have.
LEMMA IteratedStays ==
  ASSUME NEW S, NEW s \in S, NEW N \in Nat, NEW g, g[0] = s,
         \A t \in 1..N : g[t - 1] \in S => g[t] \in S
  PROVE  \A t \in 0..N : g[t] \in S
<1> DEFINE Q == {t \in Nat : t <= N => g[t] \in S}
<1>1. 0 \in Q
  OBVIOUS
<1>2. ASSUME NEW n \in Nat, n \in Q
      PROVE  n + 1 \in Q
  <2>1. CASE n + 1 <= N
    <3>1. g[n] \in S /\ n + 1 \in 1..N /\ (n + 1) - 1 = n
      BY <1>2, <2>1
    <3>2. g[n + 1] \in S
      BY <3>1
    <3>3. QED
      BY <3>2
  <2>2. QED
    BY <2>1
<1>3. Q \in SUBSET Nat
  OBVIOUS
<1> HIDE DEF Q
<1>4. Q = Nat
  BY <1>1, <1>2, <1>3, Induction
<1>5. QED
  BY <1>4 DEF Q

\* A function that is defined by recursion over all numbers exists, too.
Recursive(f, S, s, G) ==
  f \in [Nat -> S] /\ f[0] = s /\ \A t \in Nat : f[t + 1] = G[t + 1][f[t]]

LEMMA IteratedForever ==
  ASSUME NEW S, NEW s \in S, NEW G \in Steps(S)
  PROVE  \E f : Recursive(f, S, s, G)
<1> DEFINE F(N) == CHOOSE f : Iterates(f, S, s, G, N)
<1>1. \A N \in Nat : Iterates(F(N), S, s, G, N)
  BY Iterated
<1> HIDE DEF F
<1>2. \A N \in Nat : F(N) \in [0..N -> S] /\ F(N)[0] = s
  BY <1>1 DEF Iterates
<1>3. ASSUME NEW N \in Nat, NEW t \in Nat, t + 1 <= N
      PROVE  F(N)[t + 1] = G[t + 1][F(N)[t]]
  <2>1. t + 1 \in 1..N /\ (t + 1) - 1 = t
    BY <1>3
  <2>2. \A u \in 1..N : F(N)[u] = G[u][F(N)[u - 1]]
    BY <1>1 DEF Iterates
  <2>3. F(N)[t + 1] = G[t + 1][F(N)[(t + 1) - 1]]
    BY <2>1, <2>2
  <2>4. QED
    BY <2>1, <2>3
<1> DEFINE Q == {t \in Nat : \A N \in Nat : t <= N => F(N)[t] = F(t)[t]}
<1>4. Q \in SUBSET Nat
  OBVIOUS
<1>5. 0 \in Q
  BY <1>2
<1>6. ASSUME NEW t \in Nat, t \in Q
      PROVE  t + 1 \in Q
  <2>1. ASSUME NEW N \in Nat, t + 1 <= N
        PROVE  F(N)[t + 1] = F(t + 1)[t + 1]
    <3>1. F(N)[t] = F(t)[t] /\ F(t + 1)[t] = F(t)[t]
      BY <1>6, <2>1
    <3>2. F(N)[t + 1] = G[t + 1][F(N)[t]]
      BY <1>3, <2>1
    <3>3. F(t + 1)[t + 1] = G[t + 1][F(t + 1)[t]]
      BY <1>3
    <3>4. QED
      BY <3>1, <3>2, <3>3
  <2>2. QED
    BY <2>1
<1>7. \A t \in Nat : F(t + 1)[t] = F(t)[t]
  <2>1. Q = Nat
    <3> HIDE DEF Q
    <3>1. QED
      BY <1>4, <1>5, <1>6, Induction
  <2>2. QED
    BY <2>1
<1> HIDE DEF Q
<1> DEFINE f == [N \in Nat |-> F(N)[N]]
<1>8. f \in [Nat -> S] /\ f[0] = s
  <2>1. \A N \in Nat : F(N)[N] \in S
    BY <1>2
  <2>2. QED
    BY <1>2, <2>1
<1>9. \A t \in Nat : f[t + 1] = G[t + 1][f[t]]
  <2>1. ASSUME NEW t \in Nat
        PROVE  f[t + 1] = G[t + 1][f[t]]
    <3>1. f[t + 1] = F(t + 1)[t + 1] /\ f[t] = F(t)[t]
      OBVIOUS
    <3>2. F(t + 1)[t + 1] = G[t + 1][F(t + 1)[t]]
      BY <1>3
    <3> HIDE DEF f
    <3>3. QED
      BY <1>7, <3>1, <3>2
  <2>2. QED
    BY <2>1
<1> HIDE DEF f
<1>10. QED
  BY <1>8, <1>9 DEF Recursive

----------------------------------------------------------------------------
\* Numbers in binary.

\* The powers of two.
LEMMA Powers ==
  /\ \A n \in Nat : PowerOfTwo[n] \in Nat \ {0}
  /\ PowerOfTwo[0] = 1
  /\ \A n \in Nat : PowerOfTwo[n + 1] = 2 * PowerOfTwo[n]
<1> DEFINE Recursion(f) == f = [n \in Nat |-> IF n = 0 THEN 1 ELSE 2 * f[n - 1]]
           S == Nat \ {0}
           G == [n \in Nat |-> [x \in S |-> 2 * x]]
<1>1. G \in Steps(S) /\ 1 \in S
  BY DEF Steps
<1>2. \A n \in Nat : \A x \in S : G[n + 1][x] = 2 * x
  OBVIOUS
<1>3. PICK f : f \in [Nat -> S] /\ f[0] = 1 /\ \A n \in Nat : f[n + 1] = 2 * f[n]
  <2> HIDE DEF G, S
  <2>1. PICK f : Recursive(f, S, 1, G)
    BY <1>1, IteratedForever
  <2>2. f \in [Nat -> S] /\ f[0] = 1 /\ \A n \in Nat : f[n + 1] = G[n + 1][f[n]]
    BY <2>1 DEF Recursive
  <2>3. \A n \in Nat : f[n + 1] = 2 * f[n]
    BY <1>2, <2>2
  <2>4. QED
    BY <2>2, <2>3
<1>4. Recursion(f)
  <2>1. ASSUME NEW n \in Nat
        PROVE  f[n] = IF n = 0 THEN 1 ELSE 2 * f[n - 1]
    <3>1. CASE n = 0
      BY <1>3, <3>1
    <3>2. CASE n # 0
      <4>1. n - 1 \in Nat /\ (n - 1) + 1 = n
        BY <3>2
      <4>2. f[(n - 1) + 1] = 2 * f[n - 1]
        BY <1>3, <4>1
      <4>3. QED
        BY <3>2, <4>1, <4>2
    <3>3. QED
      BY <3>1, <3>2
  <2>2. f = [n \in Nat |-> f[n]]
    BY <1>3
  <2>3. QED
    BY <2>1, <2>2
<1>5. Recursion(PowerOfTwo)
  <2>1. PowerOfTwo = CHOOSE g : Recursion(g)
    BY DEF PowerOfTwo
  <2> HIDE DEF Recursion
  <2>2. QED
    BY <1>4, <2>1
<1>6. /\ PowerOfTwo[0] = 1
      /\ \A n \in Nat : PowerOfTwo[n + 1] = 2 * PowerOfTwo[n]
  <2> DEFINE g == PowerOfTwo
  <2>1. Recursion(g)
    BY <1>5
  <2> HIDE DEF g
  <2>2. g[0] = 1 /\ \A n \in Nat : n # 0 => g[n] = 2 * g[n - 1]
    BY <2>1
  <2>3. \A n \in Nat : n + 1 \in Nat /\ n + 1 # 0 /\ (n + 1) - 1 = n
    OBVIOUS
  <2>4. g[0] = 1 /\ \A n \in Nat : g[n + 1] = 2 * g[n]
    BY <2>2, <2>3
  <2>5. QED
    BY <2>4 DEF g
<1> DEFINE Q == {n \in Nat : PowerOfTwo[n] \in Nat \ {0}}
<1>7. Q = Nat
  <2>1. Q \in SUBSET Nat /\ 0 \in Q
    BY <1>6
  <2>2. \A n \in Nat : n \in Q => n + 1 \in Q
    BY <1>6
  <2> HIDE DEF Q
  <2>3. QED
    BY <2>1, <2>2, Induction
<1>8. QED
  BY <1>6, <1>7

\* The sums of the first numbers of a sequence.
LEMMA SumsAre ==
  ASSUME NEW s \in Seq(Nat)
  PROVE  /\ Sums(s) \in [0..Len(s) -> Nat]
         /\ Sums(s)[0] = 0
         /\ \A n \in 1..Len(s) : Sums(s)[n] = Sums(s)[n - 1] + s[n]
<1> DEFINE N == Len(s)
           at(n) == IF n \in 1..N THEN s[n] ELSE 0
           G == [n \in Nat |-> [x \in Nat |-> x + at(n)]]
           Recursion(f) == f = [n \in 0..N |-> IF n = 0 THEN 0 ELSE f[n - 1] + s[n]]
<1>1. N \in Nat /\ \A n \in Nat : at(n) \in Nat
  OBVIOUS
<1>2. G \in Steps(Nat) /\ \A n \in 1..N : \A x \in Nat : G[n][x] = x + s[n]
  <2>1. \A n \in Nat : \A x \in Nat : x + at(n) \in Nat
    <3>1. ASSUME NEW n \in Nat, NEW x \in Nat
          PROVE  x + at(n) \in Nat
      <4>1. at(n) \in Nat
        BY <1>1
      <4> HIDE DEF at
      <4>2. QED
        BY <4>1
    <3>2. QED
      BY <3>1
  <2>2. \A n \in 1..N : at(n) = s[n]
    OBVIOUS
  <2> HIDE DEF at
  <2>3. G \in [Nat -> [Nat -> Nat]]
    BY <2>1
  <2>4. \A n \in 1..N : \A x \in Nat : G[n][x] = x + at(n)
    BY <1>1
  <2>5. QED
    BY <2>2, <2>3, <2>4 DEF Steps
<1> HIDE DEF G
<1>3. PICK f : Iterates(f, Nat, 0, G, N)
  BY <1>1, <1>2, Iterated
<1>4. f \in [0..N -> Nat] /\ f[0] = 0 /\ \A n \in 1..N : f[n] = f[n - 1] + s[n]
  <2>1. f \in [0..N -> Nat] /\ f[0] = 0 /\ \A n \in 1..N : f[n] = G[n][f[n - 1]]
    BY <1>3 DEF Iterates
  <2>2. \A n \in 1..N : f[n - 1] \in Nat
    <3>1. \A n \in 1..N : n - 1 \in 0..N
      BY <1>1
    <3> HIDE DEF N
    <3>2. QED
      BY <2>1, <3>1
  <2>3. QED
    BY <1>2, <2>1, <2>2
<1>5. Recursion(f)
  <2>1. \A n \in 0..N : f[n] = IF n = 0 THEN 0 ELSE f[n - 1] + s[n]
    BY <1>1, <1>4
  <2>2. f = [n \in 0..N |-> f[n]]
    BY <1>4
  <2>3. QED
    BY <2>1, <2>2
<1>6. Recursion(Sums(s))
  <2>1. Sums(s) = CHOOSE g : Recursion(g)
    BY DEF Sums
  <2> HIDE DEF Recursion
  <2>2. QED
    BY <1>5, <2>1
<1> DEFINE g == Sums(s)
<1>7. g[0] = 0 /\ \A n \in 1..N : g[n] = g[n - 1] + s[n]
  <2> HIDE DEF g
  <2>1. Recursion(g)
    BY <1>6 DEF g
  <2>2. QED
    BY <1>1, <2>1
<1>8. \A n \in 0..N : g[n] \in Nat
  <2>1. \A t \in 1..N : g[t - 1] \in Nat => g[t] \in Nat
    BY <1>7
  <2> HIDE DEF g
  <2>2. QED
    BY <1>1, <1>7, <2>1, IteratedStays
<1>9. g \in [0..N -> Nat]
  <2>1. g = [n \in 0..N |-> g[n]]
    <3>1. Recursion(g)
      BY <1>6
    <3> HIDE DEF g
    <3>2. DOMAIN g = 0..N /\ g = [n \in DOMAIN g |-> g[n]]
      BY <3>1
    <3>3. QED
      BY <3>2
  <2> HIDE DEF g
  <2>2. QED
    BY <1>8, <2>1
<1>10. QED
  BY <1>7, <1>9

\* Later sums are not smaller.
LEMMA SumsMonotone ==
  ASSUME NEW s \in Seq(Nat), NEW m \in 0..Len(s), NEW n \in 0..Len(s), m <= n
  PROVE  Sums(s)[m] <= Sums(s)[n]
<1> DEFINE f == Sums(s)
           N == Len(s)
           Q == {t \in Nat : m + t <= N => f[m] <= f[m + t]}
<1>1. /\ N \in Nat /\ f \in [0..N -> Nat]
      /\ \A t \in 1..N : f[t] = f[t - 1] + s[t]
      /\ \A t \in 1..N : s[t] \in Nat
  BY SumsAre
<1> HIDE DEF f
<1>2. Q \in SUBSET Nat /\ 0 \in Q
  <2>1. m + 0 = m /\ f[m] \in Nat
    BY <1>1
  <2>2. f[m] <= f[m]
    BY <2>1
  <2>3. QED
    BY <2>1, <2>2
<1>3. ASSUME NEW t \in Nat, t \in Q
      PROVE  t + 1 \in Q
  <2>1. ASSUME m + (t + 1) <= N
        PROVE  f[m] <= f[m + (t + 1)]
    <3>1. m + t + 1 \in 1..N /\ (m + t + 1) - 1 = m + t /\ m + t \in 0..N
      BY <1>1, <2>1
    <3>2. f[m + t + 1] = f[m + t] + s[m + t + 1]
      <4>1. f[m + t + 1] = f[(m + t + 1) - 1] + s[m + t + 1]
        BY <1>1, <3>1
      <4>2. QED
        BY <3>1, <4>1
    <3>3. f[m] <= f[m + t]
      BY <1>1, <1>3, <3>1
    <3>4. f[m] \in Nat /\ f[m + t] \in Nat /\ s[m + t + 1] \in Nat
      BY <1>1, <3>1
    <3>5. m + (t + 1) = m + t + 1
      BY <1>1
    <3>6. QED
      BY <3>2, <3>3, <3>4, <3>5
  <2>2. QED
    BY <2>1
<1>4. Q = Nat
  <2> HIDE DEF Q
  <2>1. QED
    BY <1>2, <1>3, Induction
<1>5. n - m \in Nat /\ m + (n - m) = n
  BY <1>1
<1>6. n - m \in Q
  BY <1>4, <1>5
<1>7. QED
  BY <1>1, <1>5, <1>6 DEF f

\* The value of one bit.
BitValue(bits, b) == IF b \in bits THEN PowerOfTwo[b] ELSE 0

LEMMA NumberSteps ==
  ASSUME NEW bits, NEW width \in Nat
  PROVE  \E f : /\ f \in [0..width -> Nat] /\ f[0] = 0 /\ f[width] = NumberOf(bits, width)
                /\ \A n \in 1..width : f[n] = f[n - 1] + BitValue(bits, n - 1)
<1> DEFINE s == [n \in 1..width |-> IF n - 1 \in bits THEN PowerOfTwo[n - 1] ELSE 0]
<1>1. \A n \in 1..width : BitValue(bits, n - 1) \in Nat /\ n - 1 \in Nat
  BY Powers DEF BitValue
<1>2. s \in Seq(Nat) /\ Len(s) = width /\ \A n \in 1..width : s[n] = BitValue(bits, n - 1)
  <2>1. \A n \in 1..width : (IF n - 1 \in bits THEN PowerOfTwo[n - 1] ELSE 0) = BitValue(bits, n - 1)
    BY DEF BitValue
  <2>2. QED
    BY <1>1, <2>1
<1>3. NumberOf(bits, width) = Sums(s)[width]
  BY DEF NumberOf
<1> HIDE DEF s
<1>4. /\ Sums(s) \in [0..width -> Nat] /\ Sums(s)[0] = 0
      /\ \A n \in 1..width : Sums(s)[n] = Sums(s)[n - 1] + s[n]
  BY <1>2, SumsAre
<1>5. \A n \in 1..width : Sums(s)[n] = Sums(s)[n - 1] + BitValue(bits, n - 1)
  BY <1>2, <1>4
<1>6. QED
  BY <1>3, <1>4, <1>5

\* A number of so many bits is smaller than that power of two.
LEMMA NumberBelow ==
  ASSUME NEW bits, NEW width \in Nat
  PROVE  NumberOf(bits, width) \in 0..(PowerOfTwo[width] - 1)
<1>1. PICK f : /\ f \in [0..width -> Nat] /\ f[0] = 0 /\ f[width] = NumberOf(bits, width)
               /\ \A n \in 1..width : f[n] = f[n - 1] + BitValue(bits, n - 1)
  BY NumberSteps
<1> DEFINE Q == {n \in Nat : n <= width => f[n] < PowerOfTwo[n]}
<1>2. Q \in SUBSET Nat /\ 0 \in Q
  <2>1. f[0] < PowerOfTwo[0]
    <3>1. f[0] = 0 /\ PowerOfTwo[0] = 1
      BY <1>1, Powers
    <3>2. QED
      BY <3>1
  <2>2. QED
    BY <2>1
<1>3. ASSUME NEW n \in Nat, n \in Q
      PROVE  n + 1 \in Q
  <2>1. ASSUME n + 1 <= width
        PROVE  f[n + 1] < PowerOfTwo[n + 1]
    <3>1. n + 1 \in 1..width /\ (n + 1) - 1 = n /\ n \in 0..width
      BY <2>1
    <3>2. f[n + 1] = f[n] + BitValue(bits, n) /\ f[n] \in Nat /\ f[n] < PowerOfTwo[n]
      BY <1>1, <1>3, <3>1
    <3>3. BitValue(bits, n) \in Nat /\ BitValue(bits, n) <= PowerOfTwo[n] /\ PowerOfTwo[n] \in Nat
      BY Powers DEF BitValue
    <3>4. PowerOfTwo[n + 1] = 2 * PowerOfTwo[n]
      BY Powers
    <3>5. QED
      BY <3>2, <3>3, <3>4
  <2>2. QED
    BY <2>1
<1>4. Q = Nat
  <2> HIDE DEF Q
  <2>1. QED
    BY <1>2, <1>3, Induction
<1>5. f[width] < PowerOfTwo[width] /\ f[width] \in Nat /\ PowerOfTwo[width] \in Nat
  <2>1. width \in 0..width /\ width \in Q
    BY <1>4
  <2>2. f[width] < PowerOfTwo[width]
    BY <2>1
  <2>3. f[width] \in Nat
    BY <1>1, <2>1
  <2>4. PowerOfTwo[width] \in Nat
    BY Powers
  <2>5. QED
    BY <2>2, <2>3, <2>4
<1>6. QED
  BY <1>1, <1>5

\* One more bit of a number.
LEMMA OneBitMore ==
  ASSUME NEW n \in Nat, NEW p \in Nat \ {0}
  PROVE  /\ n % p \in Nat
         /\ n % (2 * p) = (n % p) + (IF (n \div p) % 2 = 1 THEN p ELSE 0)
<1> DEFINE q == n \div p
           r == n % p
           d == q \div 2
           e == q % 2
<1>1. q \in Nat /\ r \in 0..(p - 1) /\ n = p * q + r
  OBVIOUS
<1>2. d \in Nat /\ e \in 0..1 /\ q = 2 * d + e
  <2> HIDE DEF q
  <2>1. QED
    BY <1>1
<1> HIDE DEF q, r, d, e
<1>3. p * q = 2 * (p * d) + p * e
  BY <1>1, <1>2
<1> DEFINE k == 2 * p
           x == n \div k
           y == n % k
           z == p * e + r
<1>4. x \in Nat /\ y \in 0..(k - 1) /\ n = k * x + y /\ k \in Nat \ {0}
  <2>1. k \in Nat \ {0}
    OBVIOUS
  <2> HIDE DEF k
  <2>2. QED
    BY <2>1
<1>5. k * d = 2 * (p * d)
  BY <1>2
<1>6. n = k * d + z /\ z \in 0..(k - 1)
  <2>1. e = 0 => p * e = 0
    OBVIOUS
  <2>2. e = 1 => p * e = p
    OBVIOUS
  <2>3. p * e \in Nat /\ k * d \in Nat /\ p * d \in Nat /\ p * q \in Nat
    BY <1>1, <1>2, <1>4
  <2>4. QED
    BY <1>1, <1>2, <1>3, <1>5, <2>1, <2>2, <2>3
<1> HIDE DEF k, x, y, z
<1>7. x = d
  <2>1. CASE x < d
    <3>1. x + 1 <= d /\ x + 1 \in Nat
      BY <1>2, <1>4, <2>1
    <3>2. (x + 1) * k <= d * k
      BY <1>2, <1>4, <3>1, TimesMonotone
    <3>3. (x + 1) * k = k * x + k /\ d * k = k * d /\ k * x \in Nat /\ k * d \in Nat
      BY <1>2, <1>4
    <3>4. QED
      BY <1>4, <1>6, <3>2, <3>3
  <2>2. CASE d < x
    <3>1. d + 1 <= x /\ d + 1 \in Nat
      BY <1>2, <1>4, <2>2
    <3>2. (d + 1) * k <= x * k
      BY <1>2, <1>4, <3>1, TimesMonotone
    <3>3. (d + 1) * k = k * d + k /\ x * k = k * x /\ k * x \in Nat /\ k * d \in Nat
      BY <1>2, <1>4
    <3>4. QED
      BY <1>4, <1>6, <3>2, <3>3
  <2>3. QED
    BY <1>2, <1>4, <2>1, <2>2
<1>8. y = z
  <2>1. k * d \in Nat
    BY <1>2, <1>4
  <2>2. QED
    BY <1>4, <1>6, <1>7, <2>1
<1>10. z = r + (IF e = 1 THEN p ELSE 0)
  <2>1. e = 0 => p * e = 0
    OBVIOUS
  <2>2. e = 1 => p * e = p
    OBVIOUS
  <2>3. QED
    BY <1>1, <1>2, <2>1, <2>2 DEF z
<1>11. r \in Nat /\ y = r + (IF e = 1 THEN p ELSE 0)
  BY <1>1, <1>8, <1>10
<1>12. QED
  BY <1>11 DEF e, q, y, k, r

\* The bits of a number are the number.
LEMMA NumberOfBits ==
  ASSUME NEW width \in Nat, NEW n \in 0..(PowerOfTwo[width] - 1)
  PROVE  NumberOf(NumberBits(n, width), width) = n
<1> DEFINE bits == NumberBits(n, width)
<1>0. n \in Nat /\ \A k \in Nat : PowerOfTwo[k] \in Nat \ {0}
  BY Powers
<1>1. PICK f : /\ f \in [0..width -> Nat] /\ f[0] = 0 /\ f[width] = NumberOf(bits, width)
               /\ \A k \in 1..width : f[k] = f[k - 1] + BitValue(bits, k - 1)
  BY NumberSteps
<1>2. \A b \in 0..(width - 1) : b \in bits <=> (n \div PowerOfTwo[b]) % 2 = 1
  BY DEF NumberBits
<1> HIDE DEF bits
<1> DEFINE Q == {k \in Nat : k <= width => f[k] = n % PowerOfTwo[k]}
<1>3. Q \in SUBSET Nat /\ 0 \in Q
  <2>1. f[0] = 0 /\ PowerOfTwo[0] = 1 /\ n % 1 = 0
    BY <1>0, <1>1, Powers
  <2>2. QED
    BY <2>1
<1>4. ASSUME NEW k \in Nat, k \in Q
      PROVE  k + 1 \in Q
  <2>1. ASSUME k + 1 <= width
        PROVE  f[k + 1] = n % PowerOfTwo[k + 1]
    <3>1. k + 1 \in 1..width /\ (k + 1) - 1 = k /\ k \in 0..(width - 1)
      BY <2>1
    <3>2. f[k + 1] = f[k] + BitValue(bits, k) /\ f[k] = n % PowerOfTwo[k]
      BY <1>1, <1>4, <3>1
    <3>3. BitValue(bits, k) = IF (n \div PowerOfTwo[k]) % 2 = 1 THEN PowerOfTwo[k] ELSE 0
      BY <1>2, <3>1 DEF BitValue
    <3>4. n % (2 * PowerOfTwo[k])
            = (n % PowerOfTwo[k]) + (IF (n \div PowerOfTwo[k]) % 2 = 1 THEN PowerOfTwo[k] ELSE 0)
      BY <1>0, OneBitMore
    <3>5. PowerOfTwo[k + 1] = 2 * PowerOfTwo[k]
      BY Powers
    <3>6. QED
      BY ONLY <3>2, <3>3, <3>4, <3>5
  <2>2. QED
    BY <2>1
<1>5. Q = Nat
  <2> HIDE DEF Q
  <2>1. QED
    BY <1>3, <1>4, Induction
<1>6. f[width] = n % PowerOfTwo[width]
  BY <1>5
<1>7. n % PowerOfTwo[width] = n
  <2> DEFINE p == PowerOfTwo[width]
  <2>1. p \in Nat \ {0} /\ n \in 0..(p - 1)
    BY <1>0
  <2> HIDE DEF p
  <2>2. n % p = n
    <3> DEFINE q == n \div p
               r == n % p
    <3>1. q \in Nat /\ r \in 0..(p - 1) /\ n = p * q + r
      BY <2>1
    <3> HIDE DEF q, r
    <3>2. q >= 1 => p * q >= p
      BY <2>1, <3>1
    <3>3. q = 0 /\ p * 0 = 0
      BY <2>1, <3>1, <3>2
    <3>4. r = n
      BY <2>1, <3>1, <3>3
    <3>5. QED
      BY <3>4 DEF r
  <2>3. QED
    BY <2>2 DEF p
<1>8. QED
  BY <1>1, <1>6, <1>7 DEF bits

\* With more bits a number is not smaller.
LEMMA NumberMonotone ==
  ASSUME NEW width \in Nat, NEW a, NEW b, a \subseteq b
  PROVE  NumberOf(a, width) <= NumberOf(b, width)
<1>1. PICK f : /\ f \in [0..width -> Nat] /\ f[0] = 0 /\ f[width] = NumberOf(a, width)
               /\ \A n \in 1..width : f[n] = f[n - 1] + BitValue(a, n - 1)
  BY NumberSteps
<1>2. PICK g : /\ g \in [0..width -> Nat] /\ g[0] = 0 /\ g[width] = NumberOf(b, width)
               /\ \A n \in 1..width : g[n] = g[n - 1] + BitValue(b, n - 1)
  BY NumberSteps
<1>3. \A n \in Nat : /\ BitValue(a, n) \in Nat /\ BitValue(b, n) \in Nat
                     /\ BitValue(a, n) <= BitValue(b, n)
  BY Powers DEF BitValue
<1> DEFINE Q == {n \in Nat : n <= width => f[n] <= g[n]}
<1>4. Q \in SUBSET Nat /\ 0 \in Q
  BY <1>1, <1>2
<1>5. ASSUME NEW n \in Nat, n \in Q
      PROVE  n + 1 \in Q
  <2>1. ASSUME n + 1 <= width
        PROVE  f[n + 1] <= g[n + 1]
    <3>1. n + 1 \in 1..width /\ (n + 1) - 1 = n /\ n \in 0..width
      BY <2>1
    <3>2. f[n + 1] = f[n] + BitValue(a, n) /\ g[n + 1] = g[n] + BitValue(b, n)
      BY <1>1, <1>2, <3>1
    <3>3. f[n] \in Nat /\ g[n] \in Nat /\ f[n] <= g[n]
      BY <1>1, <1>2, <1>5, <3>1
    <3>4. QED
      BY <1>3, <3>2, <3>3
  <2>2. QED
    BY <2>1
<1>6. Q = Nat
  <2> HIDE DEF Q
  <2>1. QED
    BY <1>4, <1>5, Induction
<1>7. f[width] <= g[width]
  BY <1>6
<1>8. QED
  BY <1>1, <1>2, <1>7

\* Without bits a number is 0.
LEMMA NumberOfNone ==
  ASSUME NEW width \in Nat, NEW bits, \A b \in 0..(width - 1) : b \notin bits
  PROVE  NumberOf(bits, width) = 0
<1>1. PICK f : /\ f \in [0..width -> Nat] /\ f[0] = 0 /\ f[width] = NumberOf(bits, width)
               /\ \A n \in 1..width : f[n] = f[n - 1] + BitValue(bits, n - 1)
  BY NumberSteps
<1> DEFINE S == {0}
<1>2. 0 \in S /\ \A n \in 1..width : f[n - 1] \in S => f[n] \in S
  BY <1>1 DEF BitValue
<1>3. \A n \in 0..width : f[n] \in S
  <2> HIDE DEF S
  <2>1. QED
    BY <1>1, <1>2, IteratedStays
<1>4. QED
  BY <1>1, <1>3

=============================================================================

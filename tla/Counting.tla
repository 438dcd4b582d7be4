------------------------------- MODULE Counting -------------------------------
(***************************************************************************)
(* Lemmas the proofs of this project share: least elements, induction with *)
(* a set for the predicate and what it gives (sums, and functions defined  *)
(* by recursion on a number), and the number of positions of a sequence    *)
(* that hold one of some elements, as the sequence grows and shrinks the   *)
(* way a queue does.                                                       *)
(***************************************************************************)
EXTENDS Integers, Sequences, FiniteSetTheorems, SequenceTheorems, TLAPS

\* A non-empty set of numbers has a least element.
LEMMA LeastElement ==
  ASSUME NEW T, T \subseteq Nat, T # {}
  PROVE  \E x \in T : \A y \in T : x <= y
<1> DEFINE Down == {0..x : x \in T}
<1>1. Down \subseteq FiniteSubsetsOf(Nat) /\ Down # {}
  <2>1. \A x \in T : IsFiniteSet(0..x) /\ 0..x \subseteq Nat
    BY FS_Interval
  <2>2. \A D \in Down : D \in FiniteSubsetsOf(Nat)
    BY <2>1 DEF FiniteSubsetsOf
  <2> QED BY <2>2
<1>2. IsWellFoundedOn(StrictSubsetOrdering(Nat), FiniteSubsetsOf(Nat))
  BY FS_StrictSubsetOrderingWellFounded
<1>3. PICK D \in Down : \A E \in Down : <<E, D>> \notin StrictSubsetOrdering(Nat)
  <2> HIDE DEF Down
  <2> QED BY <1>1, <1>2, WFMin
<1>4. PICK x \in T : D = 0..x
  OBVIOUS
<1>5. ASSUME NEW y \in T, y < x PROVE FALSE
  <2>1. 0..y \in SUBSET Nat /\ 0..x \in SUBSET Nat /\ 0..y \subseteq 0..x /\ 0..y # 0..x
    <3>1. x \in 0..x /\ x \notin 0..y
      BY <1>5
    <3> QED BY <3>1, <1>5
  <2>2. <<0..y, 0..x>> \in StrictSubsetOrdering(Nat)
    BY <2>1 DEF StrictSubsetOrdering
  <2> QED BY <2>2, <1>3, <1>4
<1> QED BY <1>5

\* What holds for 0, and for n + 1 if for n, holds for every number.
LEMMA SetInduction ==
  ASSUME NEW S, 0 \in S, \A n \in Nat : n \in S => n + 1 \in S
  PROVE  \A n \in Nat : n \in S
<1> DEFINE T == {n \in Nat : n \notin S}
<1>1. SUFFICES ASSUME T # {} PROVE FALSE
  OBVIOUS
<1>2. PICK x \in T : \A y \in T : x <= y
  <2> HIDE DEF T
  <2>1. T \subseteq Nat
    BY DEF T
  <2> QED BY <1>1, <2>1, LeastElement
<1>3. x \in Nat \ {0} /\ x - 1 \in Nat /\ x - 1 \notin T
  BY <1>2
<1>4. x - 1 \in S /\ (x - 1) + 1 = x
  BY <1>3
<1> QED BY <1>2, <1>3, <1>4

\* The same up to a limit.
LEMMA UpToInduction ==
  ASSUME NEW S, NEW n \in Nat, 0 \in S, \A m \in 1..n : m - 1 \in S => m \in S
  PROVE  \A m \in 0..n : m \in S
<1> DEFINE T == {m \in Nat : m <= n => m \in S}
<1>1. 0 \in T
  OBVIOUS
<1>2. ASSUME NEW m \in Nat, m \in T PROVE m + 1 \in T
  <2>1. CASE m + 1 <= n
    <3>1. m + 1 \in 1..n /\ (m + 1) - 1 = m /\ m \in S
      BY <1>2, <2>1
    <3> QED BY <3>1
  <2>2. CASE ~(m + 1 <= n)
    BY <2>2
  <2> QED BY <2>1, <2>2
<1>3. \A m \in Nat : m \in T
  <2> HIDE DEF T
  <2> QED BY <1>1, <1>2, SetInduction
<1> QED BY <1>3

\* The sums of the first k of n numbers.
IsSum(v, n, g) ==
  g \in [0..n -> Nat] /\ g[0] = 0 /\ \A k \in 1..n : g[k] = g[k - 1] + v[k]

\* They exist.
LEMMA SumExists ==
  ASSUME NEW v, NEW n \in Nat, \A k \in 1..n : v[k] \in Nat
  PROVE  \E g : IsSum(v, n, g)
<1> DEFINE S == {m \in Nat : m <= n => \E g : IsSum(v, m, g)}
<1>1. 0 \in S
  <2>1. IsSum(v, 0, [k \in 0..0 |-> 0])
    BY DEF IsSum
  <2> QED BY <2>1
<1>2. ASSUME NEW m \in Nat, m \in S PROVE m + 1 \in S
  <2> SUFFICES ASSUME m + 1 <= n PROVE \E g : IsSum(v, m + 1, g)
    OBVIOUS
  <2>1. PICK g : IsSum(v, m, g)
    BY <1>2
  <2>2. v[m + 1] \in Nat
    OBVIOUS
  <2> DEFINE h == [k \in 0..(m + 1) |-> IF k <= m THEN g[k] ELSE g[m] + v[m + 1]]
  <2>3. h \in [0..(m + 1) -> Nat] /\ h[0] = 0
    BY <2>1, <2>2 DEF IsSum
  <2>4. \A k \in 1..(m + 1) : h[k] = h[k - 1] + v[k]
    BY <2>1, <2>2 DEF IsSum
  <2> QED BY <2>3, <2>4 DEF IsSum
<1> HIDE DEF S
<1>3. n \in S
  BY <1>1, <1>2, SetInduction
<1> QED BY <1>3 DEF S

\* A sum grows with the numbers it is of, and stays as it is over zeros.
LEMMA SumGrows ==
  ASSUME NEW v, NEW n \in Nat, \A k \in 1..n : v[k] \in Nat, NEW g, IsSum(v, n, g),
         NEW a \in 0..n, NEW b \in a..n
  PROVE  g[a] <= g[b] /\ ((\A k \in (a + 1)..b : v[k] = 0) => g[a] = g[b])
<1> DEFINE S == {m \in Nat : a + m <= n =>
                   /\ g[a] <= g[a + m]
                   /\ (\A k \in (a + 1)..(a + m) : v[k] = 0) => g[a] = g[a + m]}
<1>0. g \in [0..n -> Nat] /\ \A k \in 1..n : g[k] = g[k - 1] + v[k]
  BY DEF IsSum
<1>1. 0 \in S
  BY <1>0
<1>2. ASSUME NEW m \in Nat, m \in S PROVE m + 1 \in S
  <2> SUFFICES ASSUME a + (m + 1) <= n
               PROVE  /\ g[a] <= g[a + (m + 1)]
                      /\ (\A k \in (a + 1)..(a + (m + 1)) : v[k] = 0) => g[a] = g[a + (m + 1)]
    OBVIOUS
  <2>1. /\ a + (m + 1) \in 1..n /\ (a + (m + 1)) - 1 = a + m /\ a + m \in 0..n /\ a + m <= n
        /\ a + (m + 1) \in (a + 1)..(a + (m + 1))
        /\ \A k \in (a + 1)..(a + m) : k \in (a + 1)..(a + (m + 1))
    OBVIOUS
  <2>2. /\ g[a] <= g[a + m]
        /\ (\A k \in (a + 1)..(a + m) : v[k] = 0) => g[a] = g[a + m]
    BY <1>2, <2>1
  <2>3. g[a + (m + 1)] = g[a + m] + v[a + (m + 1)] /\ v[a + (m + 1)] \in Nat
    BY <1>0, <2>1
  <2>4. g[a] \in Nat /\ g[a + m] \in Nat
    BY <1>0, <2>1
  <2> QED BY <2>1, <2>2, <2>3, <2>4
<1> HIDE DEF S
<1>3. b - a \in S
  <2>1. b - a \in Nat
    OBVIOUS
  <2> QED BY <1>1, <1>2, <2>1, SetInduction
<1>4. b - a \in Nat /\ a + (b - a) = b
  OBVIOUS
<1> QED BY <1>3, <1>4 DEF S

Counts(v, n)   == \A k \in 1..n : v[k] \in Nat
Zeros(v, a, b) == \A k \in (a + 1)..b : v[k] = 0

LEMMA SumStays ==
  ASSUME NEW v, NEW n \in Nat, Counts(v, n), NEW g, IsSum(v, n, g),
         NEW a \in 0..n, NEW b \in a..n, Zeros(v, a, b)
  PROVE  g[a] = g[b]
<1>1. (\A k \in 1..n : v[k] \in Nat) /\ \A k \in (a + 1)..b : v[k] = 0
  BY DEF Counts, Zeros
<1> QED BY <1>1, SumGrows

\* A function on 0..n can be defined by its first value and a step.
IsStep(F, V, n) == F \in [V \X (1..n) -> V]
AreSteps(f, V, a, n, F) ==
  f \in [0..n -> V] /\ f[0] = a /\ \A k \in 1..n : f[k] = F[<<f[k - 1], k>>]

LEMMA StepsExist ==
  ASSUME NEW V, NEW a \in V, NEW n \in Nat, NEW F, IsStep(F, V, n)
  PROVE  \E f : AreSteps(f, V, a, n, F)
<1> USE DEF IsStep, AreSteps
<1> DEFINE S == {m \in Nat : m <= n =>
                   \E f \in [0..m -> V] : f[0] = a /\ \A k \in 1..m : f[k] = F[<<f[k - 1], k>>]}
<1>1. 0 \in S
  <2> DEFINE h == [k \in 0..0 |-> a]
  <2>1. h \in [0..0 -> V] /\ h[0] = a
    OBVIOUS
  <2>2. \A k \in 1..0 : h[k] = F[<<h[k - 1], k>>]
    OBVIOUS
  <2> HIDE DEF h
  <2>3. \E f \in [0..0 -> V] : f[0] = a /\ \A k \in 1..0 : f[k] = F[<<f[k - 1], k>>]
    BY <2>1, <2>2
  <2> QED BY <2>3
<1>2. ASSUME NEW m \in Nat, m \in S PROVE m + 1 \in S
  <2> SUFFICES ASSUME m + 1 <= n
               PROVE  \E f \in [0..(m + 1) -> V] :
                        f[0] = a /\ \A k \in 1..(m + 1) : f[k] = F[<<f[k - 1], k>>]
    OBVIOUS
  <2>1. PICK f \in [0..m -> V] : f[0] = a /\ \A k \in 1..m : f[k] = F[<<f[k - 1], k>>]
    BY <1>2
  <2> DEFINE h == [k \in 0..(m + 1) |-> IF k <= m THEN f[k] ELSE F[<<f[m], m + 1>>]]
  <2>2. f[m] \in V /\ m + 1 \in 1..n
    BY <2>1
  <2>3. F[<<f[m], m + 1>>] \in V
    BY <2>2
  <2>4. h \in [0..(m + 1) -> V] /\ h[0] = a
    BY <2>1, <2>3
  <2>5. ASSUME NEW k \in 1..(m + 1) PROVE h[k] = F[<<h[k - 1], k>>]
    <3>1. CASE k \in 1..m
      <4>1. h[k] = f[k] /\ h[k - 1] = f[k - 1] /\ f[k] = F[<<f[k - 1], k>>]
        BY <2>1, <3>1
      <4> HIDE DEF h
      <4> QED BY <4>1
    <3>2. CASE k \notin 1..m
      <4>1. k = m + 1 /\ k - 1 = m
        BY <3>2
      <4>2. h[k] = F[<<f[m], m + 1>>] /\ h[k - 1] = f[m]
        BY <4>1
      <4> HIDE DEF h
      <4> QED BY <4>1, <4>2
    <3> QED BY <3>1, <3>2
  <2> HIDE DEF h
  <2> QED BY <2>4, <2>5
<1> HIDE DEF S
<1>3. n \in S
  BY <1>1, <1>2, SetInduction
<1> QED BY <1>3 DEF S

\* The positions of a sequence that hold a member of K.
At(s, K) == {i \in DOMAIN s : s[i] \in K}

\* They are finitely many.
LEMMA AtFinite ==
  ASSUME NEW C, NEW s \in Seq(C), NEW K
  PROVE  IsFiniteSet(At(s, K)) /\ Cardinality(At(s, K)) \in Nat
<1>1. At(s, K) \in SUBSET (1..Len(s)) /\ IsFiniteSet(1..Len(s))
  BY FS_Interval DEF At
<1> QED BY <1>1, FS_Subset, FS_CardinalityType

\* Appending an element adds one position, or none.
LEMMA AtAppend ==
  ASSUME NEW C, NEW s \in Seq(C), NEW e \in C, NEW K
  PROVE  Cardinality(At(Append(s, e), K)) = Cardinality(At(s, K)) + (IF e \in K THEN 1 ELSE 0)
<1>1. At(Append(s, e), K) = IF e \in K THEN At(s, K) \cup {Len(s) + 1} ELSE At(s, K)
  BY DEF At
<1>2. Len(s) + 1 \notin At(s, K)
  BY DEF At
<1>3. IsFiniteSet(At(s, K)) /\ Cardinality(At(s, K)) \in Nat
  BY AtFinite
<1>4. Cardinality(At(s, K) \cup {Len(s) + 1}) = Cardinality(At(s, K)) + 1
  BY <1>2, <1>3, FS_AddElement
<1> QED BY <1>1, <1>3, <1>4

\* Taking the first element away moves the others down by one.
LEMMA AtTail ==
  ASSUME NEW C, NEW s \in Seq(C), s # <<>>, NEW K
  PROVE  Cardinality(At(s, K)) = Cardinality(At(Tail(s), K)) + (IF Head(s) \in K THEN 1 ELSE 0)
<1> DEFINE Rest == At(s, K) \ {1}
           f == [i \in Rest |-> i - 1]
<1>0. IsFiniteSet(At(s, K)) /\ Cardinality(At(s, K)) \in Nat
  BY AtFinite
<1>1. Tail(s) \in Seq(C) /\ Len(Tail(s)) = Len(s) - 1 /\ Len(s) \in Nat /\ Len(s) > 0
  OBVIOUS
<1>2. \A i \in 1..Len(Tail(s)) : Tail(s)[i] = s[i + 1]
  OBVIOUS
<1>3. f \in Bijection(Rest, At(Tail(s), K))
  <2>1. \A i \in Rest : i \in 2..Len(s) /\ s[i] \in K
    BY DEF At
  <2>2. f \in [Rest -> At(Tail(s), K)]
    BY <1>1, <1>2, <2>1 DEF At
  <2>3. \A i, j \in Rest : f[i] = f[j] => i = j
    BY <2>1
  <2>4. \A j \in At(Tail(s), K) : j + 1 \in Rest /\ f[j + 1] = j
    BY <1>1, <1>2 DEF At
  <2> QED BY <2>2, <2>3, <2>4 DEF Bijection, Injection, Surjection, IsInjective
<1>4. IsFiniteSet(Rest) /\ Cardinality(Rest) = Cardinality(At(Tail(s), K))
  BY <1>1, <1>3, AtFinite, FS_Bijection, FS_RemoveElement DEF ExistsBijection
<1>5. Cardinality(Rest) = Cardinality(At(s, K)) - (IF 1 \in At(s, K) THEN 1 ELSE 0)
  <2>1. Cardinality(Rest) = IF 1 \in At(s, K) THEN Cardinality(At(s, K)) - 1
                                              ELSE Cardinality(At(s, K))
    BY <1>0, FS_RemoveElement
  <2> HIDE DEF Rest
  <2> QED BY <1>0, <2>1
<1>6. 1 \in At(s, K) <=> Head(s) \in K
  BY <1>1 DEF At
<1> QED BY <1>4, <1>5, <1>6, <1>0
=============================================================================

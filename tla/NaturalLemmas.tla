---------------------------- MODULE NaturalLemmas ----------------------------
(***************************************************************************)
(* Least and greatest numbers.  An induction over the naturals is written  *)
(* with them as the argument that there is no least counterexample: the    *)
(* induction theorems of the library take a predicate as their parameter,  *)
(* which the provers cannot instantiate, and a set will do.                *)
(***************************************************************************)
EXTENDS FiniteSetTheorems, FiniteSetsExt, TLAPS

\* Every set of naturals that is not empty has a least element: the intervals
\* 0 .. n are finite sets, and strict inclusion of finite sets is well-founded.
LEMMA LeastNatural ==
  ASSUME NEW T \in SUBSET Nat, T # {}
  PROVE  \E n \in T : \A m \in T : n <= m
<1> DEFINE R == StrictSubsetOrdering(Nat)
           F == {0 .. n : n \in T}
<1>1. IsWellFoundedOn(R, FiniteSubsetsOf(Nat))
  BY FS_StrictSubsetOrderingWellFounded
<1>2. F \subseteq FiniteSubsetsOf(Nat)
  <2> SUFFICES ASSUME NEW n \in T
               PROVE  0 .. n \in FiniteSubsetsOf(Nat)
    OBVIOUS
  <2>1. IsFiniteSet(0 .. n)
    BY FS_Interval
  <2>2. 0 .. n \in SUBSET Nat
    OBVIOUS
  <2> QED BY <2>1, <2>2 DEF FiniteSubsetsOf
<1>3. F # {}
  OBVIOUS
<1>4. \E x \in F : \A y \in F : ~ (<<y, x>> \in R)
  <2> HIDE DEF R, F
  <2> QED BY <1>1, <1>2, <1>3, WFMin
<1>5. PICK n \in T : \A y \in F : <<y, 0 .. n>> \notin R
  BY <1>4
<1>6. ASSUME NEW m \in T, m < n
      PROVE  FALSE
  <2>1. n \notin 0 .. m /\ n \in 0 .. n
    BY <1>6
  <2>2. 0 .. m \subseteq 0 .. n
    BY <1>6
  <2>3. <<0 .. m, 0 .. n>> \in R
    BY <2>1, <2>2 DEF StrictSubsetOrdering
  <2>4. QED BY <1>5, <2>3
<1>7. QED
  BY <1>6

\* A bounded set of naturals that is not empty has a greatest element.
LEMMA GreatestNatural ==
  ASSUME NEW n \in Nat, NEW S \in SUBSET (0 .. n), S # {}
  PROVE  \E m \in S : \A k \in S : k <= m
<1> DEFINE Rest == {n - k : k \in S}
<1>1. Rest \in SUBSET Nat /\ Rest # {}
  <2>1. \A k \in S : k \in Nat /\ n - k \in Nat
    OBVIOUS
  <2>2. PICK k \in S : TRUE
    OBVIOUS
  <2>3. n - k \in Rest
    OBVIOUS
  <2>4. QED BY <2>1, <2>3
<1>2. PICK r \in Rest : \A q \in Rest : r <= q
  <2> HIDE DEF Rest
  <2> QED BY <1>1, LeastNatural
<1>3. PICK m \in S : r = n - m
  BY <1>2
<1>4. ASSUME NEW k \in S
      PROVE  k <= m
  BY <1>2, <1>3
<1>5. QED BY <1>4

\* Finitely many naturals have an upper bound.
LEMMA UpperBound ==
  ASSUME NEW n \in Nat, NEW f, \A i \in 1 .. n : f[i] \in Nat
  PROVE  \E b \in Nat : \A i \in 1 .. n : f[i] <= b
<1> DEFINE Unbounded == {k \in 0 .. n : ~ \E b \in Nat : \A i \in 1 .. k : f[i] <= b}
<1>1. SUFFICES ASSUME Unbounded # {}
               PROVE  FALSE
  BY n \in 0 .. n
<1>2. PICK k \in Unbounded : \A l \in Unbounded : k <= l
  <2>1. Unbounded \in SUBSET Nat
    OBVIOUS
  <2> HIDE DEF Unbounded
  <2> QED BY <1>1, <2>1, LeastNatural
<1>3. k # 0
  <2>1. \A i \in 1 .. 0 : f[i] <= 0
    OBVIOUS
  <2>2. QED BY <2>1
<1>4. k - 1 \in 0 .. n /\ k - 1 \notin Unbounded
  <2>1. k \in 0 .. n /\ k - 1 \in 0 .. n /\ ~ k <= k - 1
    BY <1>3
  <2>2. \A l \in Unbounded : k <= l
    BY <1>2
  <2> HIDE DEF Unbounded
  <2> QED BY <2>1, <2>2
<1>5. PICK b \in Nat : \A i \in 1 .. k - 1 : f[i] <= b
  BY <1>4
<1>6. \A i \in 1 .. k : f[i] <= b + f[k]
  <2>1. \A i \in 1 .. k : i = k \/ i \in 1 .. k - 1
    OBVIOUS
  <2>2. f[k] \in Nat /\ \A i \in 1 .. k : f[i] \in Nat
    BY <1>3
  <2>3. \A i \in 1 .. k - 1 : f[i] <= b /\ f[i] \in Nat
    BY <1>5, <2>2
  <2> HIDE DEF Unbounded
  <2> QED BY <2>1, <2>2, <2>3
<1>7. b + f[k] \in Nat
  BY <1>3
<1>8. QED BY <1>6, <1>7

\* Induction up to n, over the set of the numbers that the claim holds of.
LEMMA InductionUpTo ==
  ASSUME NEW n \in Nat, NEW S, 0 \in S, \A k \in 0 .. n : k \in S /\ k < n => k + 1 \in S
  PROVE  \A k \in 0 .. n : k \in S
<1> DEFINE Missing == {k \in 0 .. n : k \notin S}
<1>1. SUFFICES ASSUME Missing # {}
               PROVE  FALSE
  OBVIOUS
<1>2. PICK k \in Missing : \A l \in Missing : k <= l
  <2>1. Missing \in SUBSET Nat
    OBVIOUS
  <2> HIDE DEF Missing
  <2> QED BY <1>1, <2>1, LeastNatural
<1>3. k \in 0 .. n /\ k # 0
  OBVIOUS
<1>4. k - 1 \in 0 .. n /\ k - 1 \notin Missing
  <2>1. k - 1 \in 0 .. n /\ ~ k <= k - 1
    BY <1>3
  <2> HIDE DEF Missing
  <2> QED BY <2>1, <1>2
<1>5. QED BY <1>3, <1>4

\* Induction over the subsets of a finite set, over the set of those that the claim
\* holds of.
LEMMA SubsetInduction ==
  ASSUME NEW S, IsFiniteSet(S), NEW Good,
         \A s \in SUBSET S : (\A r \in SUBSET s : r # s => r \in Good) => s \in Good
  PROVE  \A s \in SUBSET S : s \in Good
<1> DEFINE R == StrictSubsetOrdering(S)
           Missing == {s \in SUBSET S : s \notin Good}
<1>1. SUFFICES ASSUME Missing # {}
               PROVE  FALSE
  OBVIOUS
<1>2. IsWellFoundedOn(R, FiniteSubsetsOf(S))
  BY FS_StrictSubsetOrderingWellFounded
<1>3. Missing \subseteq FiniteSubsetsOf(S)
  BY FS_Subset DEF FiniteSubsetsOf
<1>4. PICK s \in Missing : \A r \in Missing : <<r, s>> \notin R
  <2> HIDE DEF R, Missing
  <2> QED BY <1>1, <1>2, <1>3, WFMin
<1>5. ASSUME NEW r \in SUBSET s, r # s
      PROVE  r \in Good
  <2>1. SUFFICES ASSUME r \notin Good PROVE FALSE
    OBVIOUS
  <2>2. r \in Missing /\ <<r, s>> \in R
    BY <1>5, <2>1 DEF StrictSubsetOrdering
  <2> QED BY <1>4, <2>2
<1>6. QED BY <1>5

-----------------------------------------------------------------------------
(* Folds.  A fold is defined by recursion over the subsets of the domain of *)
(* a sequence, which takes their greatest element away.                     *)

\* The greatest element of a set of positions is one of them.
LEMMA MaxIsGreatest ==
  ASSUME NEW n \in Nat, NEW s \in SUBSET (1 .. n), s # {}
  PROVE  Max(s) \in s /\ \A k \in s : k <= Max(s)
<1>1. s \in SUBSET (0 .. n)
  OBVIOUS
<1>2. \E m \in s : \A k \in s : k <= m
  BY <1>1, GreatestNatural
<1>3. QED BY <1>2 DEF Max

\* f folds the numbers 1 .. n into values of T.
IsFold(f, n, T, base, op) ==
  /\ f \in [SUBSET (1 .. n) -> T]
  /\ \A s \in SUBSET (1 .. n) :
       f[s] = IF s = {} THEN base ELSE op[<<f[s \ {Max(s)}], Max(s)>>]

\* The recursion has a solution.
LEMMA FoldExists ==
  ASSUME NEW n \in Nat, NEW T, NEW base \in T, NEW op \in [T \X (1 .. n) -> T]
  PROVE  \E f : IsFold(f, n, T, base, op)
<1> USE DEF IsFold
<1> DEFINE Solves(f, k) == IsFold(f, k, T, base, op)
           Solved == {k \in 0 .. n : \E f : Solves(f, k)}
<1>1. 0 \in Solved
  <2>1. \A s \in SUBSET (1 .. 0) : s = {}
    OBVIOUS
  <2>2. Solves([s \in SUBSET (1 .. 0) |-> base], 0)
    BY <2>1
  <2>3. \E h : Solves(h, 0)
    BY <2>2
  <2>4. 0 \in 0 .. n
    OBVIOUS
  <2> HIDE DEF Solves
  <2>5. QED BY <2>3, <2>4
<1>2. ASSUME NEW k \in 0 .. n, k \in Solved, k < n
      PROVE  k + 1 \in Solved
  <2>1. PICK f : Solves(f, k)
    BY <1>2
  <2> DEFINE g == [s \in SUBSET (1 .. k + 1) |->
                     IF s \subseteq 1 .. k THEN f[s] ELSE op[<<f[s \ {k + 1}], k + 1>>]]
  <2>2. ASSUME NEW s \in SUBSET (1 .. k + 1), ~ s \subseteq 1 .. k
        PROVE  s # {} /\ Max(s) = k + 1 /\ s \ {k + 1} \in SUBSET (1 .. k)
    <3>1. k + 1 \in s /\ s # {} /\ k + 1 \in Nat
      BY <2>2
    <3>2. Max(s) \in s /\ \A j \in s : j <= Max(s)
      BY <3>1, MaxIsGreatest
    <3> HIDE DEF Solves, Solved, g
    <3>3. Max(s) \in 1 .. k + 1 /\ k + 1 <= Max(s)
      BY <3>1, <3>2
    <3>4. Max(s) = k + 1
      BY <3>3
    <3>5. QED BY <3>1, <3>4
  <2>3. ASSUME NEW s \in SUBSET (1 .. k + 1)
        PROVE  g[s] \in T
    <3>1. CASE s \subseteq 1 .. k
      BY <2>1, <3>1
    <3>2. CASE ~ s \subseteq 1 .. k
      BY <1>2, <2>1, <2>2, <3>2
    <3>3. QED BY <3>1, <3>2
  <2>4. ASSUME NEW s \in SUBSET (1 .. k + 1)
        PROVE  g[s] = IF s = {} THEN base ELSE op[<<g[s \ {Max(s)}], Max(s)>>]
    <3>1. CASE s \subseteq 1 .. k
      BY <2>1, <3>1
    <3>2. CASE ~ s \subseteq 1 .. k
      BY <2>2, <3>2
    <3>3. QED BY <3>1, <3>2
  <2>5. Solves(g, k + 1)
    <3>1. g \in [SUBSET (1 .. k + 1) -> T]
      BY <2>3
    <3> HIDE DEF g
    <3>2. QED BY <3>1, <2>4
  <2>6. k + 1 \in 0 .. n
    BY <1>2
  <2>7. \E h : Solves(h, k + 1)
    BY <2>5
  <2> HIDE DEF Solves, g
  <2>8. QED BY <2>6, <2>7
<1>3. n \in Solved
  <2> HIDE DEF Solved
  <2>1. \A k \in 0 .. n : k \in Solved
    BY <1>1, <1>2, InductionUpTo
  <2>2. QED BY <2>1
<1>4. QED BY <1>3

\* A solution folds one position after the other.
LEMMA FoldSteps ==
  ASSUME NEW n \in Nat, NEW k \in 1 .. n
  PROVE  /\ 1 .. k \in SUBSET (1 .. n) /\ 1 .. k - 1 \in SUBSET (1 .. n) /\ 1 .. k # {}
         /\ Max(1 .. k) = k /\ (1 .. k) \ {k} = 1 .. k - 1
<1>1. 1 .. k \in SUBSET (1 .. n) /\ k \in 1 .. k
  OBVIOUS
<1>2. Max(1 .. k) \in 1 .. k /\ \A j \in 1 .. k : j <= Max(1 .. k)
  BY <1>1, MaxIsGreatest
<1>3. QED BY <1>1, <1>2
=============================================================================

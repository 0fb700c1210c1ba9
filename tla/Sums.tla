-------------------------------- MODULE Sums --------------------------------
(***************************************************************************)
(* What SumFunction computes for every function from a finite set to the   *)
(* natural numbers.  Induction is over sets: its hypothesis is a set and   *)
(* not an operator.                                                        *)
(***************************************************************************)
EXTENDS Functions, FiniteSetTheorems, TLAPS

-----------------------------------------------------------------------------
(* Induction *)

\* Every non-empty set of natural numbers has a least element.
LEMMA LeastNumber ==
  ASSUME NEW T, T \subseteq Nat, T # {}
  PROVE  \E x \in T : \A y \in T : ~(y < x)
  <1>1. \E x \in T : \A y \in T : ~(<<y, x>> \in OpToRel(<, Nat))
    BY NatLessThanWellFounded, WFMin
  <1> QED
    BY <1>1 DEF OpToRel

\* A set with each number all smaller ones of which it has contains them all.
LEMMA NumberInduction ==
  ASSUME NEW T, 0 \in T, \A n \in Nat : n \in T => n + 1 \in T
  PROVE  Nat \subseteq T
  <1> DEFINE C == {n \in Nat : n \notin T}
  <1>1. ASSUME C # {}
        PROVE  FALSE
    <2>1. PICK m \in C : \A k \in C : ~(k < m)
      BY <1>1, LeastNumber
    <2>2. m \in Nat /\ m # 0 /\ m - 1 \in Nat /\ m - 1 < m
      BY <2>1
    <2>3. m - 1 \in T
      BY <2>1, <2>2
    <2>4. (m - 1) + 1 \in T
      BY <2>2, <2>3
    <2> QED
      BY <2>1, <2>2, <2>4
  <1> QED
    BY <1>1

\* A set with each subset of S all strict subsets of which it has contains them all.
LEMMA SubsetInduction ==
  ASSUME NEW S, IsFiniteSet(S), NEW T,
         \A U \in SUBSET S : (\A V \in SUBSET U : V # U => V \in T) => U \in T
  PROVE  SUBSET S \subseteq T
  <1> DEFINE C == {U \in SUBSET S : U \notin T}
  <1>1. ASSUME C # {}
        PROVE  FALSE
    <2>1. C \subseteq FiniteSubsetsOf(S)
      BY FS_FiniteSubsetsOfFinite
    <2>2. \E U \in C : \A V \in C : <<V, U>> \notin StrictSubsetOrdering(S)
      <3> HIDE DEF C
      <3> QED
        BY <1>1, <2>1, FS_StrictSubsetOrderingWellFounded, WFMin
    <2>3. PICK U \in C : \A V \in C : <<V, U>> \notin StrictSubsetOrdering(S)
      BY <2>2
    <2>4. ASSUME NEW V \in SUBSET U, V # U
          PROVE  V \in T
      BY <2>3, <2>4 DEF StrictSubsetOrdering
    <2> QED
      BY <2>3, <2>4
  <1> QED
    BY <1>1

-----------------------------------------------------------------------------
(* The recursive function of the sum *)

\* The element the library takes from a set.
Pick(s) == CHOOSE x \in s : TRUE

\* g gives the sum of f over each subset of S.
GivesSums(f, S, g) ==
    g = [s \in SUBSET S |-> IF s = {} THEN 0 ELSE f[Pick(s)] + g[s \ {Pick(s)}]]

\* There is such a function.
LEMMA SumsExists ==
  ASSUME NEW S, IsFiniteSet(S), NEW f
  PROVE  \E g : GivesSums(f, S, g)
  <1> DEFINE Small(n) == {s \in SUBSET S : Cardinality(s) <= n}
             Part(n, g) == g = [s \in Small(n) |->
                  IF s = {} THEN 0 ELSE f[Pick(s)] + g[s \ {Pick(s)}]]
             T == {n \in Nat : \E g : Part(n, g)}
  <1>1. ASSUME NEW s \in SUBSET S, s # {}
        PROVE  /\ Pick(s) \in s /\ s \ {Pick(s)} \in SUBSET S
               /\ Cardinality(s) \in Nat
               /\ Cardinality(s \ {Pick(s)}) = Cardinality(s) - 1
    <2>1. Pick(s) \in s
      BY <1>1 DEF Pick
    <2>2. IsFiniteSet(s)
      BY FS_Subset
    <2> QED
      BY <2>1, <2>2, FS_RemoveElement, FS_CardinalityType
  <1>2. 0 \in T
    <2>1. Small(0) = {{}}
      <3>1. \A s \in SUBSET S : IsFiniteSet(s) /\ Cardinality(s) \in Nat
        BY FS_Subset, FS_CardinalityType
      <3> QED
        BY <3>1, FS_EmptySet
    <2>2. Part(0, [s \in Small(0) |-> 0])
      BY <2>1
    <2> QED
      BY <2>2
  <1>3. ASSUME NEW n \in Nat, n \in T
        PROVE  n + 1 \in T
    <2>1. PICK g : Part(n, g)
      BY <1>3
    <2> DEFINE h == [s \in Small(n + 1) |->
                       IF s = {} THEN 0 ELSE f[Pick(s)] + g[s \ {Pick(s)}]]
    <2>2. ASSUME NEW s \in Small(n + 1), s # {}
          PROVE  h[s \ {Pick(s)}] = g[s \ {Pick(s)}]
      <3> DEFINE r == s \ {Pick(s)}
      <3>1. r \in Small(n) /\ r \in Small(n + 1)
        BY <1>1, <2>2
      <3>2. g[r] = IF r = {} THEN 0 ELSE f[Pick(r)] + g[r \ {Pick(r)}]
        <4> HIDE DEF Small, r
        <4> QED
          BY <2>1, <3>1
      <3>3. h[r] = IF r = {} THEN 0 ELSE f[Pick(r)] + g[r \ {Pick(r)}]
        <4> HIDE DEF Small, r
        <4> QED
          BY <3>1
      <3> QED
        BY <3>2, <3>3
    <2>3. Part(n + 1, h)
      <3> HIDE DEF Small
      <3> QED
        BY <2>2
    <2>4. \E k : Part(n + 1, k)
      <3> HIDE DEF Part, h
      <3> QED
        BY <2>3
    <2> QED
      <3> HIDE DEF Part
      <3> QED
        BY <2>4
  <1>4. Cardinality(S) \in T
    <2> HIDE DEF T
    <2> QED
      BY <1>2, <1>3, NumberInduction, FS_CardinalityType
  <1>5. Small(Cardinality(S)) = SUBSET S
    BY FS_Subset
  <1> QED
    BY <1>4, <1>5 DEF GivesSums

\* SumFunction is one of them.
LEMMA SumIsIt ==
  ASSUME NEW S, IsFiniteSet(S), NEW f, DOMAIN f = S
  PROVE  \E g : GivesSums(f, S, g) /\ SumFunction(f) = g[S]
  <1> DEFINE I == CHOOSE g : GivesSums(f, S, g)
  <1>1. GivesSums(f, S, I)
    BY SumsExists
  <1>2. SumFunction(f) = I[S]
    BY DEF GivesSums, Pick, SumFunction, SumFunctionOnSet, FoldFunctionOnSet, MapThenFoldSet
  <1> QED
    BY <1>1, <1>2

\* Its steps, without the recursive function.
LEMMA SumSteps ==
  ASSUME NEW S, IsFiniteSet(S), NEW f, NEW g, GivesSums(f, S, g)
  PROVE  /\ g[{}] = 0
         /\ \A U \in SUBSET S : U # {} =>
               \E x \in U : g[U] = f[x] + g[U \ {x}]
  BY DEF GivesSums, Pick

-----------------------------------------------------------------------------
(* What it computes *)

\* The sum of natural numbers is one.
LEMMA SumType ==
  ASSUME NEW S, IsFiniteSet(S), NEW f \in [S -> Nat]
  PROVE  SumFunction(f) \in Nat
  <1>1. PICK g : GivesSums(f, S, g) /\ SumFunction(f) = g[S]
    BY SumIsIt
  <1> DEFINE T == {U \in SUBSET S : g[U] \in Nat}
  <1>2. ASSUME NEW U \in SUBSET S, \A V \in SUBSET U : V # U => V \in T
        PROVE  U \in T
    <2>1. CASE U = {}
      BY <1>1, <2>1, SumSteps
    <2>2. CASE U # {}
      <3>1. PICK x \in U : g[U] = f[x] + g[U \ {x}]
        BY <1>1, <2>2, SumSteps
      <3>2. U \ {x} \in SUBSET U /\ U \ {x} # U
        OBVIOUS
      <3>3. g[U \ {x}] \in Nat /\ f[x] \in Nat
        BY <1>2, <3>2
      <3> QED
        BY <3>1, <3>3
    <2> QED
      BY <2>1, <2>2
  <1>3. S \in T
    <2> HIDE DEF T
    <2>1. SUBSET S \subseteq T
      BY <1>2, SubsetInduction
    <2> QED
      BY <2>1
  <1> QED
    BY <1>1, <1>3

\* A sum of larger numbers is larger, and it is the same only if all numbers are.
LEMMA SumCompares ==
  ASSUME NEW S, IsFiniteSet(S), NEW f \in [S -> Nat], NEW h \in [S -> Nat],
         \A x \in S : f[x] <= h[x]
  PROVE  /\ SumFunction(f) <= SumFunction(h)
         /\ SumFunction(f) = SumFunction(h) => f = h
  <1>1. PICK g : GivesSums(f, S, g) /\ SumFunction(f) = g[S]
    BY SumIsIt
  <1>2. PICK k : GivesSums(h, S, k) /\ SumFunction(h) = k[S]
    BY SumIsIt
  <1> DEFINE T == {U \in SUBSET S :
                     /\ g[U] \in Nat /\ k[U] \in Nat /\ g[U] <= k[U]
                     /\ g[U] = k[U] => \A x \in U : f[x] = h[x]}
  <1>3. ASSUME NEW U \in SUBSET S, \A V \in SUBSET U : V # U => V \in T
        PROVE  U \in T
    <2>1. CASE U = {}
      BY <1>1, <1>2, <2>1, SumSteps
    <2>2. CASE U # {}
      <3> DEFINE x == Pick(U)
                 V == U \ {x}
      <3>1. x \in U /\ g[U] = f[x] + g[V] /\ k[U] = h[x] + k[V]
        BY <1>1, <1>2, <2>2 DEF GivesSums, Pick
      <3>2. V \in SUBSET U /\ V # U /\ U = V \cup {x}
        BY <3>1
      <3> HIDE DEF x, V
      <3>3. /\ g[V] \in Nat /\ k[V] \in Nat /\ g[V] <= k[V]
            /\ g[V] = k[V] => \A y \in V : f[y] = h[y]
        BY <1>3, <3>2
      <3>4. f[x] \in Nat /\ h[x] \in Nat /\ f[x] <= h[x]
        BY <3>1
      <3>5. /\ g[U] \in Nat /\ k[U] \in Nat /\ g[U] <= k[U]
            /\ g[U] = k[U] => f[x] = h[x] /\ g[V] = k[V]
        BY <3>1, <3>3, <3>4
      <3> QED
        BY <3>2, <3>3, <3>5
    <2> QED
      BY <2>1, <2>2
  <1>4. S \in T
    <2> HIDE DEF T
    <2>1. SUBSET S \subseteq T
      BY <1>3, SubsetInduction
    <2> QED
      BY <2>1
  <1> QED
    BY <1>1, <1>2, <1>4

\* A common factor of all numbers is one of their sum.
LEMMA SumScales ==
  ASSUME NEW S, IsFiniteSet(S), NEW f \in [S -> Nat], NEW c \in Nat
  PROVE  SumFunction([x \in S |-> c * f[x]]) = c * SumFunction(f)
  <1> DEFINE h == [x \in S |-> c * f[x]]
  <1>1. PICK g : GivesSums(f, S, g) /\ SumFunction(f) = g[S]
    BY SumIsIt
  <1>2. PICK k : GivesSums(h, S, k) /\ SumFunction(h) = k[S]
    BY SumIsIt
  <1> DEFINE T == {U \in SUBSET S : g[U] \in Nat /\ k[U] = c * g[U]}
  <1>3. ASSUME NEW U \in SUBSET S, \A V \in SUBSET U : V # U => V \in T
        PROVE  U \in T
    <2>1. CASE U = {}
      BY <1>1, <1>2, <2>1, SumSteps
    <2>2. CASE U # {}
      <3> DEFINE x == Pick(U)
                 V == U \ {x}
      <3>1. x \in U /\ g[U] = f[x] + g[V] /\ k[U] = h[x] + k[V]
        <4> HIDE DEF h
        <4> QED
          BY <1>1, <1>2, <2>2 DEF GivesSums, Pick
      <3>2. V \in SUBSET U /\ V # U
        BY <3>1
      <3> HIDE DEF x, V
      <3>3. g[V] \in Nat /\ k[V] = c * g[V]
        BY <1>3, <3>2
      <3>4. f[x] \in Nat /\ h[x] = c * f[x]
        BY <3>1
      <3>5. c * f[x] + c * g[V] = c * (f[x] + g[V])
        BY <3>3, <3>4
      <3> QED
        BY <3>1, <3>3, <3>4, <3>5
    <2> QED
      BY <2>1, <2>2
  <1>4. S \in T
    <2> HIDE DEF T
    <2>1. SUBSET S \subseteq T
      BY <1>3, SubsetInduction
    <2> QED
      BY <2>1
  <1> QED
    BY <1>1, <1>2, <1>4

=============================================================================

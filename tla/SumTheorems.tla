------------------------------ MODULE SumTheorems ------------------------------
(***************************************************************************)
(* Sums over finite sets and along sequences.  MapThenSumSet adds up in    *)
(* the order in which CHOOSE picks the elements; the lemmas say that the   *)
(* order does not show: what a sum is of a set with an element less, and   *)
(* how it follows a change of one of its terms.                            *)
(*                                                                         *)
(* They are proved by induction on the natural numbers, stated here for a  *)
(* set of numbers and not for a predicate: it rests on the least element   *)
(* that a well-founded order gives.                                        *)
(***************************************************************************)
EXTENDS FiniteSetsExt, FiniteSetTheorems, SequenceTheorems, TLAPS

-----------------------------------------------------------------------------
\* A non-empty set of natural numbers has a least element.
LEMMA Least ==
  ASSUME NEW T, T \subseteq Nat, T # {}
  PROVE  \E m \in T : \A n \in T : m <= n
<1> DEFINE R == OpToRel(<, Nat)
<1>1. IsWellFoundedOn(R, Nat)
  BY NatLessThanWellFounded
<1>2. \A m, n \in Nat : n < m => <<n, m>> \in R
  BY DEF OpToRel
<1> HIDE DEF R
<1>3. \E x \in T : \A y \in T : ~(<<y, x>> \in R)
  BY <1>1, WFMin
<1>4. PICK m \in T : \A n \in T : ~(<<n, m>> \in R)
  BY <1>3, Zenon
<1>5. ASSUME NEW n \in T PROVE ~(n < m)
  <2>1. ~(<<n, m>> \in R) /\ m \in Nat /\ n \in Nat
    BY <1>4
  <2> QED
    BY <1>2, <2>1, Zenon
<1>6. \A n \in T : m <= n
  BY <1>5
<1> QED
  BY <1>6

\* A set that has 0, and with every number the next, has all of them.
LEMMA Induction ==
  ASSUME NEW S, 0 \in S, \A n \in Nat : n \in S => n + 1 \in S
  PROVE  Nat \subseteq S
<1> SUFFICES ASSUME ~(Nat \subseteq S) PROVE FALSE
  OBVIOUS
<1> DEFINE T == Nat \ S
<1>1. T \subseteq Nat /\ T # {}
  OBVIOUS
<1>2. PICK m \in T : \A n \in T : m <= n
  BY <1>1, Least
<1>3. m # 0 /\ m - 1 \in Nat /\ m - 1 \notin T
  BY <1>2
<1>4. m - 1 \in S /\ (m - 1) + 1 = m
  BY <1>2, <1>3
<1> QED
  BY <1>2, <1>3, <1>4

-----------------------------------------------------------------------------
\* Sums over a finite set.
Over(f, S) == MapThenSumSet(LAMBDA x : f[x], S)

\* The element that is added first, and what g says of all subsets of S.
Pick(s) == CHOOSE x \in s : TRUE
Added(g, f, s) == IF s = {} THEN 0 ELSE f[Pick(s)] + g[s \ {Pick(s)}]
IsSum(g, f, S) == g = [s \in SUBSET S |-> Added(g, f, s)]

\* What MapThenSumSet stands for.
LEMMA Unfolded ==
  ASSUME NEW f, NEW S
  PROVE  Over(f, S) = (CHOOSE g : IsSum(g, f, S))[S]
BY DEF Over, MapThenSumSet, MapThenFoldSet, Pick, Added, IsSum

\* The element picked is one of the set, which is smaller without it.
LEMMA Picked ==
  ASSUME NEW S, IsFiniteSet(S), NEW s \in SUBSET S, s # {}
  PROVE  /\ Pick(s) \in s
         /\ s \ {Pick(s)} \in SUBSET S
         /\ Cardinality(s) \in Nat \ {0}
         /\ Cardinality(s \ {Pick(s)}) = Cardinality(s) - 1
<1>1. Pick(s) \in s
  BY DEF Pick
<1>2. IsFiniteSet(s)
  BY FS_Subset
<1>3. Cardinality(s) \in Nat /\ Cardinality(s) # 0
  BY <1>2, FS_CardinalityType, FS_EmptySet
<1>4. Cardinality(s \ {Pick(s)}) = Cardinality(s) - 1
  BY <1>1, <1>2, FS_RemoveElement
<1> QED
  BY <1>1, <1>3, <1>4

\* The subsets of S with at most n elements.
Small(S, n) == {s \in SUBSET S : Cardinality(s) <= n}

\* Sums of larger and larger subsets exist.
LEMMA SumGrows ==
  ASSUME NEW f, NEW S, IsFiniteSet(S), \A x \in S : f[x] \in Int, NEW n \in Nat
  PROVE  \E g \in [Small(S, n) -> Int] : \A s \in Small(S, n) : g[s] = Added(g, f, s)
<1> DEFINE Has(k) == \E g \in [Small(S, k) -> Int] : \A s \in Small(S, k) : g[s] = Added(g, f, s)
           N == {k \in Nat : Has(k)}
<1>0. \A s \in SUBSET S : Cardinality(s) \in Nat /\ (Cardinality(s) = 0 <=> s = {})
  BY FS_Subset, FS_CardinalityType, FS_EmptySet
<1>1. 0 \in N
  <2> DEFINE g == [s \in Small(S, 0) |-> 0]
  <2>1. \A s \in Small(S, 0) : s = {}
    BY <1>0 DEF Small
  <2>2. g \in [Small(S, 0) -> Int] /\ \A s \in Small(S, 0) : g[s] = Added(g, f, s)
    BY <2>1 DEF Added
  <2> QED
    BY <2>2
<1>2. ASSUME NEW k \in Nat, k \in N PROVE k + 1 \in N
  <2>1. PICK g \in [Small(S, k) -> Int] : \A s \in Small(S, k) : g[s] = Added(g, f, s)
    BY <1>2
  <2> DEFINE h == [s \in Small(S, k + 1) |-> Added(g, f, s)]
  <2>2. ASSUME NEW s \in Small(S, k + 1)
        PROVE  h[s] \in Int /\ (s = {} \/ s \ {Pick(s)} \in Small(S, k))
    <3>1. CASE s = {}
      BY <3>1 DEF Added
    <3>2. CASE s # {}
      <4>1. Pick(s) \in S /\ s \ {Pick(s)} \in Small(S, k)
        BY <3>2, Picked DEF Small
      <4> QED
        BY <3>2, <4>1 DEF Added
    <3> QED
      BY <3>1, <3>2
  <2>3. \A s \in Small(S, k) : s \in Small(S, k + 1) /\ h[s] = g[s]
    BY <1>0, <2>1 DEF Small
  <2>4. \A s \in Small(S, k + 1) : h[s] = Added(h, f, s)
    BY <2>2, <2>3 DEF Added
  <2>5. h \in [Small(S, k + 1) -> Int]
    BY <2>2
  <2> HIDE DEF h
  <2> QED
    BY <2>4, <2>5
<1> HIDE DEF Has, N
<1>3. n \in N
  BY <1>1, <1>2, Induction
<1> QED
  BY <1>3 DEF Has, N

\* The function of the sum over S exists.
LEMMA SumExists ==
  ASSUME NEW f, NEW S, IsFiniteSet(S), \A x \in S : f[x] \in Int
  PROVE  \E g \in [SUBSET S -> Int] : IsSum(g, f, S)
<1>1. Cardinality(S) \in Nat /\ Small(S, Cardinality(S)) = SUBSET S
  BY FS_CardinalityType, FS_Subset DEF Small
<1>2. PICK n \in Nat : Small(S, n) = SUBSET S
  BY <1>1
<1>3. \E g \in [Small(S, n) -> Int] : \A s \in Small(S, n) : g[s] = Added(g, f, s)
  BY SumGrows
<1>4. PICK g \in [SUBSET S -> Int] : \A s \in SUBSET S : g[s] = Added(g, f, s)
  BY <1>2, <1>3, Zenon
<1>5. IsSum(g, f, S)
  BY <1>4 DEF IsSum
<1> QED
  BY <1>5

\* Sums of functions that agree on S agree on its subsets.
LEMMA SumsAgree ==
  ASSUME NEW S, IsFiniteSet(S), NEW T, S \subseteq T,
         NEW f, NEW h, \A x \in S : f[x] = h[x],
         NEW g, NEW k, IsSum(g, f, S), IsSum(k, h, T)
  PROVE  \A s \in SUBSET S : g[s] = k[s]
<1> DEFINE N == {n \in Nat : \A s \in SUBSET S : Cardinality(s) = n => g[s] = k[s]}
<1>1. \A s \in SUBSET S : g[s] = Added(g, f, s) /\ k[s] = Added(k, h, s)
  BY DEF IsSum
<1>2. \A s \in SUBSET S : Cardinality(s) \in Nat /\ (Cardinality(s) = 0 <=> s = {})
  BY FS_Subset, FS_CardinalityType, FS_EmptySet
<1>3. 0 \in N
  BY <1>1, <1>2 DEF Added
<1>4. ASSUME NEW n \in Nat, n \in N PROVE n + 1 \in N
  <2> SUFFICES ASSUME NEW s \in SUBSET S, Cardinality(s) = n + 1 PROVE g[s] = k[s]
    OBVIOUS
  <2>1. s # {}
    BY <1>2
  <2>2. Pick(s) \in S /\ s \ {Pick(s)} \in SUBSET S /\ Cardinality(s \ {Pick(s)}) = n
    BY <2>1, Picked
  <2>3. g[s \ {Pick(s)}] = k[s \ {Pick(s)}]
    BY <1>4, <2>2
  <2>4. f[Pick(s)] = h[Pick(s)]
    BY <2>2
  <2> QED
    BY <1>1, <2>1, <2>3, <2>4 DEF Added
<1> HIDE DEF N
<1>5. Nat \subseteq N
  BY <1>3, <1>4, Induction
<1> QED
  BY <1>2, <1>5 DEF N

\* What MapThenSumSet chooses is a sum.
LEMMA SumChosen ==
  ASSUME NEW f, NEW S, IsFiniteSet(S), \A x \in S : f[x] \in Int
  PROVE  \E g \in [SUBSET S -> Int] : IsSum(g, f, S) /\ Over(f, S) = g[S]
<1>1. PICK g \in [SUBSET S -> Int] : IsSum(g, f, S)
  BY SumExists
<1> DEFINE k == CHOOSE k : IsSum(k, f, S)
<1>2. IsSum(k, f, S)
  BY <1>1
<1>3. Over(f, S) = k[S]
  BY Unfolded
<1> HIDE DEF k
<1>4. \A s \in SUBSET S : g[s] = k[s]
  BY <1>1, <1>2, SumsAgree
<1> QED
  BY <1>1, <1>3, <1>4

\* Functions that agree on a set have the same sum over it.
LEMMA SumCongruence ==
  ASSUME NEW S, IsFiniteSet(S), NEW f, NEW h,
         \A x \in S : f[x] \in Int /\ f[x] = h[x]
  PROVE  Over(f, S) = Over(h, S)
<1>1. PICK g \in [SUBSET S -> Int] : IsSum(g, f, S) /\ Over(f, S) = g[S]
  BY SumChosen
<1>2. \A x \in S : h[x] \in Int
  OBVIOUS
<1>3. PICK k \in [SUBSET S -> Int] : IsSum(k, h, S) /\ Over(h, S) = k[S]
  BY <1>2, SumChosen
<1>4. \A s \in SUBSET S : g[s] = k[s]
  BY <1>1, <1>3, SumsAgree
<1> QED
  BY <1>1, <1>3, <1>4

\* A sum is a number, and is that of the element picked first and of the rest.
LEMMA SumPick ==
  ASSUME NEW f, NEW S, IsFiniteSet(S), \A x \in S : f[x] \in Int
  PROVE  /\ Over(f, S) \in Int
         /\ S = {} => Over(f, S) = 0
         /\ S # {} => Over(f, S) = f[Pick(S)] + Over(f, S \ {Pick(S)})
<1>1. PICK g \in [SUBSET S -> Int] : IsSum(g, f, S) /\ Over(f, S) = g[S]
  BY SumChosen
<1>2. Over(f, S) \in Int /\ Over(f, S) = Added(g, f, S)
  BY <1>1 DEF IsSum
<1>3. CASE S = {}
  BY <1>2, <1>3 DEF Added
<1>4. CASE S # {}
  <2> DEFINE R == S \ {Pick(S)}
  <2>1. R \subseteq S /\ IsFiniteSet(R) /\ \A x \in R : f[x] \in Int
    BY FS_Subset
  <2> HIDE DEF R
  <2>2. PICK k \in [SUBSET R -> Int] : IsSum(k, f, R) /\ Over(f, R) = k[R]
    BY <2>1, SumChosen
  <2>3. \A s \in SUBSET R : k[s] = g[s]
    BY <1>1, <2>1, <2>2, SumsAgree
  <2>4. g[R] = Over(f, R)
    BY <2>2, <2>3
  <2> QED
    BY <1>2, <1>4, <2>4 DEF Added, R
<1> QED
  BY <1>2, <1>3, <1>4

\* A sum is that of any one element and of the rest.
LEMMA SumRemove ==
  ASSUME NEW f, NEW S, IsFiniteSet(S), \A x \in S : f[x] \in Int, NEW a \in S
  PROVE  Over(f, S) = f[a] + Over(f, S \ {a})
<1> DEFINE Splits(T) == \A b \in T : Over(f, T) = f[b] + Over(f, T \ {b})
           N == {n \in Nat : \A T \in SUBSET S : Cardinality(T) = n => Splits(T)}
<1>1. \A T \in SUBSET S : /\ IsFiniteSet(T) /\ \A x \in T : f[x] \in Int
                          /\ Cardinality(T) \in Nat
                          /\ Cardinality(T) = 0 <=> T = {}
  BY FS_Subset, FS_CardinalityType, FS_EmptySet
<1>2. 0 \in N
  BY <1>1
<1>3. ASSUME NEW n \in Nat, n \in N PROVE n + 1 \in N
  <2> SUFFICES ASSUME NEW T \in SUBSET S, Cardinality(T) = n + 1, NEW b \in T
               PROVE  Over(f, T) = f[b] + Over(f, T \ {b})
    OBVIOUS
  <2> DEFINE p == Pick(T)
             U == T \ {b}
             V == T \ {p}
             W == (T \ {b}) \ {p}
  <2>1. p \in T /\ V \in SUBSET S /\ Cardinality(V) = n
    BY Picked
  <2>2. Over(f, T) = f[p] + Over(f, V)
    BY <1>1, SumPick
  <2>3. Cardinality(U) = n /\ U \in SUBSET S
    <3>1. IsFiniteSet(T) /\ U \in SUBSET S
      BY <1>1
    <3>2. Cardinality(T \ {b}) = Cardinality(T) - 1
      BY <3>1, FS_RemoveElement
    <3> QED
      BY <3>1, <3>2
  <2>4. CASE p = b
    BY <2>2, <2>4
  <2>5. CASE p # b
    <3>1. b \in V /\ p \in U /\ V \ {b} = W /\ U \ {p} = W
      BY <2>1, <2>5
    <3>2. Splits(V) /\ Splits(U)
      BY <1>3, <2>1, <2>3
    <3> HIDE DEF p, U, V, W
    <3>3. Over(f, V) = f[b] + Over(f, W)
      BY <3>1, <3>2
    <3>4. Over(f, U) = f[p] + Over(f, W)
      BY <3>1, <3>2
    <3>5. W \in SUBSET S
      BY <3>1, <2>1
    <3>6. Over(f, W) \in Int /\ f[b] \in Int /\ f[p] \in Int
      BY <1>1, <2>1, <3>5, SumPick
    <3>7. Over(f, T) = f[b] + Over(f, U)
      BY <2>2, <3>3, <3>4, <3>6
    <3> QED
      BY <3>7 DEF U
  <2> QED
    BY <2>4, <2>5
<1> HIDE DEF N
<1>4. Cardinality(S) \in N
  BY <1>1, <1>2, <1>3, Induction
<1> QED
  BY <1>4 DEF N

\* A change of one term changes the sum by as much.
LEMMA SumUpdate ==
  ASSUME NEW S, IsFiniteSet(S), NEW f, NEW h, NEW a \in S,
         \A x \in S : f[x] \in Int /\ h[x] \in Int,
         \A x \in S \ {a} : h[x] = f[x]
  PROVE  /\ Over(f, S) \in Int /\ Over(h, S) \in Int
         /\ Over(h, S) = Over(f, S) + h[a] - f[a]
<1> DEFINE R == S \ {a}
<1>1. IsFiniteSet(R) /\ \A x \in R : f[x] \in Int /\ h[x] \in Int /\ f[x] = h[x]
  BY FS_Subset
<1>2. Over(f, S) = f[a] + Over(f, R)
  BY SumRemove
<1>3. Over(h, S) = h[a] + Over(h, R)
  BY SumRemove
<1> HIDE DEF R
<1>4. Over(f, R) = Over(h, R)
  BY <1>1, SumCongruence
<1>5. Over(f, R) \in Int
  BY <1>1, SumPick
<1>6. f[a] \in Int /\ h[a] \in Int
  OBVIOUS
<1> QED
  BY <1>2, <1>3, <1>4, <1>5, <1>6

\* Larger terms make a larger sum.
LEMMA SumMonotone ==
  ASSUME NEW S, IsFiniteSet(S), NEW f, NEW h,
         \A x \in S : f[x] \in Int /\ h[x] \in Int /\ f[x] <= h[x]
  PROVE  Over(f, S) <= Over(h, S)
<1> DEFINE N == {n \in Nat : \A T \in SUBSET S : Cardinality(T) = n => Over(f, T) <= Over(h, T)}
<1>1. \A T \in SUBSET S :
        /\ IsFiniteSet(T) /\ (\A x \in T : f[x] \in Int) /\ (\A x \in T : h[x] \in Int)
        /\ Cardinality(T) \in Nat
        /\ Cardinality(T) = 0 <=> T = {}
  BY FS_Subset, FS_CardinalityType, FS_EmptySet
<1>2. 0 \in N
  <2>1. Over(f, {}) = 0 /\ Over(h, {}) = 0
    BY <1>1, SumPick
  <2> QED
    BY <1>1, <2>1
<1>3. ASSUME NEW n \in Nat, n \in N PROVE n + 1 \in N
  <2> SUFFICES ASSUME NEW T \in SUBSET S, Cardinality(T) = n + 1
               PROVE  Over(f, T) <= Over(h, T)
    OBVIOUS
  <2>1. T # {}
    BY <1>1
  <2> DEFINE p == Pick(T)
             V == T \ {p}
  <2>2. p \in S /\ V \in SUBSET S /\ Cardinality(V) = n
    BY <2>1, Picked
  <2>3. Over(f, T) = f[p] + Over(f, V) /\ Over(h, T) = h[p] + Over(h, V)
    BY <1>1, <2>1, SumPick
  <2> HIDE DEF p, V
  <2>4. Over(f, V) <= Over(h, V)
    BY <1>3, <2>2
  <2>5. Over(f, V) \in Int /\ Over(h, V) \in Int
    BY <1>1, <2>2, SumPick
  <2>6. f[p] \in Int /\ h[p] \in Int /\ f[p] <= h[p]
    BY <2>2
  <2> QED
    BY <2>3, <2>4, <2>5, <2>6
<1> HIDE DEF N
<1>4. Cardinality(S) \in N
  BY <1>1, <1>2, <1>3, Induction
<1> QED
  BY <1>4 DEF N

\* The sum of sums of terms.
LEMMA SumPlus ==
  ASSUME NEW S, IsFiniteSet(S), NEW f, NEW g, NEW h,
         \A x \in S : f[x] \in Int /\ g[x] \in Int /\ h[x] = f[x] + g[x]
  PROVE  Over(h, S) = Over(f, S) + Over(g, S)
<1> DEFINE N == {n \in Nat : \A T \in SUBSET S :
                   Cardinality(T) = n => Over(h, T) = Over(f, T) + Over(g, T)}
<1>1. \A T \in SUBSET S :
        /\ IsFiniteSet(T) /\ (\A x \in T : f[x] \in Int) /\ (\A x \in T : g[x] \in Int)
        /\ (\A x \in T : h[x] \in Int)
        /\ Cardinality(T) \in Nat
        /\ Cardinality(T) = 0 <=> T = {}
  BY FS_Subset, FS_CardinalityType, FS_EmptySet
<1>2. 0 \in N
  <2>1. Over(f, {}) = 0 /\ Over(g, {}) = 0 /\ Over(h, {}) = 0
    BY <1>1, SumPick
  <2> SUFFICES ASSUME NEW T \in SUBSET S, Cardinality(T) = 0
               PROVE  Over(h, T) = Over(f, T) + Over(g, T)
    OBVIOUS
  <2>2. T = {}
    BY <1>1
  <2> QED
    BY <2>1, <2>2
<1>3. ASSUME NEW n \in Nat, n \in N PROVE n + 1 \in N
  <2> SUFFICES ASSUME NEW T \in SUBSET S, Cardinality(T) = n + 1
               PROVE  Over(h, T) = Over(f, T) + Over(g, T)
    OBVIOUS
  <2>1. T # {}
    BY <1>1
  <2> DEFINE p == Pick(T)
             V == T \ {p}
  <2>2. p \in S /\ V \in SUBSET S /\ Cardinality(V) = n
    BY <2>1, Picked
  <2>3. /\ Over(f, T) = f[p] + Over(f, V) /\ Over(g, T) = g[p] + Over(g, V)
        /\ Over(h, T) = h[p] + Over(h, V)
    BY <1>1, <2>1, SumPick
  <2> HIDE DEF p, V
  <2>4. Over(h, V) = Over(f, V) + Over(g, V)
    BY <1>3, <2>2
  <2>5. Over(f, V) \in Int /\ Over(g, V) \in Int
    BY <1>1, <2>2, SumPick
  <2>6. f[p] \in Int /\ g[p] \in Int /\ h[p] = f[p] + g[p]
    BY <2>2
  <2> QED
    BY <2>3, <2>4, <2>5, <2>6
<1> HIDE DEF N
<1>4. Cardinality(S) \in N
  BY <1>1, <1>2, <1>3, Induction
<1> QED
  BY <1>4 DEF N

\* Of natural numbers the sum is one too, and at least each of them.
LEMMA SumBounds ==
  ASSUME NEW S, IsFiniteSet(S), NEW f, \A x \in S : f[x] \in Nat
  PROVE  Over(f, S) \in Nat /\ \A a \in S : f[a] <= Over(f, S)
<1>0. \A x \in S : f[x] \in Int
  OBVIOUS
<1>1. ASSUME NEW T \in SUBSET S PROVE Over(f, T) \in Nat
  <2> DEFINE N == {n \in Nat : \A U \in SUBSET S : Cardinality(U) = n => Over(f, U) >= 0}
  <2>1. \A U \in SUBSET S :
          /\ IsFiniteSet(U) /\ (\A x \in U : f[x] \in Int)
          /\ Cardinality(U) \in Nat
          /\ Cardinality(U) = 0 <=> U = {}
    BY FS_Subset, FS_CardinalityType, FS_EmptySet
  <2>2. 0 \in N
    <3>1. Over(f, {}) = 0
      BY <2>1, SumPick
    <3> QED
      BY <2>1, <3>1
  <2>3. ASSUME NEW n \in Nat, n \in N PROVE n + 1 \in N
    <3> SUFFICES ASSUME NEW U \in SUBSET S, Cardinality(U) = n + 1 PROVE Over(f, U) >= 0
      OBVIOUS
    <3>1. U # {}
      BY <2>1
    <3> DEFINE V == U \ {Pick(U)}
    <3>2. f[Pick(U)] \in Nat /\ V \in SUBSET S /\ Cardinality(V) = n
      BY <3>1, Picked
    <3>3. Over(f, U) = f[Pick(U)] + Over(f, V)
      BY <2>1, <3>1, SumPick
    <3> HIDE DEF V
    <3>4. Over(f, V) >= 0 /\ Over(f, V) \in Int
      BY <2>1, <2>3, <3>2, SumPick
    <3> QED
      BY <3>2, <3>3, <3>4
  <2> HIDE DEF N
  <2>4. Cardinality(T) \in N
    BY <2>1, <2>2, <2>3, Induction
  <2>5. Over(f, T) >= 0 /\ Over(f, T) \in Int
    BY <2>1, <2>4, SumPick DEF N
  <2> QED
    BY <2>5
<1>2. ASSUME NEW a \in S PROVE f[a] <= Over(f, S)
  <2>1. Over(f, S) = f[a] + Over(f, S \ {a})
    BY <1>0, SumRemove
  <2>2. Over(f, S \ {a}) \in Nat
    BY <1>1
  <2>3. f[a] \in Nat
    OBVIOUS
  <2> QED
    BY <2>1, <2>2, <2>3
<1> QED
  BY <1>1, <1>2

-----------------------------------------------------------------------------
\* Sums along a sequence of numbers.
Along(x) == Over(x, 1..Len(x))

\* Such a sum is a number, a natural one of natural numbers, and 0 of none.
LEMMA AlongTyped ==
  ASSUME NEW x \in Seq(Int)
  PROVE  /\ IsFiniteSet(1..Len(x)) /\ Along(x) \in Int
         /\ x = <<>> => Along(x) = 0
         /\ x \in Seq(Nat) => Along(x) \in Nat
<1>1. Len(x) \in Nat /\ \A i \in 1..Len(x) : x[i] \in Int
  OBVIOUS
<1>2. IsFiniteSet(1..Len(x))
  BY <1>1, FS_Interval
<1>3. Along(x) \in Int /\ (1..Len(x) = {} => Along(x) = 0)
  BY <1>1, <1>2, SumPick DEF Along
<1>4. ASSUME x \in Seq(Nat) PROVE Along(x) \in Nat
  <2>1. \A i \in 1..Len(x) : x[i] \in Nat
    BY <1>4
  <2> QED
    BY <1>2, <2>1, SumBounds DEF Along
<1>5. x = <<>> => 1..Len(x) = {}
  OBVIOUS
<1> QED
  BY <1>2, <1>3, <1>4, <1>5

\* A term more.
LEMMA AlongAppend ==
  ASSUME NEW x \in Seq(Int), NEW v \in Int
  PROVE  Along(Append(x, v)) = Along(x) + v
<1> DEFINE y == Append(x, v)
           n == Len(x)
           S == 1..(n + 1)
<1>0. n \in Nat
  OBVIOUS
<1>1. y \in Seq(Int) /\ Len(y) = n + 1 /\ y[n + 1] = v /\ \A i \in 1..n : y[i] = x[i]
  OBVIOUS
<1> HIDE DEF y
<1>2. IsFiniteSet(S) /\ \A i \in S : y[i] \in Int
  BY <1>1, AlongTyped
<1>3. IsFiniteSet(1..n) /\ \A i \in 1..n : x[i] \in Int /\ x[i] = y[i]
  BY <1>1, AlongTyped
<1> HIDE DEF n
<1>4. PICK k \in S : k = n + 1 /\ S \ {k} = 1..n
  BY <1>0
<1> HIDE DEF S
<1>5. Over(y, S) = y[k] + Over(y, S \ {k})
  BY <1>2, SumRemove
<1>6. Over(x, 1..n) = Over(y, 1..n)
  BY <1>3, SumCongruence
<1>7. Along(x) \in Int /\ Along(x) = Over(x, 1..n) /\ Along(y) = Over(y, S)
  BY <1>1, AlongTyped DEF Along, S, n
<1>8. Along(y) = v + Along(x)
  <2>1. Over(y, S) = v + Over(y, 1..n)
    BY <1>1, <1>4, <1>5, Zenon
  <2> QED
    BY <1>6, <1>7, <2>1, Zenon
<1>9. v + Along(x) = Along(x) + v
  <2> DEFINE t == Along(x)
  <2>1. t \in Int
    BY <1>7
  <2> HIDE DEF t
  <2>2. v + t = t + v
    BY <2>1
  <2> QED
    BY <2>2 DEF t
<1> QED
  BY <1>8, <1>9 DEF y

\* The first term and the rest.
LEMMA AlongTail ==
  ASSUME NEW x \in Seq(Int), x # <<>>
  PROVE  /\ Head(x) \in Int /\ Tail(x) \in Seq(Int)
         /\ Along(x) = Head(x) + Along(Tail(x))
<1> DEFINE Splits(y) == Along(y) = Head(y) + Along(Tail(y))
           N == {n \in Nat : \A y \in Seq(Int) : Len(y) = n + 1 => Splits(y)}
<1>0. \A y \in Seq(Int) : y # <<>> => \E z \in Seq(Int), v \in Int : y = Append(z, v)
  BY SequenceEmptyOrAppend
<1>1. 0 \in N
  <2> SUFFICES ASSUME NEW y \in Seq(Int), Len(y) = 0 + 1 PROVE Splits(y)
    OBVIOUS
  <2> HIDE DEF N, Splits
  <2>0. y # <<>>
    <3>1. Len(y) # 0
      OBVIOUS
    <3>2. Len(<<>>) = 0
      BY EmptySeq
    <3> QED
      BY <3>1, <3>2, Zenon
  <2>1. PICK z \in Seq(Int), v \in Int : y = Append(z, v)
    BY <1>0, <2>0
  <2>2. z = <<>> /\ Head(y) = v /\ Tail(y) = <<>>
    BY <2>1
  <2>3. Along(y) = Along(z) + v /\ Along(z) = 0
    BY <2>1, <2>2, AlongAppend, AlongTyped
  <2>4. Along(Tail(y)) = 0
    BY <2>2, <2>3, Zenon
  <2>5. Along(y) = 0 + v
    BY <2>3, Zenon
  <2>6. Along(y) = v + 0
    BY <2>5
  <2> QED
    BY <2>2, <2>4, <2>6, Zenon DEF Splits
<1>2. ASSUME NEW n \in Nat, n \in N PROVE n + 1 \in N
  <2> SUFFICES ASSUME NEW y \in Seq(Int), Len(y) = (n + 1) + 1 PROVE Splits(y)
    OBVIOUS
  <2>0. y # <<>>
    OBVIOUS
  <2>1. PICK z \in Seq(Int), v \in Int : y = Append(z, v)
    BY <1>0, <2>0
  <2>2. Len(z) = n + 1 /\ z # <<>>
    BY <2>1
  <2>3. Head(y) = Head(z) /\ Tail(y) = Append(Tail(z), v) /\ Tail(z) \in Seq(Int) /\ Head(z) \in Int
    BY <2>1, <2>2, SMTT(30)
  <2>4. Splits(z)
    BY <1>2, <2>2
  <2>5. Along(y) = Along(z) + v /\ Along(Tail(y)) = Along(Tail(z)) + v
    BY <2>1, <2>3, AlongAppend
  <2>6. Along(z) \in Int /\ Along(Tail(z)) \in Int
    BY <2>3, AlongTyped
  <2> QED
    BY <2>3, <2>4, <2>5, <2>6
<1> HIDE DEF N
<1>3. Nat \subseteq N
  BY <1>1, <1>2, Induction
<1>4. PICK n \in Nat : Len(x) = n + 1
  <2>1. Len(x) \in Nat /\ Len(x) # 0
    OBVIOUS
  <2>2. Len(x) - 1 \in Nat /\ Len(x) = (Len(x) - 1) + 1
    BY <2>1
  <2> QED
    BY <2>2
<1>5. Splits(x)
  BY <1>3, <1>4 DEF N
<1> QED
  BY <1>5

\* What f makes of the elements of a list, and the sum of it.
Each(f, list) == [i \in 1..Len(list) |-> f[list[i]]]

\* It is a list of numbers, the sum of none is 0, and of natural numbers one.
LEMMA EachTyped ==
  ASSUME NEW S, NEW f \in [S -> Int], NEW list \in Seq(S)
  PROVE  /\ Each(f, list) \in Seq(Int) /\ Along(Each(f, list)) \in Int
         /\ list = <<>> => Along(Each(f, list)) = 0
         /\ f \in [S -> Nat] => Along(Each(f, list)) \in Nat
<1> DEFINE x == Each(f, list)
<1>1. x \in Seq(Int) /\ Len(x) = Len(list)
  BY DEF Each
<1>2. list = <<>> => x = <<>>
  BY <1>1
<1>3. f \in [S -> Nat] => x \in Seq(Nat)
  BY DEF Each
<1> HIDE DEF x
<1>4. Along(x) \in Int /\ (x = <<>> => Along(x) = 0) /\ (x \in Seq(Nat) => Along(x) \in Nat)
  BY <1>1, AlongTyped
<1> QED
  BY <1>1, <1>2, <1>3, <1>4, Zenon DEF x

\* An element more.
LEMMA EachAppend ==
  ASSUME NEW S, NEW f \in [S -> Int], NEW list \in Seq(S), NEW v \in S
  PROVE  Along(Each(f, Append(list, v))) = Along(Each(f, list)) + f[v]
<1> DEFINE x == Each(f, list)
           y == Each(f, Append(list, v))
<1>1. x \in Seq(Int) /\ f[v] \in Int
  BY EachTyped
<1>2. y = Append(x, f[v])
  <2>1. Append(list, v) \in Seq(S) /\ Len(Append(list, v)) = Len(list) + 1
    OBVIOUS
  <2>2. y \in Seq(Int) /\ Len(y) = Len(list) + 1 /\ Len(x) = Len(list)
    BY <2>1, EachTyped DEF Each
  <2>3. Append(x, f[v]) \in Seq(Int) /\ Len(Append(x, f[v])) = Len(list) + 1
    BY <1>1, <2>2
  <2>4. ASSUME NEW i \in 1..Len(y) PROVE y[i] = Append(x, f[v])[i]
    <3>1. CASE i = Len(list) + 1
      BY <1>1, <2>1, <2>2, <3>1 DEF Each
    <3>2. CASE i \in 1..Len(list)
      BY <1>1, <2>1, <2>2, <3>2 DEF Each
    <3> QED
      BY <2>2, <3>1, <3>2
  <2> HIDE DEF x, y
  <2> QED
    BY <2>2, <2>3, <2>4, SeqEqual
<1>3. Along(Append(x, f[v])) = Along(x) + f[v]
  <2> HIDE DEF x
  <2> QED
    BY <1>1, AlongAppend
<1> QED
  BY <1>2, <1>3, Zenon

\* The first element and the rest.
LEMMA EachTail ==
  ASSUME NEW S, NEW f \in [S -> Int], NEW list \in Seq(S), list # <<>>
  PROVE  /\ Head(list) \in S /\ Tail(list) \in Seq(S)
         /\ Along(Each(f, list)) = f[Head(list)] + Along(Each(f, Tail(list)))
<1> DEFINE x == Each(f, list)
           y == Each(f, Tail(list))
<1>1. Head(list) \in S /\ Tail(list) \in Seq(S) /\ Len(Tail(list)) = Len(list) - 1
  OBVIOUS
<1>2. x \in Seq(Int) /\ y \in Seq(Int) /\ Len(x) = Len(list) /\ Len(y) = Len(list) - 1
  BY <1>1, EachTyped DEF Each
<1>3. x # <<>> /\ Head(x) = f[Head(list)]
  BY <1>2 DEF Each
<1>4. y = Tail(x)
  <2>1. Tail(x) \in Seq(Int) /\ Len(Tail(x)) = Len(list) - 1
    BY <1>2, <1>3
  <2>2. ASSUME NEW i \in 1..Len(y) PROVE y[i] = Tail(x)[i]
    <3>1. i + 1 \in 1..Len(list) /\ Tail(list)[i] = list[i + 1] /\ Tail(x)[i] = x[i + 1]
      BY <1>1, <1>2, <1>3, SMTT(30)
    <3> QED
      BY <1>1, <1>2, <3>1 DEF Each
  <2> HIDE DEF x, y
  <2> QED
    BY <1>2, <2>1, <2>2, SeqEqual
<1>5. Along(x) = Head(x) + Along(Tail(x))
  <2> HIDE DEF x
  <2> QED
    BY <1>2, <1>3, AlongTail
<1> QED
  BY <1>1, <1>3, <1>4, <1>5, Zenon
=============================================================================

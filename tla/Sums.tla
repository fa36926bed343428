--------------------------------- MODULE Sums ---------------------------------
(****************************************************************************)
(* Sums over finite sets, as the community modules define them, and loops,  *)
(* with the facts about them that proofs about quantities need.             *)
(*                                                                          *)
(* SumFunctionOnSet(f, S) is the value at S of a recursive function on the  *)
(* subsets of S that takes one element away after the other.  Each fact is  *)
(* proved by looking at a smallest subset for which it would not hold.      *)
(****************************************************************************)
EXTENDS Integers, FiniteSets, Functions, FiniteSetTheorems, WellFoundedInduction, TLAPS

\* A set of natural numbers has a least one.
LEMMA LeastNat ==
  ASSUME NEW S \in SUBSET Nat, S # {}
  PROVE  \E m \in S : \A n \in S : m <= n
<1>1. PICK m \in S : \A n \in S : <<n, m>> \notin OpToRel(<, Nat)
  BY NatLessThanWellFounded, WFMin, Zenon
<1>2. \A n \in S : n \in Nat /\ m \in Nat /\ ~(n < m)
  BY <1>1 DEF OpToRel
<1> QED
  BY <1>2

\* Round after round, everything up to N is reached.
LEMMA Rounds ==
  ASSUME NEW N \in Nat, NEW P, 0 \in P, \A n \in 1..N : n - 1 \in P => n \in P
  PROVE  0..N \subseteq P
<1> DEFINE B == (0..N) \ P
<1>1. SUFFICES ASSUME B # {} PROVE FALSE
  OBVIOUS
<1>2. B \in SUBSET Nat
  OBVIOUS
<1>3. PICK m \in B : \A n \in B : m <= n
  <2> HIDE DEF B
  <2> QED
    BY <1>1, <1>2, LeastNat
<1>4. m \in 1..N /\ m \notin P /\ m - 1 \in 0..N
  BY <1>3
<1>5. m - 1 \notin B
  BY <1>3, <1>4
<1> QED
  BY <1>4, <1>5

\* The element that is taken away first.
Pick(T) == CHOOSE x \in T : TRUE

\* g sums up f on every subset of S.
SumsUp(f, S, g) ==
  g = [T \in SUBSET S |-> IF T = {} THEN 0 ELSE f[Pick(T)] + g[T \ {Pick(T)}]]

\* Among some subsets of a finite set there is one with no smaller one.
LEMMA SmallestSubset ==
  ASSUME NEW S, IsFiniteSet(S), NEW B \in SUBSET (SUBSET S), B # {}
  PROVE  \E U \in B : \A V \in SUBSET U : V # U => V \notin B
<1>1. IsWellFoundedOn(StrictSubsetOrdering(S), SUBSET S)
  BY FS_StrictSubsetOrderingWellFounded, FS_FiniteSubsetsOfFinite
<1>2. PICK U \in B : \A V \in B : <<V, U>> \notin StrictSubsetOrdering(S)
  BY <1>1, WFMin
<1>3. ASSUME NEW V \in SUBSET U, V # U
      PROVE  V \notin B
  BY <1>2, <1>3 DEF StrictSubsetOrdering
<1> QED
  BY <1>2, <1>3

\* Finitely many arguments have finitely many values.
LEMMA ValuesFinite ==
  ASSUME NEW f, NEW S, IsFiniteSet(S)
  PROVE  IsFiniteSet({f[x] : x \in S})
<1> DEFINE T == {f[x] : x \in S}
           g == [x \in S |-> f[x]]
<1>1. g \in Surjection(S, T)
  BY DEF Surjection
<1> HIDE DEF g
<1> QED
  BY <1>1, FS_Surjection

\* A finite set of natural numbers has a largest one.
LEMMA LargestNat ==
  ASSUME NEW S \in SUBSET Nat, IsFiniteSet(S), S # {}
  PROVE  \E m \in S : \A n \in S : n <= m
<1> DEFINE Tops(U) == {m \in U : \A n \in U : n <= m}
           B == {U \in SUBSET S : U # {} /\ Tops(U) = {}}
<1>1. SUFFICES ASSUME B # {} PROVE FALSE
  <2>1. S \notin B => Tops(S) # {}
    OBVIOUS
  <2> QED
    BY <2>1
<1>2. PICK U \in B : \A V \in SUBSET U : V # U => V \notin B
  <2> HIDE DEF B
  <2>1. B \in SUBSET (SUBSET S)
    BY DEF B
  <2> QED
    BY <1>1, <2>1, SmallestSubset
<1>3. PICK e \in U : TRUE
  BY <1>2
<1>4. U \in SUBSET Nat /\ Tops(U) = {}
  BY <1>2
<1>5. CASE U = {e}
  <2>1. e \in Tops(U)
    BY <1>4, <1>5
  <2> QED
    BY <1>4, <2>1
<1>6. CASE U # {e}
  <2>1. U \ {e} # {} /\ U \ {e} \notin B /\ U \ {e} \in SUBSET S
    BY <1>2, <1>3, <1>6
  <2>2. PICK m \in U \ {e} : \A n \in U \ {e} : n <= m
    BY <2>1
  <2>3. m \in Tops(U) \/ e \in Tops(U)
    <3>1. CASE e <= m
      BY <1>4, <2>2, <3>1
    <3>2. CASE ~(e <= m)
      <4>1. \A n \in U : n <= e
        BY <1>3, <1>4, <2>2, <3>2
      <4> QED
        BY <1>3, <4>1
    <3> QED
      BY <3>1, <3>2
  <2> QED
    BY <1>4, <2>3
<1> QED
  BY <1>5, <1>6

\* A loop of N rounds, whose round n makes step[n][x] of x, comes to its end.
HasLoop(N, X, start, step) ==
  \E f \in [0..N -> X] :
    f[0] = start /\ \A n \in 1..N : f[n] = step[n][f[n - 1]]

LEMMA LoopEnds ==
  ASSUME NEW N \in Nat, NEW X, NEW start \in X, NEW step \in [1..N -> [X -> X]]
  PROVE  HasLoop(N, X, start, step)
<1> DEFINE Runs(n, g) == /\ g \in [0..n -> X] /\ g[0] = start
                         /\ \A k \in 1..n : g[k] = step[k][g[k - 1]]
           Stops(n) == \E g : Runs(n, g)
           B == {n \in 0..N : ~Stops(n)}
<1>1. ASSUME B # {}
      PROVE  FALSE
  <2>1. B \in SUBSET Nat
    OBVIOUS
  <2>2. PICK m \in B : \A n \in B : m <= n
    <3> HIDE DEF B
    <3> QED
      BY <1>1, <2>1, LeastNat
  <2>3. m \in 0..N /\ ~Stops(m)
    BY <2>2
  <2>4. Stops(0)
    <3> DEFINE g == [n \in 0..0 |-> start]
    <3>1. g \in [0..0 -> X] /\ g[0] = start /\ 1..0 = {}
      OBVIOUS
    <3> HIDE DEF g
    <3>2. Runs(0, g)
      BY <3>1
    <3> QED
      BY <3>2
  <2>5. m \in 1..N /\ m - 1 \in 0..N /\ Stops(m - 1)
    <3> HIDE DEF Stops
    <3> QED
      BY <2>2, <2>3, <2>4
  <2>6. PICK g : Runs(m - 1, g)
    BY <2>5
  <2> DEFINE h == [n \in 0..m |-> IF n = m THEN step[m][g[m - 1]] ELSE g[n]]
  <2>7. g[m - 1] \in X /\ step[m][g[m - 1]] \in X
    <3>1. g[m - 1] \in X
      BY <2>5, <2>6
    <3>2. step[m] \in [X -> X]
      BY <2>5
    <3> QED
      BY <3>1, <3>2
  <2>8. h \in [0..m -> X]
    <3>1. \A n \in 0..m : n # m => n \in 0..(m - 1)
      BY <2>5
    <3>2. \A n \in 0..m : n # m => g[n] \in X
      BY <2>6, <3>1
    <3> QED
      BY <2>7, <3>2
  <2>9. h[0] = start
    BY <2>5, <2>6
  <2>10. ASSUME NEW k \in 1..m
         PROVE  h[k] = step[k][h[k - 1]]
    <3>1. k \in 0..m /\ k - 1 \in 0..m /\ k - 1 # m
      BY <2>5
    <3>2. h[k - 1] = g[k - 1]
      BY <3>1
    <3>3. CASE k = m
      BY <3>1, <3>2, <3>3
    <3>4. CASE k # m
      <4>1. k \in 1..(m - 1)
        BY <2>5, <3>4
      <4> QED
        BY <2>6, <3>1, <3>2, <3>4, <4>1
    <3> QED
      BY <3>3, <3>4
  <2>11. Runs(m, h)
    BY <2>8, <2>9, <2>10
  <2>12. Stops(m)
    BY <2>11
  <2> QED
    BY <2>3, <2>12
<1>2. PICK f : Runs(N, f)
  <2>1. N \in 0..N /\ N \notin B
    <3>1. N \in 0..N
      OBVIOUS
    <3> HIDE DEF B
    <3> QED
      BY <1>1, <3>1
  <2>2. Stops(N)
    <3> HIDE DEF Stops
    <3> QED
      BY <2>1
  <2> HIDE DEF Runs
  <2> QED
    BY <2>2
<1> QED
  BY <1>2 DEF HasLoop

\* The same of a loop that counts.
LEMMA LoopExists ==
  ASSUME NEW N \in Nat, NEW start \in Nat, NEW step \in [1..N -> [Nat -> Nat]]
  PROVE  \E f \in [0..N -> Nat] :
           f[0] = start /\ \A n \in 1..N : f[n] = step[n][f[n - 1]]
<1>1. HasLoop(N, Nat, start, step)
  BY LoopEnds
<1> QED
  BY <1>1 DEF HasLoop

\* What is picked is an element, and leaves a smaller set.
LEMMA PickTakes ==
  ASSUME NEW T, T # {}
  PROVE  /\ Pick(T) \in T
         /\ T \ {Pick(T)} \in SUBSET T /\ T \ {Pick(T)} # T
  BY DEF Pick

\* Sums on a set and on a larger one agree.
LEMMA SumsAgree ==
  ASSUME NEW f, NEW S, IsFiniteSet(S), NEW T \in SUBSET S,
         NEW g, SumsUp(f, S, g), NEW h, SumsUp(f, T, h)
  PROVE  g[T] = h[T]
<1> DEFINE B == {U \in SUBSET T : g[U] # h[U]}
<1>1. SUFFICES ASSUME B # {} PROVE FALSE
  OBVIOUS
<1>2. IsFiniteSet(T)
  BY FS_Subset
<1>3. PICK U \in B : \A V \in SUBSET U : V # U => V \notin B
  <2>1. B \in SUBSET (SUBSET T)
    OBVIOUS
  <2> HIDE DEF B
  <2> QED
    BY <1>1, <1>2, <2>1, SmallestSubset
<1>4. U \in SUBSET T /\ U \in SUBSET S
  OBVIOUS
<1>5. g[U] = IF U = {} THEN 0 ELSE f[Pick(U)] + g[U \ {Pick(U)}]
  BY <1>4 DEF SumsUp
<1>6. h[U] = IF U = {} THEN 0 ELSE f[Pick(U)] + h[U \ {Pick(U)}]
  BY <1>4 DEF SumsUp
<1>7. CASE U = {}
  BY <1>5, <1>6, <1>7
<1>8. CASE U # {}
  <2>1. g[U \ {Pick(U)}] = h[U \ {Pick(U)}]
    BY <1>3, <1>4, <1>8, PickTakes
  <2> QED
    BY <1>5, <1>6, <1>8, <2>1
<1> QED
  BY <1>7, <1>8

\* The sum, as the recursive function that there is.
LEMMA SumIsValue ==
  ASSUME NEW f, NEW S
  PROVE  SumFunctionOnSet(f, S) = (CHOOSE g : SumsUp(f, S, g))[S]
  BY DEF SumFunctionOnSet, FoldFunctionOnSet, MapThenFoldSet, SumsUp, Pick

\* There is such a function for every finite set.
LEMMA SumsExist ==
  ASSUME NEW f, NEW S, IsFiniteSet(S)
  PROVE  \E g : SumsUp(f, S, g)
<1> DEFINE B == {U \in SUBSET S : ~ \E g : SumsUp(f, U, g)}
<1>1. SUFFICES ASSUME B # {} PROVE FALSE
  OBVIOUS
<1>2. PICK U \in B : \A V \in SUBSET U : V # U => V \notin B
  <2>1. B \in SUBSET (SUBSET S)
    OBVIOUS
  <2> HIDE DEF B
  <2> QED
    BY <1>1, <2>1, SmallestSubset
<1> DEFINE Value(V) == (CHOOSE g : SumsUp(f, V, g))[V]
           h == [T \in SUBSET U |->
                   IF T = {} THEN 0 ELSE f[Pick(T)] + Value(T \ {Pick(T)})]
<1>3. ASSUME NEW V \in SUBSET U, V # U
      PROVE  h[V] = Value(V)
  <2>1. IsFiniteSet(V) /\ V \in SUBSET S
    BY FS_Subset
  <2>2. PICK g : SumsUp(f, V, g)
    BY <1>2, <1>3, <2>1
  <2>3. SumsUp(f, V, CHOOSE k : SumsUp(f, V, k))
    BY <2>2
  <2> DEFINE c == CHOOSE k : SumsUp(f, V, k)
  <2>4. c[V] = IF V = {} THEN 0 ELSE f[Pick(V)] + c[V \ {Pick(V)}]
    <3> HIDE DEF c
    <3>1. SumsUp(f, V, c)
      BY <2>3 DEF c
    <3> QED
      BY <3>1 DEF SumsUp
  <2>5. CASE V = {}
    BY <2>4, <2>5
  <2>6. CASE V # {}
    <3> DEFINE W == V \ {Pick(V)}
    <3>1. W \in SUBSET V /\ W \in SUBSET U /\ W # U /\ W \in SUBSET S
      BY <2>1, <2>6, PickTakes
    <3>2. \E k : SumsUp(f, W, k)
      BY <1>2, <3>1
    <3>3. SumsUp(f, W, CHOOSE k : SumsUp(f, W, k))
      BY <3>2
    <3>4. c[W] = Value(W)
      <4> DEFINE d == CHOOSE k : SumsUp(f, W, k)
      <4>1. SumsUp(f, V, c) /\ SumsUp(f, W, d)
        BY <2>3, <3>3
      <4> HIDE DEF c, d
      <4>2. c[W] = d[W]
        BY <4>1, <3>1, <2>1, SumsAgree
      <4> QED
        BY <4>2 DEF d
    <3> HIDE DEF W, Value, c
    <3>5. h[V] = f[Pick(V)] + Value(W)
      BY <2>6 DEF W
    <3>6. c[V] = f[Pick(V)] + c[W]
      BY <2>4, <2>6 DEF W
    <3> QED
      BY <3>4, <3>5, <3>6 DEF Value, c
  <2> QED
    BY <2>5, <2>6
<1>4. SumsUp(f, U, h)
  <2>1. ASSUME NEW T \in SUBSET U, T # {}
        PROVE  h[T \ {Pick(T)}] = Value(T \ {Pick(T)})
    BY <1>3, <2>1, PickTakes
  <2> HIDE DEF Value
  <2> QED
    BY <2>1 DEF SumsUp
<1> QED
  BY <1>4

\* A sum of nothing is zero; another one is an element's value and the rest.
LEMMA SumPicks ==
  ASSUME NEW f, NEW S, IsFiniteSet(S)
  PROVE  SumFunctionOnSet(f, S) =
           IF S = {} THEN 0
           ELSE f[Pick(S)] + SumFunctionOnSet(f, S \ {Pick(S)})
<1> DEFINE c == CHOOSE g : SumsUp(f, S, g)
           T == S \ {Pick(S)}
           d == CHOOSE g : SumsUp(f, T, g)
<1>1. IsFiniteSet(T) /\ T \in SUBSET S
  BY FS_Subset
<1>2. SumsUp(f, S, c) /\ SumsUp(f, T, d)
  BY <1>1, SumsExist
<1>3. SumFunctionOnSet(f, S) = c[S] /\ SumFunctionOnSet(f, T) = d[T]
  BY SumIsValue
<1> HIDE DEF c, d
<1>4. c[T] = d[T]
  BY <1>1, <1>2, SumsAgree
<1>5. c[S] = IF S = {} THEN 0 ELSE f[Pick(S)] + c[T]
  BY <1>2 DEF SumsUp
<1> QED
  BY <1>3, <1>4, <1>5

-----------------------------------------------------------------------------
(* What proofs use *)

\* The sum of nothing.
LEMMA SumEmpty ==
  ASSUME NEW f
  PROVE  SumFunctionOnSet(f, {}) = 0
  BY SumPicks, FS_EmptySet

\* Sums of whole numbers are whole numbers.
LEMMA SumInt ==
  ASSUME NEW f, NEW S, IsFiniteSet(S), \A x \in S : f[x] \in Int
  PROVE  SumFunctionOnSet(f, S) \in Int
<1> DEFINE B == {U \in SUBSET S : SumFunctionOnSet(f, U) \notin Int}
<1>1. SUFFICES ASSUME B # {} PROVE FALSE
  OBVIOUS
<1>2. PICK U \in B : \A V \in SUBSET U : V # U => V \notin B
  <2>1. B \in SUBSET (SUBSET S)
    OBVIOUS
  <2> HIDE DEF B
  <2> QED
    BY <1>1, <2>1, SmallestSubset
<1>3. U \in SUBSET S /\ IsFiniteSet(U)
  BY FS_Subset
<1>4. CASE U = {}
  BY <1>4, SumEmpty
<1>5. CASE U # {}
  <2> DEFINE V == U \ {Pick(U)}
  <2>1. V \in SUBSET U /\ V # U /\ Pick(U) \in S
    BY <1>3, <1>5, PickTakes
  <2>2. SumFunctionOnSet(f, V) \in Int /\ f[Pick(U)] \in Int
    BY <1>2, <1>3, <2>1
  <2> HIDE DEF V
  <2>3. SumFunctionOnSet(f, U) = f[Pick(U)] + SumFunctionOnSet(f, V)
    BY <1>3, <1>5, SumPicks DEF V
  <2> QED
    BY <2>2, <2>3
<1> QED
  BY <1>4, <1>5

\* Any element may be taken away first.
LEMMA SumTakes ==
  ASSUME NEW f, NEW S, IsFiniteSet(S), \A x \in S : f[x] \in Int, NEW e \in S
  PROVE  SumFunctionOnSet(f, S) = f[e] + SumFunctionOnSet(f, S \ {e})
<1> DEFINE Sum(U) == SumFunctionOnSet(f, U)
           B == {U \in SUBSET S : \E x \in U : Sum(U) # f[x] + Sum(U \ {x})}
<1>1. SUFFICES ASSUME B # {} PROVE FALSE
  OBVIOUS
<1>2. PICK U \in B : \A V \in SUBSET U : V # U => V \notin B
  <2>1. B \in SUBSET (SUBSET S)
    OBVIOUS
  <2> HIDE DEF B
  <2> QED
    BY <1>1, <2>1, SmallestSubset
<1>3. PICK x \in U : Sum(U) # f[x] + Sum(U \ {x})
  OBVIOUS
<1> DEFINE p == Pick(U)
<1>4. U \in SUBSET S /\ p \in U
  BY PickTakes
<1>5. \A V \in SUBSET U : IsFiniteSet(V) /\ Sum(V) \in Int
  BY <1>4, FS_Subset, SumInt
<1>6. IsFiniteSet(U)
  BY <1>5
<1>7. Sum(U) = f[p] + Sum(U \ {p})
  BY <1>3, <1>6, SumPicks
<1>8. x # p
  BY <1>3, <1>7
<1> DEFINE V == U \ {p}
           W == U \ {x}
<1>9. /\ V \in SUBSET U /\ V # U /\ x \in V
      /\ W \in SUBSET U /\ W # U /\ p \in W
      /\ V \ {x} = W \ {p} /\ V \ {x} \in SUBSET U
  BY <1>4, <1>8
<1>10. Sum(V) = f[x] + Sum(V \ {x}) /\ Sum(W) = f[p] + Sum(W \ {p})
  BY <1>2, <1>4, <1>9
<1>11. f[x] \in Int /\ f[p] \in Int /\ Sum(V \ {x}) \in Int
  BY <1>4, <1>5, <1>9
<1>12. Sum(U) = f[p] + Sum(V) /\ Sum(U) # f[x] + Sum(W)
  BY <1>3, <1>7
<1>13. Sum(W) = f[p] + Sum(V \ {x})
  BY <1>9, <1>10
<1> HIDE DEF Sum, V, W, p
<1> QED
  BY <1>10, <1>11, <1>12, <1>13

\* Functions with the same values have the same sum.
LEMMA SumSame ==
  ASSUME NEW f, NEW h, NEW S, IsFiniteSet(S), \A x \in S : f[x] = h[x]
  PROVE  SumFunctionOnSet(f, S) = SumFunctionOnSet(h, S)
<1> DEFINE B == {U \in SUBSET S : SumFunctionOnSet(f, U) # SumFunctionOnSet(h, U)}
<1>1. SUFFICES ASSUME B # {} PROVE FALSE
  OBVIOUS
<1>2. PICK U \in B : \A V \in SUBSET U : V # U => V \notin B
  <2>1. B \in SUBSET (SUBSET S)
    OBVIOUS
  <2> HIDE DEF B
  <2> QED
    BY <1>1, <2>1, SmallestSubset
<1>3. U \in SUBSET S /\ IsFiniteSet(U)
  BY FS_Subset
<1>4. CASE U = {}
  BY <1>4, SumEmpty
<1>5. CASE U # {}
  <2> DEFINE V == U \ {Pick(U)}
  <2>1. V \in SUBSET U /\ V # U /\ Pick(U) \in S
    BY <1>3, <1>5, PickTakes
  <2>2. SumFunctionOnSet(f, V) = SumFunctionOnSet(h, V) /\ f[Pick(U)] = h[Pick(U)]
    BY <1>2, <1>3, <2>1
  <2> QED
    BY <1>3, <1>5, <2>2, SumPicks
<1> QED
  BY <1>4, <1>5

\* One more element adds its value.
LEMMA SumAdds ==
  ASSUME NEW f, NEW S, IsFiniteSet(S), \A x \in S : f[x] \in Int,
         NEW e, e \notin S, f[e] \in Int
  PROVE  SumFunctionOnSet(f, S \cup {e}) = SumFunctionOnSet(f, S) + f[e]
<1> DEFINE T == S \cup {e}
<1>1. IsFiniteSet(T) /\ e \in T /\ T \ {e} = S /\ \A x \in T : f[x] \in Int
  BY FS_AddElement
<1>2. SumFunctionOnSet(f, S) \in Int
  BY SumInt
<1>3. SumFunctionOnSet(f, T) = f[e] + SumFunctionOnSet(f, T \ {e})
  <2> HIDE DEF T
  <2> QED
    BY <1>1, SumTakes
<1>4. SumFunctionOnSet(f, T) = f[e] + SumFunctionOnSet(f, S)
  BY <1>1, <1>3
<1> QED
  BY <1>2, <1>4

\* A sum moves by what one of its terms moves by.
LEMMA SumMoves ==
  ASSUME NEW f, NEW h, NEW S, IsFiniteSet(S), NEW e \in S,
         \A x \in S : f[x] \in Int /\ h[x] \in Int,
         \A x \in S \ {e} : h[x] = f[x]
  PROVE  SumFunctionOnSet(h, S) = SumFunctionOnSet(f, S) + h[e] - f[e]
<1> DEFINE T == S \ {e}
<1>1. IsFiniteSet(T) /\ T \in SUBSET S
  BY FS_Subset
<1>2. SumFunctionOnSet(f, T) = SumFunctionOnSet(h, T)
  BY <1>1, SumSame
<1>3. SumFunctionOnSet(f, T) \in Int
  BY <1>1, SumInt
<1>4. /\ SumFunctionOnSet(f, S) = f[e] + SumFunctionOnSet(f, T)
      /\ SumFunctionOnSet(h, S) = h[e] + SumFunctionOnSet(h, T)
  BY SumTakes
<1> QED
  BY <1>2, <1>3, <1>4

\* Sums of natural numbers are natural numbers, and grow with the set.
LEMMA SumNat ==
  ASSUME NEW f, NEW S, IsFiniteSet(S), \A x \in S : f[x] \in Nat
  PROVE  SumFunctionOnSet(f, S) \in Nat
<1> DEFINE B == {U \in SUBSET S : SumFunctionOnSet(f, U) \notin Nat}
<1>1. SUFFICES ASSUME B # {} PROVE FALSE
  OBVIOUS
<1>2. PICK U \in B : \A V \in SUBSET U : V # U => V \notin B
  <2>1. B \in SUBSET (SUBSET S)
    OBVIOUS
  <2> HIDE DEF B
  <2> QED
    BY <1>1, <2>1, SmallestSubset
<1>3. U \in SUBSET S /\ IsFiniteSet(U)
  BY FS_Subset
<1>4. CASE U = {}
  BY <1>4, SumEmpty
<1>5. CASE U # {}
  <2> DEFINE V == U \ {Pick(U)}
  <2>1. V \in SUBSET U /\ V # U /\ Pick(U) \in S
    BY <1>3, <1>5, PickTakes
  <2>2. SumFunctionOnSet(f, V) \in Nat /\ f[Pick(U)] \in Nat
    BY <1>2, <1>3, <2>1
  <2> HIDE DEF V
  <2>3. SumFunctionOnSet(f, U) = f[Pick(U)] + SumFunctionOnSet(f, V)
    BY <1>3, <1>5, SumPicks DEF V
  <2> QED
    BY <2>2, <2>3
<1> QED
  BY <1>4, <1>5

\* A sum of zeros is zero.
LEMMA SumOfZeros ==
  ASSUME NEW f, NEW S, IsFiniteSet(S), \A x \in S : f[x] = 0
  PROVE  SumFunctionOnSet(f, S) = 0
<1> DEFINE B == {U \in SUBSET S : SumFunctionOnSet(f, U) # 0}
<1>1. SUFFICES ASSUME B # {} PROVE FALSE
  OBVIOUS
<1>2. PICK U \in B : \A V \in SUBSET U : V # U => V \notin B
  <2>1. B \in SUBSET (SUBSET S)
    OBVIOUS
  <2> HIDE DEF B
  <2> QED
    BY <1>1, <2>1, SmallestSubset
<1>3. U \in SUBSET S /\ IsFiniteSet(U)
  BY FS_Subset
<1>4. CASE U = {}
  BY <1>4, SumEmpty
<1>5. CASE U # {}
  <2> DEFINE V == U \ {Pick(U)}
  <2>1. V \in SUBSET U /\ V # U /\ Pick(U) \in S
    BY <1>3, <1>5, PickTakes
  <2>2. SumFunctionOnSet(f, V) = 0 /\ f[Pick(U)] = 0
    BY <1>2, <1>3, <2>1
  <2>3. SumFunctionOnSet(f, U) = f[Pick(U)] + SumFunctionOnSet(f, V)
    BY <1>3, <1>5, SumPicks
  <2> HIDE DEF V
  <2> QED
    BY <2>2, <2>3
<1> QED
  BY <1>4, <1>5

\* The sum over a set with one element is its value.
LEMMA SumOfOne ==
  ASSUME NEW f, NEW e, f[e] \in Int
  PROVE  SumFunctionOnSet(f, {e}) = f[e]
<1>1. IsFiniteSet({}) /\ {} \cup {e} = {e}
  BY FS_EmptySet
<1>2. SumFunctionOnSet(f, {} \cup {e}) = SumFunctionOnSet(f, {}) + f[e]
  BY <1>1, SumAdds
<1> QED
  BY <1>1, <1>2, SumEmpty

\* The sum over two elements is the sum of their values.
LEMMA SumOfTwo ==
  ASSUME NEW f, NEW d, NEW e, d # e, f[d] \in Int, f[e] \in Int
  PROVE  SumFunctionOnSet(f, {d, e}) = f[d] + f[e]
<1>1. IsFiniteSet({d}) /\ {d} \cup {e} = {d, e} /\ e \notin {d}
  BY FS_Singleton
<1>2. SumFunctionOnSet(f, {d} \cup {e}) = SumFunctionOnSet(f, {d}) + f[e]
  BY <1>1, SumAdds
<1> QED
  BY <1>1, <1>2, SumOfOne

\* A sum of values of either sign is what counts for less what counts against.
LEMMA SumSplits ==
  ASSUME NEW f, NEW h, NEW S, IsFiniteSet(S), NEW P \in SUBSET S,
         \A x \in S : f[x] \in Int,
         \A x \in P : h[x] = f[x], \A x \in S \ P : h[x] = -f[x]
  PROVE  SumFunctionOnSet(h, S) =
           SumFunctionOnSet(f, P) - SumFunctionOnSet(f, S \ P)
<1> DEFINE Sum(U) == SumFunctionOnSet(f, U)
           B == {U \in SUBSET S :
                   SumFunctionOnSet(h, U) # Sum(U \cap P) - Sum(U \ P)}
<1>1. SUFFICES ASSUME B # {} PROVE FALSE
  <2>1. S \cap P = P
    OBVIOUS
  <2> HIDE DEF Sum
  <2>2. B = {} => SumFunctionOnSet(h, S) = Sum(S \cap P) - Sum(S \ P)
    OBVIOUS
  <2> QED
    BY <2>1, <2>2 DEF Sum
<1>2. PICK U \in B : \A V \in SUBSET U : V # U => V \notin B
  <2>1. B \in SUBSET (SUBSET S)
    OBVIOUS
  <2> HIDE DEF B
  <2> QED
    BY <1>1, <2>1, SmallestSubset
<1>3. /\ U \in SUBSET S /\ IsFiniteSet(U)
      /\ SumFunctionOnSet(h, U) # Sum(U \cap P) - Sum(U \ P)
  BY FS_Subset
<1>4. \A V \in SUBSET U : IsFiniteSet(V) /\ Sum(V) \in Int
  BY <1>3, FS_Subset, SumInt
<1>5. U # {}
  <2>1. SUFFICES ASSUME U = {} PROVE FALSE
    OBVIOUS
  <2>2. U \cap P = {} /\ U \ P = {}
    BY <2>1
  <2>3. Sum(U \cap P) = 0 /\ Sum(U \ P) = 0 /\ SumFunctionOnSet(h, U) = 0
    BY <2>1, <2>2, SumEmpty
  <2> QED
    BY <1>3, <2>3
<1> DEFINE e == Pick(U)
           V == U \ {e}
<1>6. e \in U /\ V \in SUBSET U /\ V # U /\ e \in S
  BY <1>3, <1>5, PickTakes
<1>7. SumFunctionOnSet(h, V) = Sum(V \cap P) - Sum(V \ P)
  BY <1>2, <1>3, <1>6
<1>8. SumFunctionOnSet(h, U) = h[e] + SumFunctionOnSet(h, V)
  BY <1>3, <1>5, SumPicks
<1>9. Sum(V \cap P) \in Int /\ Sum(V \ P) \in Int /\ f[e] \in Int
  BY <1>4, <1>6
<1>10. CASE e \in P
  <2>1. (U \cap P) \ {e} = V \cap P /\ U \ P = V \ P /\ e \in U \cap P
    BY <1>6, <1>10
  <2>2. IsFiniteSet(U \cap P) /\ \A x \in U \cap P : f[x] \in Int
    BY <1>3, <1>4
  <2>3. Sum(U \cap P) = f[e] + Sum((U \cap P) \ {e})
    BY <2>1, <2>2, SumTakes
  <2>4. h[e] = f[e]
    BY <1>10
  <2> HIDE DEF Sum, e, V
  <2> QED
    BY <1>3, <1>7, <1>8, <1>9, <2>1, <2>3, <2>4
<1>11. CASE e \notin P
  <2>1. (U \ P) \ {e} = V \ P /\ U \cap P = V \cap P /\ e \in U \ P
    BY <1>6, <1>11
  <2>2. IsFiniteSet(U \ P) /\ \A x \in U \ P : f[x] \in Int
    BY <1>3, <1>4
  <2>3. Sum(U \ P) = f[e] + Sum((U \ P) \ {e})
    BY <2>1, <2>2, SumTakes
  <2>4. h[e] = 0 - f[e]
    BY <1>6, <1>9, <1>11
  <2>5. Sum(U \ P) = f[e] + Sum(V \ P) /\ Sum(U \cap P) = Sum(V \cap P)
    BY <2>1, <2>3
  <2> HIDE DEF Sum, e, V
  <2> QED
    BY <1>3, <1>7, <1>8, <1>9, <2>4, <2>5
<1> QED
  BY <1>10, <1>11

\* A part of a set sums up to no more.
LEMMA SumGrows ==
  ASSUME NEW f, NEW S, IsFiniteSet(S), \A x \in S : f[x] \in Nat, NEW P \in SUBSET S
  PROVE  SumFunctionOnSet(f, P) <= SumFunctionOnSet(f, S)
<1> DEFINE Sum(U) == SumFunctionOnSet(f, U)
           B == {U \in SUBSET S : P \subseteq U /\ ~(Sum(P) <= Sum(U))}
<1>1. SUFFICES ASSUME B # {} PROVE FALSE
  <2>1. S \notin B => Sum(P) <= Sum(S)
    OBVIOUS
  <2> QED
    BY <2>1
<1>2. PICK U \in B : \A V \in SUBSET U : V # U => V \notin B
  <2> HIDE DEF B
  <2>1. B \in SUBSET (SUBSET S)
    BY DEF B
  <2> QED
    BY <1>1, <2>1, SmallestSubset
<1>3. U \in SUBSET S /\ P \subseteq U /\ ~(Sum(P) <= Sum(U)) /\ IsFiniteSet(U)
  BY <1>2, FS_Subset
<1>4. IsFiniteSet(P) /\ Sum(P) \in Int
  BY <1>3, FS_Subset, SumInt
<1>5. PICK e \in U : e \notin P
  <2>1. P # U
    BY <1>3, <1>4
  <2> QED
    BY <1>3, <2>1
<1>6. U \ {e} \notin B
  BY <1>2
<1>7. Sum(P) <= Sum(U \ {e})
  BY <1>3, <1>5, <1>6
<1>8. Sum(U) = f[e] + Sum(U \ {e}) /\ f[e] \in Nat
  BY <1>3, <1>5, SumTakes
<1>9. Sum(U \ {e}) \in Int
  <2>1. IsFiniteSet(U \ {e})
    BY <1>3, FS_Subset
  <2> QED
    BY <1>3, <2>1, SumInt
<1> HIDE DEF Sum
<1> QED
  BY <1>3, <1>4, <1>7, <1>8, <1>9

\* Larger terms, larger sum.
LEMMA SumLeq ==
  ASSUME NEW f, NEW h, NEW S, IsFiniteSet(S),
         \A x \in S : f[x] \in Int /\ h[x] \in Int /\ f[x] <= h[x]
  PROVE  SumFunctionOnSet(f, S) <= SumFunctionOnSet(h, S)
<1> DEFINE F(U) == SumFunctionOnSet(f, U)
           H(U) == SumFunctionOnSet(h, U)
           B == {U \in SUBSET S : ~(F(U) <= H(U))}
<1>1. SUFFICES ASSUME B # {} PROVE FALSE
  OBVIOUS
<1>2. PICK U \in B : \A V \in SUBSET U : V # U => V \notin B
  <2> HIDE DEF B
  <2>1. B \in SUBSET (SUBSET S)
    BY DEF B
  <2> QED
    BY <1>1, <2>1, SmallestSubset
<1>3. U \in SUBSET S /\ ~(F(U) <= H(U)) /\ IsFiniteSet(U)
  BY <1>2, FS_Subset
<1>4. U # {}
  <2>1. F({}) = 0 /\ H({}) = 0
    BY SumEmpty
  <2> HIDE DEF F, H
  <2> QED
    BY <1>3, <2>1
<1>5. PICK e \in U : TRUE
  BY <1>4
<1> DEFINE V == U \ {e}
<1>6. /\ F(U) = f[e] + F(V) /\ H(U) = h[e] + H(V)
      /\ f[e] \in Int /\ h[e] \in Int /\ f[e] <= h[e]
  BY <1>3, <1>5, SumTakes
<1>7. IsFiniteSet(V) /\ V \in SUBSET U /\ V # U /\ V \in SUBSET S
  BY <1>3, <1>5, FS_Subset
<1>8. F(V) \in Int /\ H(V) \in Int
  BY <1>7, SumInt
<1>9. F(V) <= H(V)
  <2> HIDE DEF F, H, V
  <2> QED
    BY <1>2, <1>7
<1> HIDE DEF F, H, V
<1> QED
  BY <1>3, <1>6, <1>8, <1>9

\* A sum of multiples.
LEMMA SumLinear ==
  ASSUME NEW f, NEW g, NEW h, NEW S, IsFiniteSet(S), NEW a \in Int,
         \A x \in S : f[x] \in Int /\ g[x] \in Int /\ h[x] = a * f[x] + g[x]
  PROVE  SumFunctionOnSet(h, S) = a * SumFunctionOnSet(f, S) + SumFunctionOnSet(g, S)
<1> DEFINE F(U) == SumFunctionOnSet(f, U)
           G(U) == SumFunctionOnSet(g, U)
           H(U) == SumFunctionOnSet(h, U)
           B == {U \in SUBSET S : H(U) # a * F(U) + G(U)}
<1>1. SUFFICES ASSUME B # {} PROVE FALSE
  OBVIOUS
<1>2. PICK U \in B : \A V \in SUBSET U : V # U => V \notin B
  <2> HIDE DEF B
  <2>1. B \in SUBSET (SUBSET S)
    BY DEF B
  <2> QED
    BY <1>1, <2>1, SmallestSubset
<1>3. U \in SUBSET S /\ H(U) # a * F(U) + G(U) /\ IsFiniteSet(U)
  BY <1>2, FS_Subset
<1>4. U # {}
  <2>1. F({}) = 0 /\ G({}) = 0 /\ H({}) = 0
    BY SumEmpty
  <2>2. a * 0 + 0 = 0
    OBVIOUS
  <2>3. H({}) = a * F({}) + G({})
    BY <2>1, <2>2, Zenon
  <2> HIDE DEF F, G, H, B
  <2> QED
    BY <1>3, <2>3, Zenon
<1>5. PICK e \in U : TRUE
  BY <1>4
<1> DEFINE V == U \ {e}
<1>6. \A x \in U : f[x] \in Int /\ g[x] \in Int /\ h[x] \in Int
  <2>1. \A m \in Int : a * m \in Int
    OBVIOUS
  <2> QED
    BY <1>3, <2>1
<1>7. /\ F(U) = f[e] + F(V) /\ G(U) = g[e] + G(V) /\ H(U) = h[e] + H(V)
      /\ f[e] \in Int /\ g[e] \in Int /\ h[e] = a * f[e] + g[e]
  BY <1>3, <1>5, <1>6, SumTakes
<1>8. IsFiniteSet(V) /\ V \in SUBSET U /\ V # U /\ V \in SUBSET S
  BY <1>3, <1>5, FS_Subset
<1>9. F(V) \in Int /\ G(V) \in Int
  BY <1>8, SumInt
<1>10. H(V) = a * F(V) + G(V)
  <2> HIDE DEF F, G, H, V
  <2> QED
    BY <1>2, <1>8
<1> HIDE DEF F, G, H, V
<1>11. a * (f[e] + F(V)) = a * f[e] + a * F(V) /\ a * f[e] \in Int /\ a * F(V) \in Int
  BY <1>7, <1>9, SMT
<1> QED
  BY <1>3, <1>7, <1>9, <1>10, <1>11

\* The sum of the first n terms has one more than that of the first n - 1.
LEMMA SumUpTo ==
  ASSUME NEW f, NEW n \in Nat \ {0}, \A x \in 1..n : f[x] \in Int
  PROVE  SumFunctionOnSet(f, 1..n) = SumFunctionOnSet(f, 1..(n - 1)) + f[n]
<1>1. /\ IsFiniteSet(1..(n - 1)) /\ n \notin 1..(n - 1)
      /\ 1..(n - 1) \cup {n} = 1..n
  BY FS_Interval
<1>2. f[n] \in Int /\ \A x \in 1..(n - 1) : f[x] \in Int
  OBVIOUS
<1> QED
  BY <1>1, <1>2, SumAdds

=============================================================================

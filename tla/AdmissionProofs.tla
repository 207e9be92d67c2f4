--------------------------- MODULE AdmissionProofs ---------------------------
(* Proofs about who is let through: RateLimiter, for every limit, window,      *)
(* horizon and load, and CircuitBreaker, for every threshold and timeout.      *)
EXTENDS RateLimiter, CircuitBreaker, FiniteSetTheorems, SequenceTheorems, TLAPS

-----------------------------------------------------------------------------
(* Sums over finite sets.                                                   *)

\* Induction over the subsets of a finite set; Good is a set of sets.
LEMMA SetInduction ==
  ASSUME NEW S, IsFiniteSet(S), NEW Good,
         \A T \in SUBSET S : (\A U \in SUBSET T : U # T => U \in Good) => T \in Good
  PROVE  S \in Good
<1> DEFINE Bad == {T \in SUBSET S : T \notin Good}
<1>1. SUFFICES ASSUME Bad # {} PROVE FALSE
  OBVIOUS
<1>2. PICK T \in Bad : \A U \in Bad : <<U, T>> \notin StrictSubsetOrdering(S)
  <2>1. IsWellFoundedOn(StrictSubsetOrdering(S), SUBSET S)
    BY FS_StrictSubsetOrderingWellFounded, FS_FiniteSubsetsOfFinite
  <2>2. Bad \subseteq SUBSET S
    OBVIOUS
  <2> HIDE DEF Bad
  <2> QED BY <1>1, <2>1, <2>2, WFMin
<1>3. \A U \in SUBSET T : U # T => U \in Good
  BY <1>2 DEF StrictSubsetOrdering
<1> QED BY <1>3

One(s) == CHOOSE x \in s : TRUE
Total(f, s) == FoldFunctionOnSet(+, 0, f, s)

\* g adds f up over the subsets of T, taking out one element after another.
AddsUp(g, f, T) ==
  \A s \in SUBSET T : g[s] = IF s = {} THEN 0 ELSE f[One(s)] + g[s \ {One(s)}]

LEMMA OneIsIn == ASSUME NEW s, s # {} PROVE One(s) \in s
BY DEF One

\* There is one way to add up ...
LEMMA AddedUpAgree ==
  ASSUME NEW s, IsFiniteSet(s), NEW f, NEW g, NEW h, NEW T, NEW U,
         AddsUp(g, f, T), AddsUp(h, f, U), s \subseteq T, s \subseteq U
  PROVE  g[s] = h[s]
<1> DEFINE Good == {u \in SUBSET s : g[u] = h[u]}
<1>1. ASSUME NEW u \in SUBSET s, \A v \in SUBSET u : v # u => v \in Good
      PROVE  u \in Good
  <2>1. /\ g[u] = IF u = {} THEN 0 ELSE f[One(u)] + g[u \ {One(u)}]
        /\ h[u] = IF u = {} THEN 0 ELSE f[One(u)] + h[u \ {One(u)}]
    BY DEF AddsUp
  <2>2. u # {} => g[u \ {One(u)}] = h[u \ {One(u)}]
    BY <1>1, OneIsIn
  <2> QED BY <2>1, <2>2
<1>2. s \in Good
  <2> HIDE DEF Good
  <2> QED BY <1>1, SetInduction
<1> QED BY <1>2

\* ... and there is one.
LEMMA AddedUpExists ==
  ASSUME NEW S, IsFiniteSet(S), NEW f, \A x \in S : f[x] \in Nat
  PROVE  \E g \in [SUBSET S -> Nat] : AddsUp(g, f, S)
<1> DEFINE Good  == {T \in SUBSET S : \E g \in [SUBSET T -> Nat] : AddsUp(g, f, T)}
           Of(s) == CHOOSE g : g \in [SUBSET s -> Nat] /\ AddsUp(g, f, s)
<1>1. ASSUME NEW T \in SUBSET S, \A U \in SUBSET T : U # T => U \in Good
      PROVE  T \in Good
  <2> DEFINE Rest(s) == s \ {One(s)}
             h == [s \in SUBSET T |-> IF s = {} THEN 0 ELSE f[One(s)] + Of(Rest(s))[Rest(s)]]
  <2>1. ASSUME NEW u \in SUBSET T, u # T
        PROVE  Of(u) \in [SUBSET u -> Nat] /\ AddsUp(Of(u), f, u) /\ Of(u)[u] \in Nat
    <3>1. \E g : g \in [SUBSET u -> Nat] /\ AddsUp(g, f, u)
      BY <1>1, <2>1
    <3>2. Of(u) \in [SUBSET u -> Nat] /\ AddsUp(Of(u), f, u)
      <4> HIDE DEF Good
      <4> QED BY <3>1
    <3> QED BY <3>2
  <2>2. ASSUME NEW s \in SUBSET T, s # {}
        PROVE  One(s) \in s /\ Rest(s) \in SUBSET T /\ Rest(s) # T /\ Rest(s) \in SUBSET s
    BY <2>2, OneIsIn
  <2> HIDE DEF Of, Good, Rest
  <2>3. ASSUME NEW s \in SUBSET T, s # {}
        PROVE  h[s] = f[One(s)] + Of(Rest(s))[Rest(s)] /\ h[s] \in Nat
    <3>1. h[s] = f[One(s)] + Of(Rest(s))[Rest(s)]
      BY <2>3
    <3>2. f[One(s)] \in Nat /\ Of(Rest(s))[Rest(s)] \in Nat
      BY <2>1, <2>2, <2>3
    <3> HIDE DEF h
    <3> QED BY <3>1, <3>2
  <2>4. h[{}] = 0
    OBVIOUS
  <2>5. h \in [SUBSET T -> Nat]
    <3>1. h = [s \in SUBSET T |-> h[s]]
      OBVIOUS
    <3>2. ASSUME NEW s \in SUBSET T PROVE h[s] \in Nat
      <4> HIDE DEF h
      <4>1. CASE s = {}
        BY <2>4, <4>1
      <4>2. CASE s # {}
        BY <2>3, <4>2
      <4> QED BY <4>1, <4>2
    <3> HIDE DEF h
    <3> QED BY <3>1, <3>2
  <2> HIDE DEF h
  <2>6. ASSUME NEW u \in SUBSET T, u # T
        PROVE  h[u] = Of(u)[u]
    <3>1. AddsUp(Of(u), f, u)
      BY <2>1, <2>6
    <3>2. Of(u)[u] = IF u = {} THEN 0 ELSE f[One(u)] + Of(u)[u \ {One(u)}]
      BY <3>1 DEF AddsUp
    <3>3. CASE u = {}
      BY <2>4, <3>2, <3>3
    <3>4. CASE u # {}
      <4>1. PICK v \in SUBSET u : v = Rest(u) /\ v \in SUBSET T /\ v # T
        BY <2>2, <3>4
      <4>2. IsFiniteSet(v)
        BY FS_Subset
      <4>3. Of(u)[v] = Of(v)[v]
        BY <2>1, <3>1, <4>1, <4>2, AddedUpAgree
      <4>4. h[u] = f[One(u)] + Of(v)[v]
        BY <2>3, <3>4, <4>1
      <4> QED BY <3>2, <3>4, <4>1, <4>3, <4>4 DEF Rest
    <3> QED BY <3>3, <3>4
  <2>7. AddsUp(h, f, T)
    <3>1. ASSUME NEW s \in SUBSET T
          PROVE  h[s] = IF s = {} THEN 0 ELSE f[One(s)] + h[s \ {One(s)}]
      <4>1. CASE s = {}
        BY <2>4, <4>1
      <4>2. CASE s # {}
        <5>1. h[Rest(s)] = Of(Rest(s))[Rest(s)]
          BY <2>2, <2>6, <4>2
        <5> QED BY <2>3, <4>2, <5>1 DEF Rest
      <4> QED BY <4>1, <4>2
    <3> QED BY <3>1 DEF AddsUp
  <2> QED BY <2>5, <2>7 DEF Good
<1>2. S \in Good
  <2> HIDE DEF Good
  <2> QED BY <1>1, SetInduction
<1> QED BY <1>2

Totals(g, f, S) == AddsUp(g, f, S) /\ \A s \in SUBSET S : Total(f, s) = g[s]

\* The total of a set is that of its subsets' function.
LEMMA TotalIs ==
  ASSUME NEW S, IsFiniteSet(S), NEW f, \A x \in S : f[x] \in Nat
  PROVE  \E g \in [SUBSET S -> Nat] : Totals(g, f, S)
<1>1. PICK g \in [SUBSET S -> Nat] : AddsUp(g, f, S)
  BY AddedUpExists
<1>2. ASSUME NEW T \in SUBSET S PROVE Total(f, T) = g[T]
  <2> DEFINE IsIter(h) == h = [s \in SUBSET T |-> IF s = {} THEN 0 ELSE f[One(s)] + h[s \ {One(s)}]]
             iter      == CHOOSE h : IsIter(h)
  <2>1. Total(f, T) = iter[T]
    BY DEF Total, FoldFunctionOnSet, MapThenFoldSet, One
  <2>2. IsFiniteSet(T)
    BY FS_Subset
  <2>3. PICK h \in [SUBSET T -> Nat] : AddsUp(h, f, T)
    BY <2>2, AddedUpExists
  <2>4. IsIter(h)
    BY <2>3 DEF AddsUp
  <2>5. IsIter(iter)
    <3> HIDE DEF IsIter
    <3> QED BY <2>4
  <2>6. AddsUp(iter, f, T)
    <3> HIDE DEF iter
    <3> QED BY <2>5 DEF AddsUp
  <2>7. iter[T] = g[T]
    <3> HIDE DEF iter
    <3> QED BY <1>1, <2>2, <2>6, AddedUpAgree
  <2> QED BY <2>1, <2>7
<1> QED BY <1>1, <1>2 DEF Totals
LEMMA TotalOfNone == ASSUME NEW f PROVE Total(f, {}) = 0
<1>1. IsFiniteSet({}) /\ \A x \in {} : f[x] \in Nat
  BY FS_EmptySet
<1>2. PICK g : Totals(g, f, {})
  BY <1>1, TotalIs
<1> QED BY <1>2 DEF Totals, AddsUp

LEMMA TotalIsNat ==
  ASSUME NEW S, IsFiniteSet(S), NEW f, \A x \in S : f[x] \in Nat
  PROVE  Total(f, S) \in Nat
<1>0. PICK g \in [SUBSET S -> Nat] : Totals(g, f, S)
  BY TotalIs
<1>1. AddsUp(g, f, S) /\ \A s \in SUBSET S : Total(f, s) = g[s]
  BY <1>0 DEF Totals
<1> QED BY <1>1

\* Any of its elements can be taken out of a sum first.
LEMMA TotalTakesOut ==
  ASSUME NEW S, IsFiniteSet(S), NEW f, \A x \in S : f[x] \in Nat, NEW x \in S
  PROVE  Total(f, S) = f[x] + Total(f, S \ {x})
<1>0. PICK g \in [SUBSET S -> Nat] : Totals(g, f, S)
  BY TotalIs
<1>1. AddsUp(g, f, S) /\ \A s \in SUBSET S : Total(f, s) = g[s]
  BY <1>0 DEF Totals
<1> DEFINE Good == {T \in SUBSET S : \A y \in T : g[T] = f[y] + g[T \ {y}]}
<1>2. ASSUME NEW T \in SUBSET S, \A U \in SUBSET T : U # T => U \in Good
      PROVE  T \in Good
  <2>1. ASSUME NEW y \in T PROVE g[T] = f[y] + g[T \ {y}]
    <3>1. PICK z \in T : z = One(T)
      BY OneIsIn
    <3>2. g[T] = f[z] + g[T \ {z}]
      BY <1>1, <3>1 DEF AddsUp
    <3>3. CASE z = y
      BY <3>2, <3>3
    <3>4. CASE z # y
      <4>0. PICK U, V, W : U = T \ {z} /\ V = T \ {y} /\ W = T \ {y, z}
        OBVIOUS
      <4>1. /\ U = T \ {z} /\ V = T \ {y} /\ W \in SUBSET S
            /\ U \in SUBSET T /\ V \in SUBSET T
            /\ U # T /\ V # T /\ U \ {y} = W /\ V \ {z} = W /\ y \in U /\ z \in V
        BY <3>4, <4>0
      <4>2. U \in Good /\ V \in Good
        BY <1>2, <4>1
      <4>3. g[U] = f[y] + g[W] /\ g[V] = f[z] + g[W]
        BY <4>1, <4>2
      <4>4. f[y] \in Nat /\ f[z] \in Nat /\ g[W] \in Nat /\ g[U] \in Nat /\ g[V] \in Nat
        BY <1>1, <4>1
      <4>5. g[T] = f[z] + (f[y] + g[W])
        BY <3>2, <4>1, <4>3
      <4> QED BY <4>1, <4>3, <4>4, <4>5
    <3> QED BY <3>3, <3>4
  <2> QED BY <2>1
<1>3. S \in Good
  <2> HIDE DEF Good
  <2> QED BY <1>2, SetInduction
<1>4. g[S] = f[x] + g[S \ {x}]
  BY <1>3
<1> QED BY <1>1, <1>4

\* A sum that is less at each element, and on a smaller set, is less.
LEMMA TotalGrows ==
  ASSUME NEW S, IsFiniteSet(S), NEW T \in SUBSET S, NEW f, NEW g,
         \A x \in S : g[x] \in Nat, \A x \in T : f[x] \in Nat /\ f[x] <= g[x]
  PROVE  Total(f, T) <= Total(g, S)
<1> DEFINE Good == {U \in SUBSET S : Total(f, U \cap T) <= Total(g, U)}
<1>1. ASSUME NEW U \in SUBSET S, \A V \in SUBSET U : V # U => V \in Good
      PROVE  U \in Good
  <2>1. CASE U = {}
    BY <2>1, TotalOfNone
  <2>2. CASE U # {}
    <3>1. PICK x \in U : TRUE
      BY <2>2
    <3>0. PICK V : V = U \ {x}
      OBVIOUS
    <3>2. V \in SUBSET U /\ V = U \ {x} /\ V # U
      BY <3>0
    <3>3. IsFiniteSet(U) /\ IsFiniteSet(V) /\ IsFiniteSet(U \cap T) /\ IsFiniteSet(V \cap T)
      <4>1. U \subseteq S /\ V \subseteq S /\ U \cap T \subseteq S /\ V \cap T \subseteq S
        BY <3>2
      <4> QED BY <4>1, FS_Subset
    <3>4. Total(g, U) = g[x] + Total(g, V) /\ Total(g, V) \in Nat /\ g[x] \in Nat
      BY <3>2, <3>3, TotalTakesOut, TotalIsNat
    <3>5. Total(f, V \cap T) <= Total(g, V) /\ Total(f, V \cap T) \in Nat
      BY <1>1, <3>2, <3>3, TotalIsNat
    <3>6. CASE x \in T
      <4>1. (U \cap T) \ {x} = V \cap T /\ x \in U \cap T
        BY <3>2, <3>6
      <4>2. Total(f, U \cap T) = f[x] + Total(f, V \cap T)
        BY <3>3, <4>1, TotalTakesOut
      <4>3. f[x] \in Nat /\ f[x] <= g[x]
        BY <3>6
      <4> QED BY <3>4, <3>5, <4>2, <4>3
    <3>7. CASE x \notin T
      <4>1. Total(f, U \cap T) = Total(f, V \cap T)
        <5>1. U \cap T = V \cap T
          BY <3>2, <3>7
        <5> QED BY <5>1
      <4> QED BY <3>4, <3>5, <4>1
    <3> QED BY <3>6, <3>7
  <2> QED BY <2>1, <2>2
<1>2. S \in Good
  <2> HIDE DEF Good
  <2> QED BY <1>1, SetInduction
<1>3. S \cap T = T
  OBVIOUS
<1> QED BY <1>2, <1>3

\* The sum of two disjoint sets.
LEMMA TotalOfBoth ==
  ASSUME NEW S, IsFiniteSet(S), NEW T, IsFiniteSet(T), S \cap T = {},
         NEW f, \A x \in S \cup T : f[x] \in Nat
  PROVE  Total(f, S \cup T) = Total(f, S) + Total(f, T)
<1> DEFINE Good == {U \in SUBSET S : Total(f, U \cup T) = Total(f, U) + Total(f, T)}
<1>1. ASSUME NEW U \in SUBSET S, \A V \in SUBSET U : V # U => V \in Good
      PROVE  U \in Good
  <2>0. Total(f, T) \in Nat
    BY TotalIsNat
  <2>1. CASE U = {}
    <3>1. U \cup T = T /\ Total(f, U) = 0
      BY <2>1, TotalOfNone
    <3> QED BY <2>0, <3>1
  <2>2. CASE U # {}
    <3>1. PICK x \in U : TRUE
      BY <2>2
    <3>0. PICK V : V = U \ {x}
      OBVIOUS
    <3>2. V \in SUBSET U /\ V = U \ {x} /\ V # U
      BY <3>0
    <3>3. IsFiniteSet(U) /\ IsFiniteSet(V) /\ IsFiniteSet(U \cup T)
      BY <3>2, FS_Subset, FS_Union
    <3>4. Total(f, U) = f[x] + Total(f, V) /\ Total(f, V) \in Nat /\ f[x] \in Nat
      BY <3>2, <3>3, TotalTakesOut, TotalIsNat
    <3>5. (U \cup T) \ {x} = V \cup T /\ x \in U \cup T
      BY <3>2
    <3>6. Total(f, U \cup T) = f[x] + Total(f, V \cup T)
      <4>1. \A y \in U \cup T : f[y] \in Nat
        OBVIOUS
      <4> QED BY <3>3, <3>5, <4>1, TotalTakesOut
    <3>7. Total(f, V \cup T) = Total(f, V) + Total(f, T)
      BY <1>1, <3>2
    <3> QED BY <2>0, <3>4, <3>6, <3>7
  <2> QED BY <2>1, <2>2
<1>2. S \in Good
  <2> HIDE DEF Good
  <2> QED BY <1>1, SetInduction
<1> QED BY <1>2

\* What is zero adds nothing.
LEMMA TotalOfZeros ==
  ASSUME NEW S, IsFiniteSet(S), NEW f, \A x \in S : f[x] = 0
  PROVE  Total(f, S) = 0
<1> DEFINE Good == {U \in SUBSET S : Total(f, U) = 0}
<1>1. ASSUME NEW U \in SUBSET S, \A V \in SUBSET U : V # U => V \in Good
      PROVE  U \in Good
  <2>1. CASE U = {}
    BY <2>1, TotalOfNone
  <2>2. CASE U # {}
    <3>1. PICK x \in U : TRUE
      BY <2>2
    <3>0. PICK V : V = U \ {x}
      OBVIOUS
    <3>2. V \in SUBSET U /\ V = U \ {x} /\ V # U
      BY <3>0
    <3>3. IsFiniteSet(U) /\ \A y \in U : f[y] \in Nat
      BY FS_Subset
    <3>4. Total(f, U) = f[x] + Total(f, V)
      BY <3>2, <3>3, TotalTakesOut
    <3> QED BY <1>1, <3>2, <3>4
  <2> QED BY <2>1, <2>2
<1>2. S \in Good
  <2> HIDE DEF Good
  <2> QED BY <1>1, SetInduction
<1> QED BY <1>2

\* Functions that agree add up to the same.
LEMMA TotalAgrees ==
  ASSUME NEW S, IsFiniteSet(S), NEW f, NEW g, \A x \in S : f[x] \in Nat /\ g[x] = f[x]
  PROVE  Total(g, S) = Total(f, S)
<1>1. Total(f, S) <= Total(g, S) /\ Total(g, S) <= Total(f, S)
  BY TotalGrows
<1>2. Total(f, S) \in Nat /\ Total(g, S) \in Nat
  BY TotalIsNat
<1> QED BY <1>1, <1>2
-----------------------------------------------------------------------------
(* Counts of requests in a stretch of time.                                 *)

\* The instants after a and up to b, of those up to max.
Within(max, a, b) == {t \in 0..max : a < t /\ t <= b}
Sum(f, max, a, b) == Total(f, Within(max, a, b))

LEMMA WithinIsFinite ==
  ASSUME NEW max \in Nat, NEW a, NEW b
  PROVE  IsFiniteSet(Within(max, a, b)) /\ Within(max, a, b) \subseteq 0..max
<1>1. IsFiniteSet(0..max)
  BY FS_Interval
<1> QED BY <1>1, FS_Subset DEF Within

LEMMA SumIsNat ==
  ASSUME NEW max \in Nat, NEW f \in [0..max -> Nat], NEW a \in Int, NEW b \in Int
  PROVE  Sum(f, max, a, b) \in Nat
<1>1. \A t \in Within(max, a, b) : f[t] \in Nat
  BY WithinIsFinite
<1> QED BY <1>1, WithinIsFinite, TotalIsNat DEF Sum

\* More requests in a longer stretch.
LEMMA SumGrows ==
  ASSUME NEW max \in Nat, NEW f \in [0..max -> Nat], NEW g \in [0..max -> Nat],
         NEW a \in Int, NEW b \in Int, NEW c \in Int, NEW d \in Int,
         c <= a, b <= d, \A t \in 0..max : a < t /\ t <= b => f[t] <= g[t]
  PROVE  Sum(f, max, a, b) <= Sum(g, max, c, d)
<1>1. Within(max, a, b) \in SUBSET Within(max, c, d)
  BY DEF Within
<1>2. /\ \A t \in Within(max, c, d) : g[t] \in Nat
      /\ \A t \in Within(max, a, b) : f[t] \in Nat /\ f[t] <= g[t]
  BY DEF Within
<1>3. IsFiniteSet(Within(max, c, d))
  BY WithinIsFinite
<1> QED BY <1>1, <1>2, <1>3, TotalGrows DEF Sum

\* Two stretches that adjoin.
LEMMA SumSplits ==
  ASSUME NEW max \in Nat, NEW f \in [0..max -> Nat],
         NEW a \in Int, NEW b \in Int, NEW c \in Int, a <= b, b <= c
  PROVE  Sum(f, max, a, c) = Sum(f, max, a, b) + Sum(f, max, b, c)
<1>0. PICK S, T : S = Within(max, a, b) /\ T = Within(max, b, c)
  OBVIOUS
<1>1. Within(max, a, c) = S \cup T /\ S \cap T = {}
  BY <1>0 DEF Within
<1>2. \A t \in S \cup T : f[t] \in Nat
  BY <1>0 DEF Within
<1>3. IsFiniteSet(S) /\ IsFiniteSet(T)
  BY <1>0, WithinIsFinite
<1>4. Total(f, S \cup T) = Total(f, S) + Total(f, T)
  BY <1>1, <1>2, <1>3, TotalOfBoth
<1> QED BY <1>0, <1>1, <1>4 DEF Sum

LEMMA SumOfZeros ==
  ASSUME NEW max \in Nat, NEW f, NEW a \in Int, NEW b \in Int,
         \A t \in 0..max : a < t /\ t <= b => f[t] = 0
  PROVE  Sum(f, max, a, b) = 0
<1>1. \A t \in Within(max, a, b) : f[t] = 0
  BY DEF Within
<1> QED BY <1>1, WithinIsFinite, TotalOfZeros DEF Sum

\* Instants without requests do not count.
LEMMA SumUpTo ==
  ASSUME NEW max \in Nat, NEW f \in [0..max -> Nat],
         NEW a \in Int, NEW b \in Int, NEW c \in Int, a <= b, b <= c,
         \A t \in 0..max : t > b => f[t] = 0
  PROVE  Sum(f, max, a, c) = Sum(f, max, a, b)
<1>1. Sum(f, max, b, c) = 0
  BY SumOfZeros
<1>2. Sum(f, max, a, c) = Sum(f, max, a, b) + Sum(f, max, b, c)
  BY SumSplits
<1> QED BY <1>1, <1>2, SumIsNat

NoneAfter(f, max, b) == \A t \in 0..max : t > b => f[t] = 0

LEMMA SumEnds ==
  ASSUME NEW max \in Nat, NEW f \in [0..max -> Nat]
  PROVE  \A a, b, c \in Int : a <= b /\ b <= c /\ NoneAfter(f, max, b) =>
           Sum(f, max, a, c) = Sum(f, max, a, b)
BY SumUpTo DEF NoneAfter

\* One request more.
Plus(f, x) == [f EXCEPT ![x] = @ + 1]

LEMMA SumOneMore ==
  ASSUME NEW max \in Nat, NEW f \in [0..max -> Nat], NEW x \in 0..max,
         NEW a \in Int, NEW b \in Int
  PROVE  /\ Plus(f, x) \in [0..max -> Nat]
         /\ Sum(Plus(f, x), max, a, b) = Sum(f, max, a, b) + (IF a < x /\ x <= b THEN 1 ELSE 0)
<1>0. PICK g : g = Plus(f, x)
  OBVIOUS
<1>1. g \in [0..max -> Nat] /\ g[x] = f[x] + 1 /\ \A t \in 0..max : t # x => g[t] = f[t]
  BY <1>0 DEF Plus
<1>2. PICK S : S = Within(max, a, b)
  OBVIOUS
<1>3. IsFiniteSet(S) /\ S \subseteq 0..max /\ IsFiniteSet(S \ {x})
  BY <1>2, WithinIsFinite, FS_Subset
<1>4. \A t \in S : f[t] \in Nat /\ g[t] \in Nat
  BY <1>1, <1>3
<1>5. CASE a < x /\ x <= b
  <2>1. x \in S
    BY <1>2, <1>5 DEF Within
  <2>2. Total(f, S) = f[x] + Total(f, S \ {x}) /\ Total(g, S) = g[x] + Total(g, S \ {x})
    BY <1>3, <1>4, <2>1, TotalTakesOut
  <2>3. Total(g, S \ {x}) = Total(f, S \ {x})
    <3>1. \A t \in S \ {x} : f[t] \in Nat /\ g[t] = f[t]
      BY <1>1, <1>3
    <3> QED BY <1>3, <3>1, TotalAgrees
  <2>4. Total(f, S \ {x}) \in Nat /\ f[x] \in Nat
    BY <1>3, <1>4, TotalIsNat
  <2>5. Total(g, S) = Total(f, S) + 1
    BY <1>1, <2>2, <2>3, <2>4
  <2> QED BY <1>0, <1>1, <1>2, <1>5, <2>5 DEF Sum
<1>6. CASE ~(a < x /\ x <= b)
  <2>1. x \notin S
    BY <1>2, <1>6 DEF Within
  <2>2. \A t \in S : f[t] \in Nat /\ g[t] = f[t]
    BY <1>1, <1>3, <2>1
  <2>3. Total(g, S) = Total(f, S) /\ Total(f, S) \in Nat
    BY <1>3, <2>2, TotalAgrees, TotalIsNat
  <2> QED BY <1>0, <1>1, <1>2, <1>6, <2>3 DEF Sum
<1> QED BY <1>5, <1>6
-----------------------------------------------------------------------------
(* The log of the sliding window.                                           *)

\* Induction over the natural numbers; Holding is a set of numbers.
LEMMA Numbers ==
  ASSUME NEW Holding, 0 \in Holding, \A n \in Nat : n \in Holding => n + 1 \in Holding
  PROVE  Nat \subseteq Holding
<1> DEFINE Bad == {n \in Nat : n \notin Holding}
<1>1. SUFFICES ASSUME Bad # {} PROVE FALSE
  OBVIOUS
<1>2. PICK n \in Bad : \A m \in Bad : <<m, n>> \notin OpToRel(<, Nat)
  <2>1. Bad \subseteq Nat
    OBVIOUS
  <2> HIDE DEF Bad
  <2> QED BY <1>1, <2>1, NatLessThanWellFounded, WFMin
<1>3. n \in Nat \ {0}
  OBVIOUS
<1>4. n - 1 \in Nat /\ (n - 1) + 1 = n /\ <<n - 1, n>> \in OpToRel(<, Nat)
  BY <1>3 DEF OpToRel
<1> QED BY <1>2, <1>4

Ordered(log) == log \in Seq(Nat) /\ \A i, j \in 1..Len(log) : i < j => log[i] <= log[j]

\* The first m timestamps are those up to t.
Cuts(log, t, m) == \A i \in 1..Len(log) : log[i] <= t <=> i <= m

LEMMA CutExists ==
  ASSUME NEW log, Ordered(log), NEW t \in Int
  PROVE  \E m \in 0..Len(log) : Cuts(log, t, m)
<1>1. PICK n \in Nat : n = Len(log) /\ \A i \in 1..n : log[i] \in Nat
  BY LenProperties, ElementOfSeq DEF Ordered
<1>2. \A i, j \in 1..n : i < j => log[i] <= log[j]
  BY <1>1 DEF Ordered
<1> DEFINE CutOf(k, m) == \A i \in 1..k : log[i] <= t <=> i <= m
           Good == {k \in Nat : k <= n => \E m \in 0..k : CutOf(k, m)}
<1>3. 0 \in Good
  <2>1. CutOf(0, 0)
    OBVIOUS
  <2> QED BY <2>1
<1>4. ASSUME NEW k \in Nat, k \in Good PROVE k + 1 \in Good
  <2>1. SUFFICES ASSUME k + 1 <= n PROVE \E m \in 0..(k + 1) : CutOf(k + 1, m)
    OBVIOUS
  <2>2. PICK m \in 0..k : CutOf(k, m)
    BY <1>4, <2>1
  <2>3. CASE log[k + 1] <= t
    <3>1. ASSUME NEW i \in 1..(k + 1) PROVE log[i] <= t
      <4>1. CASE i = k + 1
        BY <2>3, <4>1
      <4>2. CASE i # k + 1
        <5>1. i \in 1..n /\ k + 1 \in 1..n /\ i < k + 1
          BY <1>1, <2>1, <4>2
        <5>2. log[i] <= log[k + 1] /\ log[i] \in Nat /\ log[k + 1] \in Nat
          BY <1>1, <1>2, <5>1
        <5> QED BY <2>3, <5>2
      <4> QED BY <4>1, <4>2
    <3>2. CutOf(k + 1, k + 1)
      BY <3>1
    <3> QED BY <3>2
  <2>4. CASE ~(log[k + 1] <= t)
    <3>1. ASSUME NEW i \in 1..(k + 1) PROVE log[i] <= t <=> i <= m
      <4>1. CASE i = k + 1
        BY <2>4, <4>1
      <4>2. CASE i # k + 1
        <5>1. i \in 1..k
          BY <4>2
        <5> QED BY <2>2, <5>1
      <4> QED BY <4>1, <4>2
    <3>2. CutOf(k + 1, m) /\ m \in 0..(k + 1)
      BY <3>1
    <3> HIDE DEF CutOf
    <3> QED BY <3>2
  <2> QED BY <2>3, <2>4
<1>5. n \in Good
  <2> HIDE DEF Good
  <2> QED BY <1>3, <1>4, Numbers
<1> QED BY <1>1, <1>5 DEF Cuts

\* What is later than t is the rest of the log.
LEMMA LaterIsRest ==
  ASSUME NEW log, Ordered(log), NEW t \in Int, NEW m \in 0..Len(log), Cuts(log, t, m)
  PROVE  Later(log, t) = SubSeq(log, m + 1, Len(log))
<1>1. PICK n \in Nat : n = Len(log) /\ \A i \in 1..n : log[i] \in Nat
  BY LenProperties, ElementOfSeq DEF Ordered
<1>2. log \in Seq(Nat) /\ m \in 0..n /\ \A i \in 1..n : log[i] <= t <=> i <= m
  BY <1>1 DEF Ordered, Cuts
<1> DEFINE Rest(i) == SubSeq(log, m + 1, i)
           Kept(f) == f = [i \in 0..Len(log) |->
                             IF i = 0 THEN <<>>
                             ELSE IF log[i] > t THEN Append(f[i - 1], log[i]) ELSE f[i - 1]]
           kept == CHOOSE f : Kept(f)
<1>3. Rest(0) = <<>>
  BY SubSeqEmpty
<1>4. ASSUME NEW i \in 1..n
      PROVE  Rest(i) = IF log[i] > t THEN Append(Rest(i - 1), log[i]) ELSE Rest(i - 1)
  <2>1. CASE i <= m
    <3>1. Rest(i) = <<>> /\ Rest(i - 1) = <<>>
      BY <2>1, SubSeqEmpty
    <3>2. ~(log[i] > t)
      BY <1>1, <1>2, <2>1
    <3> QED BY <3>1, <3>2
  <2>2. CASE i > m
    <3>1. log[i] > t
      BY <1>1, <1>2, <2>2
    <3>2. m + 1 \in 1..Len(log) /\ i \in (m + 1)..Len(log)
      BY <1>1, <2>2
    <3>3. Rest(i) = Rest(i - 1) \o <<log[i]>>
      BY <1>2, <3>2, SubSeqRecursiveSecond
    <3>4. Rest(i - 1) \in Seq(Nat) /\ log[i] \in Nat
      <4>1. \A j \in (m + 1)..(i - 1) : log[j] \in Nat
        BY <1>1
      <4> QED BY <1>1, <4>1, SubSeqProperties
    <3>5. Append(Rest(i - 1), log[i]) = Rest(i - 1) \o <<log[i]>>
      <4> HIDE DEF Rest
      <4> QED BY <3>4, AppendIsConcat
    <3> QED BY <3>1, <3>3, <3>5
  <2> QED BY <2>1, <2>2
<1> HIDE DEF Rest
<1>5. Kept([i \in 0..Len(log) |-> Rest(i)])
  BY <1>1, <1>3, <1>4
<1>6. Kept(kept)
  <2> HIDE DEF Kept
  <2> QED BY <1>5
<1>7. Later(log, t) = kept[n]
  BY <1>1 DEF Later
<1> HIDE DEF kept
<1>8. kept[0] = <<>> /\ \A i \in 1..n : kept[i] = IF log[i] > t THEN Append(kept[i - 1], log[i])
                                                  ELSE kept[i - 1]
  <2>1. ASSUME NEW i \in 0..n
        PROVE  kept[i] = IF i = 0 THEN <<>>
                         ELSE IF log[i] > t THEN Append(kept[i - 1], log[i]) ELSE kept[i - 1]
    BY <1>1, <1>6
  <2>2. kept[0] = <<>>
    <3>1. 0 \in 0..n
      OBVIOUS
    <3> QED BY <2>1, <3>1
  <2>3. ASSUME NEW i \in 1..n
        PROVE  kept[i] = IF log[i] > t THEN Append(kept[i - 1], log[i]) ELSE kept[i - 1]
    <3>1. i \in 0..n /\ i # 0
      OBVIOUS
    <3> QED BY <2>1, <3>1
  <2> QED BY <2>2, <2>3
<1> DEFINE Good == {k \in Nat : k <= n => kept[k] = Rest(k)}
<1>9. 0 \in Good
  BY <1>3, <1>8
<1>10. ASSUME NEW k \in Nat, k \in Good PROVE k + 1 \in Good
  <2>1. SUFFICES ASSUME k + 1 <= n PROVE kept[k + 1] = Rest(k + 1)
    OBVIOUS
  <2>2. PICK i \in 1..n : i = k + 1 /\ i - 1 = k
    BY <2>1
  <2>3. kept[i - 1] = Rest(i - 1)
    BY <1>10, <2>1, <2>2
  <2>4. kept[i] = Rest(i)
    BY <1>4, <1>8, <2>3
  <2> QED BY <2>2, <2>4
<1>11. n \in Good
  <2> HIDE DEF Good
  <2> QED BY <1>9, <1>10, Numbers
<1> QED BY <1>1, <1>7, <1>11 DEF Rest
-----------------------------------------------------------------------------
(* What is shared by all algorithms.                                        *)

SameWindow == \A p, q \in Paths : Window[p] = Window[q]

\* A client has one log or window, whatever the path.
Comparable == Modes \cap {"sliding", "fixed"} # {} => SameWindow

\* The entry of a client in the dict of an algorithm.
ClientEntry == [known : BOOLEAN, log : Seq(Nat), amount : Nat, at : Nat]
EntryUpTo(m, n) ==
  /\ m \in ClientEntry /\ m.at <= n
  /\ Ordered(m.log) /\ \A i \in 1..Len(m.log) : m.log[i] <= n

KeyTimes ==
  /\ expiry \in [Paths -> Nat] /\ lapsed \in [Paths -> Nat]
  /\ \A p \in Paths : lapsed[p] <= now

Shape ==
  /\ mode \in Modes
  /\ now \in Times
  /\ EntryUpTo(mem, now)
  /\ zset \in [Paths -> [Times -> Nat]]
  /\ admitted \in [Paths -> [Times -> Nat]]
  /\ honest \in [Paths -> Nat]
  /\ pending \subseteq [id : Pending, path : Paths, at : 0..now]
  /\ mode # "redis" => pending = {}
  /\ \A p \in Paths : \A t \in Times : t > now => zset[p][t] = 0 /\ admitted[p][t] = 0
  /\ KeyTimes

LEMMA MaxIsNat == ASSUME NEW x \in Modes PROVE MaxTime[x] \in Nat
BY MaxTimeAssumption

LEMMA LimitIsNat == ASSUME NEW p \in Paths PROVE Limit[p] \in Nat \ {0} /\ Window[p] \in Nat \ {0}
BY LimitsAssumption

LEMMA MaxOfMode ==
  ASSUME Shape
  PROVE  MaxTime[mode] \in Nat /\ Times = 0..MaxTime[mode] /\ now \in Nat /\ now <= MaxTime[mode]
BY MaxIsNat DEF Shape, Times

\* new is log without its first c entries, and with n.
Renewed(new, log, c, n) ==
  /\ new \in Seq(Nat) /\ Len(new) = Len(log) - c + 1 /\ new[Len(log) - c + 1] = n
  /\ \A i \in 1..(Len(log) - c) : new[i] = log[c + i]

\* A check of the sliding window: the first c of the k requests in the log are
\* cut off, and one is added.
SlidingSays(m, n, l, w, k, c, v) ==
  /\ k = Len(m.log) /\ Cuts(m.log, n - w, c)
  /\ v.ok => /\ k - c < l /\ Renewed(v.entry.log, m.log, c, n)
             /\ v.entry \in ClientEntry /\ v.entry.known /\ v.entry.at = m.at
  /\ ~v.ok => /\ c < k /\ v.entry = m /\ m.log[c + 1] + w > n /\ k - c >= l
              /\ v.retry = m.log[c + 1] + w - n

LEMMA SlidingIs ==
  ASSUME NEW n \in Nat, n = now, NEW m, EntryUpTo(m, n), NEW l \in Nat \ {0}, NEW w \in Nat \ {0}
  PROVE  \E k \in Nat, c \in Nat :
           c <= k /\ SlidingSays(m, n, l, w, k, c, Sliding(m, l, w))
<1>1. PICK log : log = m.log
  OBVIOUS
<1>2. Ordered(log) /\ log \in Seq(Nat)
  BY <1>1 DEF EntryUpTo, Ordered
<1>3. PICK k \in Nat : k = Len(log) /\ \A i \in 1..k : log[i] \in Nat /\ log[i] <= n
  BY <1>1, <1>2, LenProperties, ElementOfSeq DEF EntryUpTo
<1>4. PICK c \in 0..k : Cuts(log, n - w, c)
  BY <1>2, <1>3, CutExists
<1>5. PICK kept : kept = SubSeq(log, c + 1, k)
  OBVIOUS
<1>6. kept = Pruned(log, w)
  <2>1. n - w \in Int /\ c \in 0..Len(log)
    BY <1>3
  <2>2. Later(log, n - w) = SubSeq(log, c + 1, Len(log))
    BY <1>2, <1>4, <2>1, LaterIsRest
  <2> QED BY <1>3, <1>5, <2>2 DEF Pruned
<1>7. /\ kept \in Seq(Nat) /\ Len(kept) = k - c
      /\ \A i \in 1..(k - c) : kept[i] = log[c + i]
  <2>1. \A i \in (c + 1)..k : log[i] \in Nat
    BY <1>3
  <2>2. /\ kept \in Seq(Nat) /\ Len(kept) = IF c + 1 <= k THEN k - (c + 1) + 1 ELSE 0
        /\ \A i \in 1..(k - (c + 1) + 1) : kept[i] = log[(c + 1) + i - 1]
    BY <1>5, <2>1, SubSeqProperties
  <2>3. k - (c + 1) + 1 = k - c /\ \A i \in 1..(k - c) : (c + 1) + i - 1 = c + i
    OBVIOUS
  <2> QED BY <2>2, <2>3
<1>8. PICK v : v = Sliding(m, l, w)
  OBVIOUS
<1>9. CASE k - c < l
  <2>1. PICK g : g = Append(kept, n)
    OBVIOUS
  <2>2. /\ g \in Seq(Nat) /\ Len(g) = k - c + 1 /\ g[k - c + 1] = n
        /\ \A i \in 1..(k - c) : g[i] = kept[i]
    BY <1>7, <2>1, AppendProperties
  <2>3. v = Allowed([m EXCEPT !.known = TRUE, !.log = g])
    BY <1>1, <1>6, <1>7, <1>8, <1>9, <2>1 DEF Sliding, Recorded
  <2>4. PICK e : e = [m EXCEPT !.known = TRUE, !.log = g]
    OBVIOUS
  <2>5. e.known /\ e.log = g /\ e.at = m.at /\ e \in ClientEntry
    <3>1. m \in ClientEntry
      BY DEF EntryUpTo
    <3> QED BY <2>2, <2>4, <3>1 DEF ClientEntry
  <2>7. v.ok /\ v.entry = e
    BY <2>3, <2>4 DEF Allowed
  <2>6. \A i \in 1..(k - c) : g[i] = log[c + i]
    BY <1>7, <2>2
  <2>8. SlidingSays(m, n, l, w, k, c, v)
    <3>1. Renewed(g, log, c, n)
      BY <1>3, <2>2, <2>6 DEF Renewed
    <3> QED BY <1>1, <1>3, <1>4, <1>9, <2>5, <2>7, <3>1 DEF SlidingSays
  <2> QED BY <1>8, <2>8
<1>10. CASE ~(k - c < l)
  <2>1. v = Denied(m, Floor(0, w - (n - Head(kept))))
    BY <1>1, <1>6, <1>7, <1>8, <1>10 DEF Sliding
  <2>2. c < k /\ k - c >= l
    BY <1>10
  <2>3. PICK h \in Nat : h = log[c + 1] /\ h = kept[1]
    <3>1. c + 1 \in 1..k /\ 1 \in 1..(k - c)
      BY <2>2
    <3> QED BY <1>3, <1>7, <3>1
  <2>4. h + w > n
    <3>1. PICK j \in 1..k : j = c + 1
      BY <2>2
    <3>2. h = log[j]
      BY <2>3, <3>1
    <3>4. ~(j <= c)
      BY <3>1
    <3>3. log[j] <= n - w <=> j <= c
      BY <1>3, <1>4 DEF Cuts
    <3> QED BY <3>2, <3>3, <3>4
  <2>5. Head(kept) = h
    BY <1>7, <2>2, <2>3
  <2>6. Floor(0, w - (n - h)) = h + w - n
    BY <2>4 DEF Floor
  <2>7. ~v.ok /\ v.entry = m /\ v.retry = h + w - n
    BY <2>1, <2>5, <2>6 DEF Denied
  <2>8. SlidingSays(m, n, l, w, k, c, v)
    BY <1>1, <1>3, <1>4, <2>2, <2>3, <2>4, <2>7 DEF SlidingSays
  <2> QED BY <1>8, <2>8
<1> QED BY <1>9, <1>10
-----------------------------------------------------------------------------
(* Arithmetic of windows and buckets.                                       *)

Aligned(t, w) == \E k \in Int : t = k * w

LEMMA Distributes ==
  ASSUME NEW a \in Int, NEW b \in Int, NEW c \in Int
  PROVE  (a - b) * c = a * c - b * c /\ (a + b) * c = a * c + b * c
OBVIOUS

LEMMA ModIs ==
  ASSUME NEW n \in Nat, NEW w \in Nat \ {0}
  PROVE  n % w \in 0..(w - 1) /\ n - (n % w) \in Nat /\ Aligned(n - (n % w), w)
<1>1. n % w \in 0..(w - 1)
  OBVIOUS
<1>2. PICK q \in Nat : q = n \div w
  OBVIOUS
<1>3. (n % w) + w * (n \div w) = n
  OBVIOUS
<1>4. q * w = n - (n % w) /\ q * w >= 0
  BY <1>1, <1>2, <1>3
<1> QED BY <1>1, <1>4 DEF Aligned

\* Between two aligned instants lies at least one window.
LEMMA AlignedApart ==
  ASSUME NEW w \in Nat \ {0}, NEW s \in Int, NEW t \in Int, Aligned(s, w), Aligned(t, w), s < t
  PROVE  s + w <= t
<1>1. PICK i \in Int, j \in Int : s = i * w /\ t = j * w
  BY DEF Aligned
<1>2. i < j
  BY <1>1
<1>3. PICK k \in Nat : j = i + 1 + k
  BY <1>2
<1>4. j * w = i * w + w + k * w /\ k * w >= 0
  BY <1>3
<1> QED BY <1>1, <1>4

LEMMA CeilDivIs ==
  ASSUME NEW a \in Nat, NEW b \in Nat \ {0}
  PROVE  CeilDiv(a, b) \in Nat /\ CeilDiv(a, b) * b >= a
<1>1. PICK c \in Nat : c = a + b - 1
  OBVIOUS
<1>2. PICK q \in Nat : q = c \div b
  OBVIOUS
<1>3. (c % b) + b * (c \div b) = c /\ c % b \in 0..(b - 1)
  OBVIOUS
<1>4. q * b >= a
  BY <1>1, <1>2, <1>3
<1> QED BY <1>1, <1>2, <1>4 DEF CeilDiv

\* A check of the bucket: r is what it holds, w a token.
TokenSays(m, n, l, w, r, v) ==
  /\ v.entry \in ClientEntry /\ v.entry.known
  /\ v.entry.log = m.log /\ v.entry.at = n
  /\ ~m.known => r = l * w
  /\ m.known => /\ r <= m.amount + (n - m.at) * l
                /\ r <= l * w
                /\ r < l * w => r = m.amount + (n - m.at) * l
  /\ v.ok => r >= w /\ v.entry.amount = r - w
  /\ ~v.ok => /\ r < w /\ v.entry.amount = r
              /\ v.retry \in Nat /\ v.retry * l >= w - r

LEMMA TokenIs ==
  ASSUME NEW n \in Nat, n = now, NEW m, EntryUpTo(m, n), NEW l \in Nat \ {0}, NEW w \in Nat \ {0}
  PROVE  \E r \in Nat : TokenSays(m, n, l, w, r, Token(m, l, w))
<1>1. m \in ClientEntry /\ m.at \in Nat /\ m.at <= n /\ m.amount \in Nat
  <2>1. m \in ClientEntry /\ m.at <= n
    BY DEF EntryUpTo
  <2> QED BY <2>1 DEF ClientEntry
<1>2. PICK lw \in Nat : lw = l * w
  OBVIOUS
<1>3. PICK up \in Nat : up = m.amount + (n - m.at) * l
  <2>1. (n - m.at) * l \in Nat
    BY <1>1
  <2> QED BY <1>1, <2>1
<1>4. PICK r : r = Refilled(m, l, w)
  OBVIOUS
<1>5. r = IF m.known THEN IF lw < up THEN lw ELSE up ELSE lw
  BY <1>2, <1>3, <1>4 DEF Refilled, Cap
<1>6. r \in Nat /\ (~m.known => r = lw) /\ (m.known => r <= up /\ r <= lw /\ (r < lw => r = up))
  BY <1>5
<1>7. PICK v : v = Token(m, l, w)
  OBVIOUS
<1>8. ASSUME NEW a \in Nat, NEW e, e = [m EXCEPT !.known = TRUE, !.amount = a, !.at = now]
      PROVE  e.known /\ e.log = m.log /\ e.amount = a /\ e.at = n /\ e \in ClientEntry
  BY <1>1, <1>8 DEF ClientEntry
<1>9. CASE r >= w
  <2>1. PICK a \in Nat : a = r - w
    BY <1>6, <1>9
  <2>2. PICK e : e = [m EXCEPT !.known = TRUE, !.amount = a, !.at = now]
    OBVIOUS
  <2>3. v = Allowed(e)
    BY <1>4, <1>7, <1>9, <2>1, <2>2 DEF Token
  <2>4. v.ok /\ v.entry = e
    BY <2>3 DEF Allowed
  <2>5. TokenSays(m, n, l, w, r, v)
    <3>1. /\ v.entry \in ClientEntry /\ v.entry.known /\ v.entry.log = m.log
          /\ v.entry.at = n /\ v.entry.amount = a
      <4>1. v.entry = e
        BY <2>4
      <4>2. e \in ClientEntry /\ e.known /\ e.log = m.log /\ e.at = n /\ e.amount = a
        BY <1>8, <2>2
      <4> QED BY <4>1, <4>2
    <3> QED BY <1>2, <1>3, <1>6, <1>9, <2>1, <2>4, <3>1 DEF TokenSays
  <2> QED BY <1>6, <1>7, <2>5
<1>10. CASE ~(r >= w)
  <2>2. PICK e : e = [m EXCEPT !.known = TRUE, !.amount = r, !.at = now]
    OBVIOUS
  <2>3. v = Denied(e, WaitForToken(r, l, w))
    BY <1>4, <1>7, <1>10, <2>2 DEF Token
  <2>4. ~v.ok /\ v.entry = e /\ v.retry = CeilDiv(w - r, l)
    BY <2>3 DEF Denied, WaitForToken
  <2>5. w - r \in Nat /\ r < w
    BY <1>6, <1>10
  <2>6. v.retry \in Nat /\ v.retry * l >= w - r
    BY <2>4, <2>5, CeilDivIs
  <2>7. /\ v.entry \in ClientEntry /\ v.entry.known /\ v.entry.log = m.log
        /\ v.entry.at = n /\ v.entry.amount = r
    <3>1. v.entry = e
      BY <2>4
    <3>2. e \in ClientEntry /\ e.known /\ e.log = m.log /\ e.at = n /\ e.amount = r
      BY <1>6, <1>8, <2>2
    <3> QED BY <3>1, <3>2
  <2>8. TokenSays(m, n, l, w, r, v)
    BY <1>2, <1>3, <1>6, <2>4, <2>5, <2>6, <2>7 DEF TokenSays
  <2> QED BY <1>6, <1>7, <2>8
<1> QED BY <1>9, <1>10

\* A check of the window: b is its beginning, c what it has counted; s is the
\* beginning of the window that holds n.
FixedSays(m, n, l, w, s, b, c, v) ==
  /\ s = n - (n % w) /\ Aligned(s, w) /\ s <= b /\ b <= n /\ s + w > n
  /\ m.known /\ m.at >= s => b = m.at /\ c = m.amount
  /\ ~(m.known /\ m.at >= s) => b = s /\ c = 0
  /\ v.ok => /\ c < l /\ v.entry \in ClientEntry /\ v.entry.known
             /\ v.entry.log = m.log /\ v.entry.at = b /\ v.entry.amount = c + 1
  /\ ~v.ok => c >= l /\ v.entry = m /\ v.retry = b + w - n

LEMMA FixedIs ==
  ASSUME NEW n \in Nat, n = now, NEW m, EntryUpTo(m, n), NEW l \in Nat \ {0}, NEW w \in Nat \ {0}
  PROVE  \E s \in Nat, b \in Nat, c \in Nat : FixedSays(m, n, l, w, s, b, c, Fixed(m, l, w))
<1>1. m \in ClientEntry /\ m.at \in Nat /\ m.at <= n /\ m.amount \in Nat
  <2>1. m \in ClientEntry /\ m.at <= n
    BY DEF EntryUpTo
  <2> QED BY <2>1 DEF ClientEntry
<1>2. PICK s \in Nat : s = n - (n % w) /\ Aligned(s, w) /\ s <= n /\ s + w > n
  <2>1. n % w \in 0..(w - 1) /\ n - (n % w) \in Nat /\ Aligned(n - (n % w), w)
    BY ModIs
  <2>2. n - (n % w) <= n /\ n - (n % w) + w > n
    BY <2>1
  <2> QED BY <2>1, <2>2
<1>3. PICK v : v = Fixed(m, l, w)
  OBVIOUS
<1>4. PICK cur : cur = CurrentWindow(m, w)
  OBVIOUS
<1>5. /\ cur \in ClientEntry /\ cur.log = m.log
      /\ m.known /\ m.at >= s => cur = m
      /\ ~(m.known /\ m.at >= s) => cur.at = s /\ cur.amount = 0
  <2>1. CASE m.known /\ m.at >= s
    BY <1>1, <1>2, <1>4, <2>1 DEF CurrentWindow
  <2>2. CASE ~(m.known /\ m.at >= s)
    <3>1. cur = [m EXCEPT !.amount = 0, !.at = s]
      BY <1>2, <1>4, <2>2 DEF CurrentWindow
    <3> QED BY <1>1, <2>2, <3>1 DEF ClientEntry
  <2> QED BY <2>1, <2>2
<1>6. PICK b \in Nat, c \in Nat : b = cur.at /\ c = cur.amount
  BY <1>5 DEF ClientEntry
<1>7. /\ s <= b /\ b <= n
      /\ m.known /\ m.at >= s => b = m.at /\ c = m.amount
      /\ ~(m.known /\ m.at >= s) => b = s /\ c = 0
  BY <1>1, <1>2, <1>5, <1>6
<1>8. CASE c < l
  <2>1. PICK e : e = [cur EXCEPT !.known = TRUE, !.amount = c + 1]
    OBVIOUS
  <2>2. v = Allowed(e)
    <3>1. e = [cur EXCEPT !.known = TRUE, !.amount = @ + 1]
      BY <1>6, <2>1
    <3> QED BY <1>3, <1>4, <1>6, <1>8, <3>1 DEF Fixed
  <2>3. v.ok /\ v.entry = e
    BY <2>2 DEF Allowed
  <2>4. e \in ClientEntry /\ e.known /\ e.log = cur.log /\ e.at = b /\ e.amount = c + 1
    <3>1. PICK d \in Nat : d = c + 1
      OBVIOUS
    <3>2. e = [cur EXCEPT !.known = TRUE, !.amount = d] /\ cur \in ClientEntry
      BY <1>5, <2>1, <3>1
    <3>3. e \in ClientEntry /\ e.known /\ e.log = cur.log /\ e.at = cur.at /\ e.amount = d
      BY <3>2 DEF ClientEntry
    <3> QED BY <1>6, <3>1, <3>3
  <2>5. FixedSays(m, n, l, w, s, b, c, v)
    BY <1>2, <1>5, <1>7, <1>8, <2>3, <2>4 DEF FixedSays
  <2> QED BY <1>3, <2>5
<1>9. CASE ~(c < l)
  <2>1. v = Denied(m, Floor(0, b + w - n))
    BY <1>3, <1>4, <1>6, <1>9 DEF Fixed
  <2>2. Floor(0, b + w - n) = b + w - n
    BY <1>2, <1>7 DEF Floor
  <2>3. ~v.ok /\ v.entry = m /\ v.retry = b + w - n /\ c >= l
    BY <1>9, <2>1, <2>2 DEF Denied
  <2>4. FixedSays(m, n, l, w, s, b, c, v)
    BY <1>2, <1>7, <2>3 DEF FixedSays
  <2> QED BY <1>3, <2>4
<1> QED BY <1>8, <1>9
-----------------------------------------------------------------------------
(* The shape of the state.                                                  *)

LEMMA ModeIs ==
  ASSUME Shape
  PROVE  mode \in {"sliding", "token", "fixed", "redis"}
BY ModesAssumption DEF Shape

LEMMA VerdictIs ==
  ASSUME Shape, NEW p \in Paths
  PROVE  /\ mode = "sliding" => Verdict(p) = Sliding(mem, Limit[p], Window[p])
         /\ mode = "token" => Verdict(p) = Token(mem, Limit[p], Window[p])
         /\ mode = "fixed" => Verdict(p) = Fixed(mem, Limit[p], Window[p])
BY DEF Verdict

\* A check leaves a proper entry.
LEMMA VerdictShape ==
  ASSUME Shape, mode # "redis", NEW p \in Paths
  PROVE  EntryUpTo(Verdict(p).entry, now) /\ (~Verdict(p).ok => Verdict(p).retry \in Nat)
<1>m. PICK m : m = mem
  OBVIOUS
<1>1. PICK n \in Nat : n = now /\ m = mem /\ EntryUpTo(m, n)
  BY <1>m, MaxOfMode DEF Shape
<1>2. PICK l \in Nat \ {0}, w \in Nat \ {0} : l = Limit[p] /\ w = Window[p]
  BY LimitIsNat
<1>3. m \in ClientEntry /\ m.at \in Nat /\ m.at <= n /\ Ordered(m.log)
      /\ \A i \in 1..Len(m.log) : m.log[i] <= n
  <2>1. m \in ClientEntry /\ m.at <= n /\ Ordered(m.log) /\ \A i \in 1..Len(m.log) : m.log[i] <= n
    BY <1>1 DEF EntryUpTo
  <2> QED BY <2>1 DEF ClientEntry
<1>4. CASE mode = "sliding"
  <2>1. PICK v : v = Sliding(m, l, w)
    OBVIOUS
  <2>2. PICK k \in Nat, c \in Nat : c <= k /\ SlidingSays(m, n, l, w, k, c, v)
    BY <1>1, <2>1, SlidingIs
  <2>3. v = Verdict(p)
    BY <1>1, <1>2, <1>4, <2>1, VerdictIs
  <2>4. \A i \in 1..k : m.log[i] \in Nat /\ m.log[i] <= n
    <3>1. m.log \in Seq(Nat) /\ Len(m.log) = k
      BY <1>3, <2>2 DEF Ordered, SlidingSays
    <3> QED BY <1>3, <3>1, ElementOfSeq
  <2>5. CASE v.ok
    <3>0. k = Len(m.log) /\ Renewed(v.entry.log, m.log, c, n) /\ v.entry \in ClientEntry /\ v.entry.at = m.at
      BY <2>2, <2>5 DEF SlidingSays
    <3>1. PICK g \in Seq(Nat) :
            /\ v.entry \in ClientEntry /\ v.entry.log = g /\ v.entry.at = m.at
            /\ Len(g) = k - c + 1 /\ g[k - c + 1] = n
            /\ \A i \in 1..(k - c) : g[i] = m.log[c + i]
      BY <3>0 DEF Renewed
    <3>2. \A i \in 1..(k - c) : c + i \in 1..k /\ g[i] = m.log[c + i]
      BY <3>1
    <3>3. ASSUME NEW i \in 1..(k - c + 1) PROVE g[i] \in Nat /\ g[i] <= n
      <4>1. CASE i = k - c + 1
        BY <3>1, <4>1
      <4>2. CASE i # k - c + 1
        <5>1. i \in 1..(k - c)
          BY <4>2
        <5> QED BY <2>4, <3>2, <5>1
      <4> QED BY <4>1, <4>2
    <3>4. ASSUME NEW i \in 1..(k - c + 1), NEW j \in 1..(k - c + 1), i < j
          PROVE  g[i] <= g[j]
      <4>1. CASE j = k - c + 1
        BY <3>1, <3>3, <4>1
      <4>2. CASE j # k - c + 1
        <5>1. i \in 1..(k - c) /\ j \in 1..(k - c) /\ c + i < c + j
          BY <3>4, <4>2
        <5>2. m.log[c + i] <= m.log[c + j]
          BY <1>3, <2>2, <3>2, <5>1 DEF Ordered, SlidingSays
        <5> QED BY <3>2, <5>1, <5>2
      <4> QED BY <4>1, <4>2
    <3>5. Ordered(g)
      BY <3>1, <3>4 DEF Ordered
    <3>6. PICK e : e = v.entry
      OBVIOUS
    <3>7. e \in ClientEntry /\ e.at <= n /\ Ordered(e.log) /\ \A i \in 1..Len(e.log) : e.log[i] <= n
      BY <1>3, <3>1, <3>3, <3>5, <3>6
    <3> QED BY <1>1, <2>3, <2>5, <3>6, <3>7 DEF EntryUpTo
  <2>6. CASE ~v.ok
    <3>1. c + 1 \in 1..k
      BY <2>2, <2>6 DEF SlidingSays
    <3>2. v.retry \in Nat /\ v.entry = m
      BY <2>2, <2>4, <2>6, <3>1 DEF SlidingSays
    <3> QED BY <1>1, <2>3, <3>2
  <2> QED BY <2>5, <2>6
<1>5. CASE mode = "token"
  <2>0. PICK v : v = Token(m, l, w)
    OBVIOUS
  <2>1. /\ v.entry \in ClientEntry /\ v.entry.log = m.log /\ v.entry.at = n
        /\ ~v.ok => v.retry \in Nat
    <3>1. PICK r \in Nat : TokenSays(m, n, l, w, r, v)
      BY <1>1, <2>0, TokenIs
    <3> QED BY <3>1 DEF TokenSays
  <2>2. v = Verdict(p)
    BY <1>1, <1>2, <1>5, <2>0, VerdictIs
  <2>3. EntryUpTo(v.entry, n)
    BY <1>3, <2>1 DEF EntryUpTo
  <2> QED BY <1>1, <2>1, <2>2, <2>3
<1>6. CASE mode = "fixed"
  <2>0. PICK v : v = Fixed(m, l, w)
    OBVIOUS
  <2>1. PICK s \in Nat, b \in Nat, c \in Nat : FixedSays(m, n, l, w, s, b, c, v)
    BY <1>1, <2>0, FixedIs
  <2>2. v = Verdict(p)
    BY <1>1, <1>2, <1>6, <2>0, VerdictIs
  <2>3. v.ok => EntryUpTo(v.entry, n)
    BY <1>3, <2>1 DEF EntryUpTo, FixedSays
  <2>4. ~v.ok => v.entry = m /\ v.retry \in Nat
    BY <2>1 DEF FixedSays
  <2> QED BY <1>1, <2>2, <2>3, <2>4
<1> QED BY <1>4, <1>5, <1>6, ModeIs

LEMMA ShapeInit == LimiterInit => Shape
<1> SUFFICES ASSUME LimiterInit PROVE Shape
  OBVIOUS
<1>1. mode \in Modes /\ MaxTime[mode] \in Nat /\ now = 0 /\ mem = Unknown
  BY MaxIsNat DEF LimiterInit
<1>2. now \in Times /\ Never \in Nat
  BY <1>1 DEF Times, Never
<1>3. EntryUpTo(mem, now)
  <2>1. Unknown \in ClientEntry /\ Unknown.log = <<>> /\ Unknown.at = 0
    BY EmptySeq DEF Unknown, ClientEntry
  <2>2. Len(<<>>) = 0 /\ <<>> \in Seq(Nat)
    BY EmptySeq
  <2>3. Ordered(<<>>) /\ 1..Len(<<>>) = {}
    BY <2>2 DEF Ordered
  <2> QED BY <1>1, <2>1, <2>3 DEF EntryUpTo
<1>4. NoRequests \in [Times -> Nat] /\ \A t \in Times : NoRequests[t] = 0
  BY DEF NoRequests
<1>5. /\ zset \in [Paths -> [Times -> Nat]] /\ admitted \in [Paths -> [Times -> Nat]]
      /\ honest \in [Paths -> Nat]
      /\ \A p \in Paths : \A t \in Times : t > now => zset[p][t] = 0 /\ admitted[p][t] = 0
  BY <1>2, <1>4 DEF LimiterInit
<1>6. KeyTimes
  BY DEF LimiterInit, KeyTimes
<1> QED BY <1>1, <1>2, <1>3, <1>5, <1>6 DEF LimiterInit, Shape

\* A request is admitted at its instant.
LEMMA AdmitIs ==
  ASSUME Shape, NEW p \in Paths, NEW at \in Times, at <= now, Admit(p, at)
  PROVE  /\ admitted' \in [Paths -> [Times -> Nat]]
         /\ \A q \in Paths : q # p => admitted'[q] = admitted[q]
         /\ admitted'[p] = Plus(admitted[p], at)
         /\ \A q \in Paths : \A t \in Times : t > now => admitted'[q][t] = 0
<1>1. PICK a : a = admitted /\ a \in [Paths -> [Times -> Nat]]
  BY DEF Shape
<1>2. PICK f : f = Plus(a[p], at)
  OBVIOUS
<1>3. f \in [Times -> Nat] /\ \A t \in Times : t # at => f[t] = a[p][t]
  BY <1>1, <1>2 DEF Plus
<1>4. admitted' = [a EXCEPT ![p] = f]
  BY <1>1, <1>2 DEF Admit, Plus
<1>5. admitted'[p] = f /\ \A q \in Paths : q # p => admitted'[q] = a[q]
  BY <1>1, <1>4
<1>6. admitted' \in [Paths -> [Times -> Nat]]
  BY <1>1, <1>3, <1>4
<1>7. \A t \in Times : t > now => t # at
  BY MaxOfMode
<1>8. ASSUME NEW q \in Paths, NEW t \in Times, t > now PROVE admitted'[q][t] = 0
  <2>1. a[q][t] = 0 /\ t # at
    BY <1>1, <1>7, <1>8 DEF Shape
  <2> QED BY <1>3, <1>5, <2>1
<1> QED BY <1>1, <1>2, <1>5, <1>6, <1>8
\* The times of the keys move with the clock.
LEMMA KeyTimesKept == ASSUME Shape, [LimiterNext]_limiterVars PROVE KeyTimes'
<1>1. PICK n \in Nat : n = now
  BY MaxOfMode
<1>2. PICK x, l : x = expiry /\ l = lapsed
  OBVIOUS
<1>3. x \in [Paths -> Nat] /\ l \in [Paths -> Nat] /\ \A q \in Paths : l[q] <= n
  BY <1>1, <1>2 DEF Shape, KeyTimes
<1>4. ASSUME now' \in Nat, n <= now',
             \/ expiry' = x
             \/ \E p \in Paths : expiry' = [x EXCEPT ![p] = n + Window[p]],
             \/ lapsed' = l
             \/ \E p \in Paths : lapsed' = [l EXCEPT ![p] = n]
      PROVE  KeyTimes'
  <2>1. PICK n1 \in Nat : n1 = now' /\ n <= n1
    BY <1>4
  <2>2. expiry' \in [Paths -> Nat]
    <3>1. \A p \in Paths : n + Window[p] \in Nat
      BY LimitIsNat
    <3> QED BY <1>3, <1>4, <3>1
  <2>3. lapsed' \in [Paths -> Nat]
    BY <1>3, <1>4
  <2>4. ASSUME NEW q \in Paths PROVE lapsed'[q] <= n1
    <3>1. lapsed'[q] = l[q] \/ lapsed'[q] = n
      BY <1>3, <1>4
    <3>2. l[q] \in Nat /\ l[q] <= n
      BY <1>3
    <3> QED BY <2>1, <3>1, <3>2
  <2> QED BY <2>1, <2>2, <2>3, <2>4 DEF KeyTimes
<1>5. CASE UNCHANGED limiterVars
  BY <1>1, <1>2, <1>4, <1>5 DEF limiterVars, keyVars
<1>6. ASSUME NEW p \in Paths,
             CheckMemory(p) \/ CheckRedis(p) \/ KeyExpires(p) \/ ResetMemory(p) \/ ResetRedis(p)
      PROVE  KeyTimes'
  <2>1. now' = n /\ expiry' = x /\ (lapsed' = l \/ lapsed' = [l EXCEPT ![p] = n])
    BY <1>1, <1>2, <1>6 DEF CheckMemory, CheckRedis, KeyExpires, ResetMemory, ResetRedis, keyVars
  <2> QED BY <1>1, <1>4, <2>1
<1>7. ASSUME NEW c \in pending, RedisAnswers(c) \/ RedisFails(c) PROVE KeyTimes'
  <2>1. c.path \in Paths
    BY DEF Shape
  <2>2. now' = n /\ lapsed' = l /\ (expiry' = x \/ expiry' = [x EXCEPT ![c.path] = n + Window[c.path]])
    BY <1>1, <1>2, <1>7 DEF RedisAnswers, RedisFails, Counted, Deadline
  <2> QED BY <1>1, <1>4, <2>1, <2>2
<1>8. ASSUME Tick PROVE KeyTimes'
  <2>1. now' = n + 1 /\ expiry' = x /\ lapsed' = l
    BY <1>1, <1>2, <1>8 DEF Tick, keyVars
  <2> QED BY <1>1, <1>4, <2>1
<1> QED BY <1>5, <1>6, <1>7, <1>8 DEF LimiterNext

LEMMA ShapeNext == Shape /\ [LimiterNext]_limiterVars => Shape'
<1> SUFFICES ASSUME Shape, [LimiterNext]_limiterVars PROVE Shape'
  OBVIOUS
<1>k. KeyTimes'
  BY KeyTimesKept
<1>0. now \in Nat /\ now <= MaxTime[mode] /\ MaxTime[mode] \in Nat /\ Times = 0..MaxTime[mode]
  BY MaxOfMode
<1>z. NoRequests \in [Times -> Nat] /\ \A t \in Times : NoRequests[t] = 0
  BY DEF NoRequests
<1>1. ASSUME NEW p \in Paths, CheckMemory(p) PROVE Shape'
  <2>0. PICK e : e = Verdict(p).entry
    OBVIOUS
  <2>1. mode # "redis" /\ mem' = e /\ UNCHANGED <<mode, now, zset, pending>>
    BY <1>1, <2>0 DEF CheckMemory, keyVars
  <2>2. EntryUpTo(e, now) /\ (~Verdict(p).ok => Verdict(p).retry \in Nat)
    BY <2>0, <2>1, VerdictShape
  <2>3. Times' = Times /\ Never' = Never
    BY <2>1 DEF Times, Never
  <2>4. EntryUpTo(mem', now')
    BY <2>1, <2>2
  <2>5. /\ admitted' \in [Paths -> [Times -> Nat]]
        /\ \A q \in Paths : \A t \in Times : t > now => admitted'[q][t] = 0
    <3>1. CASE Admit(p, now)
      <4>1. now \in Times /\ now <= now
        BY <1>0
      <4> QED BY <3>1, <4>1, AdmitIs
    <3>2. CASE UNCHANGED admitted
      BY <3>2 DEF Shape
    <3> QED BY <1>1, <3>1, <3>2 DEF CheckMemory
  <2>6. honest' \in [Paths -> Nat]
    <3>1. CASE Verdict(p).ok
      <4>1. honest' = [q \in Paths |-> Never]
        BY <1>1, <3>1 DEF CheckMemory
      <4> QED BY <1>0, <4>1 DEF Never
    <3>2. CASE ~Verdict(p).ok
      <4>1. honest' = [honest EXCEPT ![p] = now + Verdict(p).retry]
        BY <1>1, <3>2 DEF CheckMemory
      <4>2. now + Verdict(p).retry \in Nat
        BY <1>0, <2>2, <3>2
      <4> QED BY <4>1, <4>2 DEF Shape
    <3> QED BY <3>1, <3>2
  <2> QED BY <1>k, <2>1, <2>3, <2>4, <2>5, <2>6 DEF Shape
<1>2. ASSUME NEW p \in Paths, CheckRedis(p) PROVE Shape'
  <2>1. UNCHANGED <<mode, now, mem, zset, admitted, honest>>
    BY <1>2 DEF CheckRedis, keyVars
  <2>2. PICK id \in Pending : pending' = pending \cup {[id |-> id, path |-> p, at |-> now]}
    BY <1>2 DEF CheckRedis
  <2>3. mode = "redis" /\ pending' \subseteq [id : Pending, path : Paths, at : 0..now]
    BY <1>0, <1>2, <2>2 DEF Shape, CheckRedis
  <2>4. Times' = Times
    BY <2>1 DEF Times
  <2> QED BY <1>k, <2>1, <2>3, <2>4 DEF Shape
<1>3. ASSUME NEW p \in Paths, ResetMemory(p) PROVE Shape'
  <2>1. mem' = Unknown /\ admitted' = [q \in Paths |-> NoRequests] /\ UNCHANGED <<mode, now, zset, pending, honest>>
    BY <1>3 DEF ResetMemory, keyVars
  <2>2. Times' = Times
    BY <2>1 DEF Times
  <2>3. EntryUpTo(Unknown, now)
    <3>1. Unknown \in ClientEntry /\ Unknown.log = <<>> /\ Unknown.at = 0
      BY EmptySeq DEF Unknown, ClientEntry
    <3>2. Len(<<>>) = 0 /\ <<>> \in Seq(Nat)
      BY EmptySeq
    <3>3. Ordered(<<>>) /\ 1..Len(<<>>) = {}
      BY <3>2 DEF Ordered
    <3> QED BY <1>0, <3>1, <3>3 DEF EntryUpTo
  <2>4. EntryUpTo(mem', now')
    BY <2>1, <2>3
  <2>5. admitted' \in [Paths -> [Times -> Nat]] /\ \A q \in Paths : \A t \in Times : admitted'[q][t] = 0
    BY <1>z, <2>1
  <2> QED BY <1>k, <2>1, <2>2, <2>4, <2>5 DEF Shape
<1>4. ASSUME NEW p \in Paths, ResetRedis(p) PROVE Shape'
  <2>1. /\ zset' = [zset EXCEPT ![p] = NoRequests] /\ admitted' = [admitted EXCEPT ![p] = NoRequests]
        /\ UNCHANGED <<mode, now, mem, pending, honest>>
    BY <1>4 DEF ResetRedis
  <2>2. Times' = Times
    BY <2>1 DEF Times
  <2>3. /\ zset' \in [Paths -> [Times -> Nat]] /\ admitted' \in [Paths -> [Times -> Nat]]
        /\ \A q \in Paths : \A t \in Times : t > now => zset'[q][t] = 0 /\ admitted'[q][t] = 0
    BY <1>z, <2>1 DEF Shape
  <2> QED BY <1>k, <2>1, <2>2, <2>3 DEF Shape
<1>x. ASSUME NEW p \in Paths, KeyExpires(p) PROVE Shape'
  <2>1. zset' = [zset EXCEPT ![p] = NoRequests] /\ UNCHANGED <<mode, now, mem, pending, admitted, honest>>
    BY <1>x DEF KeyExpires
  <2>2. Times' = Times
    BY <2>1 DEF Times
  <2>3. /\ zset' \in [Paths -> [Times -> Nat]]
        /\ \A q \in Paths : \A t \in Times : t > now => zset'[q][t] = 0
    BY <1>z, <2>1 DEF Shape
  <2> QED BY <1>k, <2>1, <2>2, <2>3 DEF Shape
<1>5. ASSUME NEW c \in pending, RedisAnswers(c) \/ RedisFails(c) PROVE Shape'
  <2>1. pending' = pending \ {c} /\ UNCHANGED <<mode, now, mem, honest>>
    BY <1>5 DEF RedisAnswers, RedisFails
  <2>2. c.path \in Paths /\ c.at \in 0..now /\ c.at \in Times
    BY <1>0 DEF Shape
  <2>3. Times' = Times
    BY <2>1 DEF Times
  <2>4. /\ admitted' \in [Paths -> [Times -> Nat]]
        /\ \A q \in Paths : \A t \in Times : t > now => admitted'[q][t] = 0
    <3>1. CASE Admit(c.path, c.at)
      <4>1. PICK p \in Paths, t \in Times : p = c.path /\ t = c.at /\ t <= now
        BY <1>0, <2>2
      <4>2. Admit(p, t)
        BY <3>1, <4>1
      <4> QED BY <4>1, <4>2, AdmitIs
    <3>2. CASE UNCHANGED admitted
      BY <3>2 DEF Shape
    <3>3. Admit(c.path, c.at) \/ UNCHANGED admitted
      BY <1>5 DEF RedisAnswers, RedisFails
    <3> QED BY <3>1, <3>2, <3>3
  <2>5. /\ zset' \in [Paths -> [Times -> Nat]]
        /\ \A q \in Paths : \A t \in Times : t > now => zset'[q][t] = 0
    <3>1. CASE Counted(c)
      <4>1. PICK z : z = zset /\ z \in [Paths -> [Times -> Nat]]
        BY DEF Shape
      <4>2. PICK y : y = WithRequest(z[c.path], c)
        OBVIOUS
      <4>3. zset' = [z EXCEPT ![c.path] = y]
        BY <3>1, <4>1, <4>2 DEF Counted
      <4>4. y \in [Times -> Nat] /\ \A t \in Times : t > now => y[t] = 0
        <5>1. PICK x : x = z[c.path] /\ x \in [Times -> Nat]
          BY <2>2, <4>1
        <5>2. \A t \in Times : t > now => x[t] = 0 /\ t # c.at
          BY <1>0, <2>2, <4>1, <5>1 DEF Shape
        <5>3. y = [t \in Times |-> IF t <= c.at - Window[c.path] THEN 0
                                   ELSE IF t = c.at THEN x[t] + 1 ELSE x[t]]
          BY <4>2, <5>1 DEF WithRequest
        <5> QED BY <5>1, <5>2, <5>3
      <4>5. zset'[c.path] = y /\ \A q \in Paths : q # c.path => zset'[q] = z[q]
        BY <2>2, <4>1, <4>3
      <4>6. ASSUME NEW q \in Paths, NEW t \in Times, t > now PROVE zset'[q][t] = 0
        <5>1. z[q][t] = 0
          BY <4>1, <4>6 DEF Shape
        <5> QED BY <4>4, <4>5, <4>6, <5>1
      <4>7. zset' \in [Paths -> [Times -> Nat]]
        BY <4>1, <4>3, <4>4
      <4> QED BY <4>6, <4>7
    <3>2. CASE UNCHANGED zset
      BY <3>2 DEF Shape
    <3>3. Counted(c) \/ UNCHANGED zset
      BY <1>5 DEF RedisAnswers, RedisFails
    <3> QED BY <3>1, <3>2, <3>3
  <2> QED BY <1>k, <2>1, <2>3, <2>4, <2>5 DEF Shape
<1>6. ASSUME Tick PROVE Shape'
  <2>1. now < MaxTime[mode] /\ now' = now + 1 /\ UNCHANGED <<mode, mem, zset, pending, admitted, honest>>
    BY <1>6 DEF Tick, keyVars
  <2>2. Times' = Times /\ now' \in Times
    BY <1>0, <2>1 DEF Times
  <2>3. EntryUpTo(mem, now')
    <3>m. PICK m : m = mem
      OBVIOUS
    <3>1. PICK n \in Nat : n = now /\ m = mem
      BY <1>0, <3>m
    <3>2. m \in ClientEntry /\ m.at <= n /\ Ordered(m.log) /\ \A i \in 1..Len(m.log) : m.log[i] <= n
      BY <3>1 DEF Shape, EntryUpTo
    <3>3. m.log \in Seq(Nat) /\ m.at \in Nat
      BY <3>2 DEF ClientEntry
    <3>4. \A i \in 1..Len(m.log) : m.log[i] \in Nat
      BY <3>3, ElementOfSeq
    <3>5. m.at <= n + 1 /\ \A i \in 1..Len(m.log) : m.log[i] <= n + 1
      BY <3>2, <3>3, <3>4
    <3>6. EntryUpTo(m, n + 1)
      BY <3>2, <3>5 DEF EntryUpTo
    <3> QED BY <2>1, <3>1, <3>6
  <2>4. EntryUpTo(mem', now')
    BY <2>1, <2>3
  <2>5. pending' \subseteq [id : Pending, path : Paths, at : 0..now']
    <3>1. 0..now \subseteq 0..now'
      BY <1>0, <2>1
    <3> QED BY <2>1, <3>1 DEF Shape
  <2>6. \A t \in Times : t > now' => t > now
    BY <1>0, <2>1
  <2> QED BY <1>k, <2>1, <2>2, <2>4, <2>5, <2>6 DEF Shape
<1>7. CASE UNCHANGED limiterVars
  BY <1>k, <1>7 DEF limiterVars, keyVars, Shape, Times
<1> QED BY <1>1, <1>2, <1>3, <1>4, <1>x, <1>5, <1>6, <1>7 DEF LimiterNext

\* The shape is the type invariant that the runs check.
LEMMA ShapeIsType == Shape => LimiterTypes
<1> SUFFICES ASSUME Shape PROVE LimiterTypes
  OBVIOUS
<1>m. PICK m : m = mem
  OBVIOUS
<1>1. PICK n \in Nat : n = now /\ m = mem /\ EntryUpTo(m, n)
  BY <1>m, MaxOfMode DEF Shape
<1>2. m \in ClientEntry /\ m.at <= n /\ Ordered(m.log) /\ \A i \in 1..Len(m.log) : m.log[i] <= n
  BY <1>1 DEF EntryUpTo
<1>3. m.known \in BOOLEAN /\ m.at \in 0..n /\ m.log \in Seq(Nat)
  BY <1>2 DEF ClientEntry
<1>4. DOMAIN m.log = 1..Len(m.log) /\ \A i \in 1..Len(m.log) : m.log[i] \in Nat
  BY <1>3, LenProperties, ElementOfSeq
<1>5. \A i \in DOMAIN m.log : m.log[i] \in 0..n
  BY <1>2, <1>4
<1>6. \A i, j \in DOMAIN m.log : i < j => m.log[i] <= m.log[j]
  BY <1>2, <1>4 DEF Ordered
<1>7. \A p \in Paths : \A t \in Times : zset[p][t] > 0 => t <= now
  <2>1. ASSUME NEW p \in Paths, NEW t \in Times PROVE zset[p][t] > 0 => t <= now
    <3>1. t \in Nat
      BY MaxOfMode
    <3>2. t > now => zset[p][t] = 0
      BY DEF Shape
    <3> QED BY <1>1, <3>1, <3>2
  <2> QED BY <2>1
<1> QED BY <1>1, <1>3, <1>5, <1>6, <1>7 DEF Shape, KeyTimes, LimiterTypes
\* What a check in memory does to the state.
LEMMA AfterCheck ==
  ASSUME Shape, NEW p \in Paths, CheckMemory(p)
  PROVE  /\ mode' = mode /\ now' = now /\ mem' = Verdict(p).entry
         /\ \A q \in Paths : admitted'[q] = IF q = p /\ Verdict(p).ok
                                            THEN Plus(admitted[q], now)
                                            ELSE admitted[q]
         /\ Verdict(p).ok => \A q \in Paths : honest'[q] = Never
         /\ ~Verdict(p).ok => \A q \in Paths : honest'[q] = IF q = p THEN now + Verdict(p).retry
                                                            ELSE honest[q]
<1>1. mode' = mode /\ now' = now /\ mem' = Verdict(p).entry
  BY DEF CheckMemory
<1>2. CASE Verdict(p).ok
  <2>1. Admit(p, now) /\ honest' = [q \in Paths |-> Never]
    BY <1>2 DEF CheckMemory
  <2>2. now \in Times /\ now <= now
    BY MaxOfMode
  <2>3. /\ \A q \in Paths : q # p => admitted'[q] = admitted[q]
        /\ admitted'[p] = Plus(admitted[p], now)
    BY <2>1, <2>2, AdmitIs
  <2>4. \A q \in Paths : honest'[q] = Never
    BY <2>1
  <2> QED BY <1>1, <1>2, <2>3, <2>4
<1>3. CASE ~Verdict(p).ok
  <2>1. admitted' = admitted /\ honest' = [honest EXCEPT ![p] = now + Verdict(p).retry]
    BY <1>3 DEF CheckMemory
  <2>2. \A q \in Paths : honest'[q] = IF q = p THEN now + Verdict(p).retry ELSE honest[q]
    BY <2>1 DEF Shape
  <2> QED BY <1>1, <1>3, <2>1, <2>2
<1> QED BY <1>2, <1>3

\* Without Redis nothing else happens.
LEMMA MemorySteps ==
  ASSUME Shape, [LimiterNext]_limiterVars, mode # "redis"
  PROVE  \/ \E p \in Paths : CheckMemory(p) \/ ResetMemory(p)
         \/ Tick
         \/ UNCHANGED limiterVars
<1>1. pending = {}
  BY DEF Shape
<1>2. \A p \in Paths : ~CheckRedis(p) /\ ~KeyExpires(p) /\ ~ResetRedis(p)
  BY DEF CheckRedis, KeyExpires, ResetRedis
<1> QED BY <1>1, <1>2 DEF LimiterNext

\* The requests that are let through, as functions of time.
LEMMA AdmittedIs ==
  ASSUME Shape, NEW p \in Paths
  PROVE  /\ admitted[p] \in [0..MaxTime[mode] -> Nat]
         /\ zset[p] \in [0..MaxTime[mode] -> Nat]
         /\ \A t \in 0..MaxTime[mode] : t > now => zset[p][t] = 0 /\ admitted[p][t] = 0
BY MaxOfMode DEF Shape

LEMMA AdmissionsAre ==
  ASSUME NEW p \in Paths, NEW a, NEW b
  PROVE  Admissions(p, a, b) = Sum(admitted[p], MaxTime[mode], a, b)
BY DEF Admissions, Sum, Total, Within, Times

-----------------------------------------------------------------------------
(* The sliding window.                                                      *)

\* The log holds, besides the requests let through after a, all of its own
\* entries up to a: so it is long enough to refuse what is too much.
Logged(f, max, log, n, w) ==
  \A a \in Int, m \in 0..Len(log) :
    n - w <= a /\ (m = 0 \/ log[m] <= a) => Sum(f, max, a, n) + m <= Len(log)

SlidingInv ==
  mode = "sliding" => \A p \in Paths :
    /\ Sum(admitted[p], MaxTime[mode], now - Window[p], now) <= Limit[p]
    /\ Logged(admitted[p], MaxTime[mode], mem.log, now, Window[p])

\* g counts at most one request more than f.
AtMostOneMore(g, f, max, n) ==
  g \in [0..max -> Nat] /\ \A a \in Int : Sum(g, max, a, n) <= Sum(f, max, a, n) + 1

LEMMA LoggedWhenAdmitted ==
  ASSUME NEW max \in Nat, NEW n \in 0..max, NEW w \in Nat, NEW f \in [0..max -> Nat],
         NEW log, Ordered(log), NEW c \in Nat, c <= Len(log),
         Cuts(log, n - w, c), Logged(f, max, log, n, w),
         NEW new, Renewed(new, log, c, n), NEW g, AtMostOneMore(g, f, max, n)
  PROVE  Sum(f, max, n - w, n) <= Len(log) - c /\ Logged(g, max, new, n, w)
<1>1. n \in Nat /\ n \in Int
  OBVIOUS
<1>k. PICK k \in Nat : k = Len(log) /\ c <= k
  BY LenProperties DEF Ordered
<1>e. PICK d \in Nat : d = k - c
  <2>1. k - c \in Nat
    BY <1>k
  <2> QED BY <2>1
<1>d. d = Len(log) - c /\ k = c + d
  BY <1>k, <1>e
<1>0. /\ new \in Seq(Nat) /\ Len(new) = d + 1 /\ new[d + 1] = n
      /\ \A i \in 1..d : new[i] = log[c + i]
  BY <1>d DEF Renewed
<1>2. c = 0 \/ log[c] <= n - w
  <2>1. CASE c # 0
    <3>1. c \in 1..Len(log) /\ c <= c
      BY <1>k, <2>1
    <3> QED BY <3>1 DEF Cuts
  <2> QED BY <2>1
<1>3. \A a \in Int, b \in Int : Sum(f, max, a, b) \in Nat
  BY SumIsNat
<1>4. ASSUME NEW a \in Int, NEW m \in Nat, m <= k, n - w <= a, m = 0 \/ log[m] <= a
      PROVE  Sum(f, max, a, n) + m <= k
  <2>1. m \in 0..Len(log)
    BY <1>k, <1>4
  <2> QED BY <1>k, <1>4, <2>1 DEF Logged
<1>5. Sum(f, max, n - w, n) <= d
  <2>1. PICK a \in Int : a = n - w /\ n - w <= a
    BY <1>1
  <2>2. c = 0 \/ log[c] <= a
    BY <1>2, <2>1
  <2>3. Sum(f, max, a, n) + c <= k
    BY <1>k, <1>4, <2>1, <2>2
  <2>6. Sum(f, max, a, n) \in Nat
    BY <1>1, <1>3
  <2>4. PICK x \in Nat : x = Sum(f, max, a, n)
    BY <2>6
  <2>5. x <= d
    BY <1>d, <2>3, <2>4
  <2> QED BY <2>1, <2>4, <2>5
<1>7. ASSUME NEW a \in Int, NEW m \in Nat, m <= d + 1, n - w <= a, m = 0 \/ new[m] <= a
      PROVE  Sum(g, max, a, n) + m <= d + 1
  <2>0. g \in [0..max -> Nat] /\ Sum(g, max, a, n) <= Sum(f, max, a, n) + 1
    BY DEF AtMostOneMore
  <2>1. CASE m = d + 1
    <3>1. n <= a
      <4>1. m # 0 /\ new[m] = n
        BY <1>0, <2>1
      <4> QED BY <1>7, <4>1
    <3>2. Sum(g, max, a, n) = 0
      <4>1. \A t \in 0..max : a < t /\ t <= n => g[t] = 0
        BY <1>1, <3>1
      <4> QED BY <4>1, <1>1, SumOfZeros
    <3> QED BY <2>1, <3>2
  <2>2. CASE m # d + 1
    <3>1. PICK j \in Nat : j = c + m /\ j <= k
      BY <1>d, <1>7, <2>2, SMTT(30)
    <3>2. j = 0 \/ log[j] <= a
      <4>1. CASE m = 0
        <5>1. j = c
          BY <3>1, <4>1
        <5>2. c # 0 => log[c] \in Nat
          <6>1. c # 0 => c \in 1..Len(log)
            BY <1>k
          <6> QED BY <6>1, ElementOfSeq DEF Ordered
        <5> QED BY <1>1, <1>2, <1>7, <5>1, <5>2
      <4>2. CASE m # 0
        <5>1. m \in 1..d
          BY <1>7, <2>2, <4>2
        <5>2. new[m] = log[j]
          BY <1>0, <3>1, <5>1
        <5> QED BY <1>7, <4>2, <5>2
      <4> QED BY <4>1, <4>2
    <3>3. Sum(f, max, a, n) + j <= k
      BY <1>4, <1>7, <3>1, <3>2
    <3>4. PICK x \in Nat, y \in Nat : x = Sum(f, max, a, n) /\ y = Sum(g, max, a, n)
      <4>1. n \in Int
        BY <1>1
      <4>2. Sum(g, max, a, n) \in Nat
        BY <2>0, <4>1, SumIsNat
      <4>3. Sum(f, max, a, n) \in Nat
        BY <1>3, <4>1
      <4> QED BY <4>2, <4>3
    <3>5. y <= x + 1 /\ x + (c + m) <= c + d
      BY <1>d, <2>0, <3>1, <3>3, <3>4
    <3> QED BY <3>4, <3>5, SMTT(30)
  <2> QED BY <2>1, <2>2
<1>8. Logged(g, max, new, n, w)
  <2>1. ASSUME NEW a \in Int, NEW m \in 0..Len(new), n - w <= a, m = 0 \/ new[m] <= a
        PROVE  Sum(g, max, a, n) + m <= Len(new)
    <3>1. m \in Nat /\ m <= d + 1
      BY <1>0
    <3> QED BY <1>0, <1>7, <2>1, <3>1
  <2> QED BY <2>1 DEF Logged
<1> QED BY <1>d, <1>5, <1>8

LEMMA OneMore ==
  ASSUME NEW max \in Nat, NEW n \in 0..max, NEW f \in [0..max -> Nat]
  PROVE  /\ AtMostOneMore(f, f, max, n)
         /\ AtMostOneMore(Plus(f, n), f, max, n)
<1>1. n \in Int /\ \A a \in Int : Sum(f, max, a, n) \in Nat
  BY SumIsNat
<1>2. \A a \in Int : Sum(f, max, a, n) <= Sum(f, max, a, n) + 1
  BY <1>1
<1>3. PICK g : g = Plus(f, n)
  OBVIOUS
<1>4. ASSUME NEW a \in Int PROVE g \in [0..max -> Nat] /\ Sum(g, max, a, n) <= Sum(f, max, a, n) + 1
  <2>1. /\ g \in [0..max -> Nat]
        /\ Sum(g, max, a, n) = Sum(f, max, a, n) + (IF a < n /\ n <= n THEN 1 ELSE 0)
    BY <1>1, <1>3, SumOneMore
  <2>2. PICK x \in Nat : x = Sum(f, max, a, n)
    BY <1>1
  <2>3. Sum(g, max, a, n) = x + (IF a < n /\ n <= n THEN 1 ELSE 0)
    BY <2>1, <2>2
  <2>4. Sum(g, max, a, n) <= x + 1
    BY <2>3
  <2> QED BY <2>1, <2>2, <2>4
<1>5. g \in [0..max -> Nat]
  BY <1>4
<1>6. AtMostOneMore(g, f, max, n)
  BY <1>4, <1>5 DEF AtMostOneMore
<1> QED BY <1>2, <1>3, <1>6 DEF AtMostOneMore

\* The next instant adds nothing by itself.
LEMMA SumAtNext ==
  ASSUME NEW max \in Nat, NEW n \in Nat, NEW f \in [0..max -> Nat], NEW a \in Int,
         \A t \in 0..max : t > n => f[t] = 0
  PROVE  Sum(f, max, a, n + 1) = Sum(f, max, a, n)
<1>1. CASE a <= n
  BY <1>1, SumUpTo
<1>2. CASE ~(a <= n)
  <2>1. PICK b \in Int : b = n + 1
    OBVIOUS
  <2>2. n \in Int
    OBVIOUS
  <2>3. \A t \in 0..max : ~(a < t /\ t <= n) /\ ~(a < t /\ t <= b)
    BY <1>2, <2>1
  <2>4. Sum(f, max, a, b) = 0
    BY <2>3, SumOfZeros
  <2>5. Sum(f, max, a, n) = 0
    BY <2>2, <2>3, SumOfZeros
  <2> QED BY <2>1, <2>4, <2>5
<1> QED BY <1>1, <1>2

LEMMA NothingLogged ==
  ASSUME NEW max \in Nat, NEW n \in Nat, NEW w \in Nat, NEW f, \A t \in 0..max : f[t] = 0
  PROVE  Sum(f, max, n - w, n) = 0 /\ Logged(f, max, <<>>, n, w)
<1>1. \A a \in Int : Sum(f, max, a, n) = 0
  BY SumOfZeros
<1>2. n - w \in Int /\ Len(<<>>) = 0
  BY EmptySeq
<1> QED BY <1>1, <1>2 DEF Logged

LEMMA SlidingInit == Shape /\ LimiterInit => SlidingInv
<1> SUFFICES ASSUME Shape, LimiterInit, mode = "sliding", NEW p \in Paths
             PROVE  /\ Sum(admitted[p], MaxTime[mode], now - Window[p], now) <= Limit[p]
                    /\ Logged(admitted[p], MaxTime[mode], mem.log, now, Window[p])
  BY DEF SlidingInv
<1>1. PICK max \in Nat, n \in Nat : max = MaxTime[mode] /\ n = now
  BY MaxOfMode
<1>f. PICK f : f = admitted[p]
  OBVIOUS
<1>2. PICK l \in Nat \ {0}, w \in Nat \ {0} : l = Limit[p] /\ w = Window[p]
  BY LimitIsNat
<1>3. mem.log = <<>> /\ \A t \in 0..max : f[t] = 0
  BY <1>1, <1>f, MaxOfMode DEF LimiterInit, Unknown, NoRequests
<1>4. Sum(f, max, n - w, n) = 0 /\ Logged(f, max, <<>>, n, w)
  BY <1>3, NothingLogged
<1> QED BY <1>1, <1>f, <1>2, <1>3, <1>4

LEMMA SlidingKept ==
  ASSUME Shape, SlidingInv, [LimiterNext]_limiterVars, mode = "sliding", SameWindow
  PROVE  SlidingInv'
<1>m. PICK max \in Nat : max = MaxTime[mode] /\ now \in 0..max
  BY MaxOfMode
<1>a. PICK m, ad : m = mem /\ ad = admitted
  OBVIOUS
<1>1. PICK n \in 0..max :
        max = MaxTime[mode] /\ n = now /\ m = mem /\ ad = admitted /\ EntryUpTo(m, n)
  BY <1>m, <1>a DEF Shape
<1>2. ASSUME NEW q \in Paths
      PROVE  /\ ad[q] \in [0..max -> Nat] /\ \A t \in 0..max : t > n => ad[q][t] = 0
             /\ Limit[q] \in Nat \ {0} /\ Window[q] \in Nat \ {0}
             /\ Sum(ad[q], max, n - Window[q], n) <= Limit[q]
             /\ Logged(ad[q], max, m.log, n, Window[q])
  <2>1. Sum(ad[q], max, n - Window[q], n) <= Limit[q] /\ Logged(ad[q], max, m.log, n, Window[q])
    BY <1>1 DEF SlidingInv
  <2>2. ad[q] \in [0..max -> Nat] /\ \A t \in 0..max : t > n => ad[q][t] = 0
    BY <1>1, AdmittedIs
  <2> QED BY <2>1, <2>2, LimitIsNat
<1>3. ASSUME NEW p \in Paths, CheckMemory(p) PROVE SlidingInv'
  <2>1. PICK v : v = Sliding(m, Limit[p], Window[p]) /\ v = Verdict(p)
    BY <1>1, VerdictIs
  <2>2. PICK ad1 : ad1 = admitted' /\ \A q \in Paths : ad1[q] = IF q = p /\ v.ok
                                            THEN Plus(ad[q], n) ELSE ad[q]
    BY <1>1, <1>3, <2>1, AfterCheck
  <2>3. mode' = mode /\ now' = n /\ mem' = v.entry /\ MaxTime[mode'] = max
    BY <1>1, <1>3, <2>1, AfterCheck
  <2>0. PICK y \in Nat \ {0}, z \in Nat \ {0} : y = Limit[p] /\ z = Window[p]
    BY <1>2
  <2>4. PICK k \in Nat, c \in Nat : c <= k /\ SlidingSays(m, n, Limit[p], Window[p], k, c, v)
    <3>1. n \in Nat /\ v = Sliding(m, y, z)
      BY <2>0, <2>1
    <3>2. \E k \in Nat, c \in Nat : c <= k /\ SlidingSays(m, n, y, z, k, c, v)
      BY <1>1, <3>1, SlidingIs
    <3> QED BY <2>0, <3>2
  <2>5. ASSUME NEW q \in Paths
        PROVE  /\ Sum(ad1[q], max, n - Window[q], n) <= Limit[q]
               /\ Logged(ad1[q], max, v.entry.log, n, Window[q])
    <3>1. CASE ~v.ok
      <4>1. ad1[q] = ad[q] /\ v.entry = m
        BY <2>2, <2>4, <3>1 DEF SlidingSays
      <4> QED BY <1>2, <4>1
    <3>2. CASE v.ok
      <4>0. PICK f, g : f = ad[q] /\ g = ad1[q]
        OBVIOUS
      <4>1. PICK w \in Nat \ {0} : f = ad[q] /\ g = ad1[q] /\ w = Window[q] /\ w = Window[p]
        BY <1>2, <4>0 DEF SameWindow
      <4>2. f \in [0..max -> Nat] /\ Logged(f, max, m.log, n, w)
        BY <1>2, <4>1
      <4>3. g = f \/ g = Plus(f, n)
        BY <2>2, <4>1
      <4>4. AtMostOneMore(g, f, max, n)
        BY <4>2, <4>3, OneMore
      <4>5. k = Len(m.log) /\ Cuts(m.log, n - w, c) /\ Renewed(v.entry.log, m.log, c, n)
            /\ k - c < Limit[p]
        BY <2>4, <3>2, <4>1 DEF SlidingSays
      <4>6. Ordered(m.log)
        BY <1>1 DEF EntryUpTo
      <4>7. Sum(f, max, n - w, n) <= k - c /\ Logged(g, max, v.entry.log, n, w)
        BY <2>4, <4>2, <4>4, <4>5, <4>6, LoggedWhenAdmitted
      <4>8. Sum(g, max, n - w, n) <= Limit[q]
        <5>1. CASE q # p
          <6>1. g = f
            BY <2>2, <4>1, <5>1
          <6> QED BY <1>2, <4>1, <6>1
        <5>2. CASE q = p
          <6>1. n - w \in Int
            BY <4>1
          <6>2. Sum(g, max, n - w, n) <= Sum(f, max, n - w, n) + 1 /\ g \in [0..max -> Nat]
            BY <4>4, <6>1 DEF AtMostOneMore
          <6>3. Sum(f, max, n - w, n) \in Nat /\ Sum(g, max, n - w, n) \in Nat
            <7>1. n \in Int
              OBVIOUS
            <7>2. Sum(f, max, n - w, n) \in Nat
              BY <4>2, <6>1, <7>1, SumIsNat
            <7>3. Sum(g, max, n - w, n) \in Nat
              BY <6>1, <6>2, <7>1, SumIsNat
            <7> QED BY <7>2, <7>3
          <6>4. PICK x \in Nat, u \in Nat : x = Sum(f, max, n - w, n) /\ u = Sum(g, max, n - w, n)
            BY <6>3
          <6>5. PICK l \in Nat : l = Limit[p]
            BY <1>2
          <6>6. u <= x + 1 /\ x <= k - c /\ k - c < l
            BY <4>5, <4>7, <6>2, <6>4, <6>5
          <6> QED BY <2>4, <5>2, <6>4, <6>5, <6>6
        <5> QED BY <5>1, <5>2
      <4> QED BY <4>1, <4>7, <4>8
    <3> QED BY <3>1, <3>2
  <2>6. PICK log : log = v.entry.log
    OBVIOUS
  <2>7. mem'.log = log
    BY <2>3, <2>6
  <2>8. ASSUME NEW q \in Paths
        PROVE  /\ Sum(admitted'[q], MaxTime[mode'], now' - Window[q], now') <= Limit[q]
               /\ Logged(admitted'[q], MaxTime[mode'], mem'.log, now', Window[q])
    BY <2>2, <2>3, <2>5, <2>6, <2>7
  <2> QED BY <2>8 DEF SlidingInv
<1>4. ASSUME NEW p \in Paths, ResetMemory(p) PROVE SlidingInv'
  <2>1. mem'.log = <<>> /\ admitted' = [q \in Paths |-> NoRequests] /\ mode' = mode /\ now' = n
        /\ MaxTime[mode'] = max
    BY <1>1, <1>4 DEF ResetMemory, Unknown
  <2>f. PICK f : f = NoRequests
    OBVIOUS
  <2>2. f = NoRequests /\ \A t \in 0..max : f[t] = 0
    BY <1>1, <2>f, MaxOfMode DEF NoRequests
  <2>3. ASSUME NEW q \in Paths
        PROVE  /\ Sum(admitted'[q], MaxTime[mode'], now' - Window[q], now') <= Limit[q]
               /\ Logged(admitted'[q], MaxTime[mode'], mem'.log, now', Window[q])
    <3>1. PICK w \in Nat, l \in Nat : w = Window[q] /\ l = Limit[q]
      BY <1>2
    <3>2. Sum(f, max, n - w, n) = 0 /\ Logged(f, max, <<>>, n, w)
      <4>1. n \in Nat
        OBVIOUS
      <4> QED BY <2>2, <4>1, NothingLogged
    <3>3. admitted'[q] = f
      BY <2>1, <2>2
    <3> QED BY <2>1, <3>1, <3>2, <3>3
  <2> QED BY <2>3 DEF SlidingInv
<1>5. ASSUME Tick PROVE SlidingInv'
  <2>1. now' = n + 1 /\ mode' = mode /\ mem' = m /\ admitted' = ad /\ MaxTime[mode'] = max
    BY <1>1, <1>5 DEF Tick
  <2>2. ASSUME NEW q \in Paths
        PROVE  /\ Sum(ad[q], max, (n + 1) - Window[q], n + 1) <= Limit[q]
               /\ Logged(ad[q], max, m.log, n + 1, Window[q])
    <3>0. PICK f : f = ad[q]
      OBVIOUS
    <3>1. PICK w \in Nat, l \in Nat : f = ad[q] /\ w = Window[q] /\ l = Limit[q]
      BY <1>2, <3>0
    <3>2. f \in [0..max -> Nat] /\ (\A t \in 0..max : t > n => f[t] = 0)
          /\ Sum(f, max, n - w, n) <= l /\ Logged(f, max, m.log, n, w)
      BY <1>2, <3>1
    <3>3. \A a \in Int : Sum(f, max, a, n + 1) = Sum(f, max, a, n)
      BY <3>2, SumAtNext
    <3>4. PICK a0 \in Int, a1 \in Int : a0 = n - w /\ a1 = (n + 1) - w /\ a0 <= a1
      OBVIOUS
    <3>5. Sum(f, max, a1, n) <= l
      <4>1. n \in Int /\ n <= n
        OBVIOUS
      <4>2. \A t \in 0..max : a1 < t /\ t <= n => f[t] <= f[t]
        BY <3>2
      <4>3. Sum(f, max, a1, n) <= Sum(f, max, a0, n)
        BY <3>2, <3>4, <4>1, <4>2, SumGrows
      <4>4. PICK x \in Nat, y \in Nat : x = Sum(f, max, a1, n) /\ y = Sum(f, max, a0, n)
        BY <3>2, <4>1, SumIsNat
      <4> QED BY <3>2, <3>4, <4>3, <4>4
    <3>6. Logged(f, max, m.log, n + 1, w)
      <4>1. ASSUME NEW a \in Int, NEW i \in 0..Len(m.log), a1 <= a, i = 0 \/ m.log[i] <= a
            PROVE  Sum(f, max, a, n + 1) + i <= Len(m.log)
        <5>1. n - w <= a
          BY <3>4, <4>1
        <5>2. Sum(f, max, a, n) + i <= Len(m.log)
          BY <3>2, <4>1, <5>1 DEF Logged
        <5> QED BY <3>3, <5>2
      <4> QED BY <3>4, <4>1 DEF Logged
    <3> QED BY <3>1, <3>3, <3>4, <3>5, <3>6
  <2>3. ASSUME NEW q \in Paths
        PROVE  /\ Sum(admitted'[q], MaxTime[mode'], now' - Window[q], now') <= Limit[q]
               /\ Logged(admitted'[q], MaxTime[mode'], mem'.log, now', Window[q])
    BY <2>1, <2>2
  <2> QED BY <2>3 DEF SlidingInv
<1>6. CASE UNCHANGED limiterVars
  BY <1>6 DEF limiterVars, SlidingInv
<1>7. mode # "redis"
  OBVIOUS
<1> QED BY <1>3, <1>4, <1>5, <1>6, <1>7, MemorySteps
-----------------------------------------------------------------------------
(* The token bucket.                                                        *)

\* The requests since any instant s cost no more than a full bucket and what
\* flowed in since s, less what is left; none is dated after the bucket.
Paid(f, max, at, amount, l, w) ==
  /\ \A t \in 0..max : t > at => f[t] = 0
  /\ \A s \in Int : s <= at =>
       Sum(f, max, s - 1, at) * w + amount <= l * w + (at - s) * l

\* The bucket is paid for at the rate of a path of the largest limit.
TokenInv ==
  mode = "token" => \A p, q \in Paths :
    /\ ~mem.known => \A t \in 0..MaxTime[mode] : admitted[p][t] = 0
    /\ mem.known /\ Largest(q) =>
          Paid(admitted[p], MaxTime[mode], mem.at, mem.amount, Limit[q], Window[p])

LEMMA Larger ==
  ASSUME NEW x \in Nat, NEW a \in Nat, NEW b \in Nat, a <= b
  PROVE  x * a <= x * b /\ a * x <= b * x
<1>1. PICK k \in Nat : b = a + k
  <2>1. b - a \in Nat /\ b = a + (b - a)
    OBVIOUS
  <2> QED BY <2>1
<1>2. (a + k) * x = a * x + k * x /\ k * x >= 0
  BY Distributes
<1>3. PICK ax \in Int, kx \in Int, bx \in Int : ax = a * x /\ kx = k * x /\ bx = b * x
  OBVIOUS
<1>4. bx = ax + kx /\ kx >= 0
  BY <1>1, <1>2, <1>3
<1>5. x * a = ax /\ x * b = bx
  BY <1>3
<1> QED BY <1>3, <1>4, <1>5

\* The bucket is filled up ...
LEMMA PaidWhenRefilled ==
  ASSUME NEW max \in Nat, NEW f \in [0..max -> Nat], NEW l \in Nat, NEW w \in Nat,
         NEW at \in Nat, NEW n \in Nat, at <= n, NEW amount \in Nat,
         Paid(f, max, at, amount, l, w),
         NEW r \in Nat, r <= amount + (n - at) * l, r <= l * w
  PROVE  Paid(f, max, n, r, l, w)
<1>1. \A t \in 0..max : t > at => f[t] = 0
  BY DEF Paid
<1>2. \A t \in 0..max : t > n => f[t] = 0
  BY <1>1
<1>3. ASSUME NEW s \in Int, s <= n
      PROVE  Sum(f, max, s - 1, n) * w + r <= l * w + (n - s) * l
  <2>0. PICK b \in Int : b = s - 1
    OBVIOUS
  <2>1. CASE s <= at
    <3>1. Sum(f, max, b, n) = Sum(f, max, b, at)
      BY <1>1, <2>0, <2>1, SumUpTo
    <3>2. Sum(f, max, b, at) \in Nat
      BY SumIsNat
    <3>3. PICK x \in Nat : x = Sum(f, max, b, at)
      BY <3>2
    <3>4. x * w + amount <= l * w + (at - s) * l
      BY <2>0, <2>1, <3>3 DEF Paid
    <3>5. (n - at) * l = n * l - at * l /\ (at - s) * l = at * l - s * l /\ (n - s) * l = n * l - s * l
      BY Distributes
    <3>6. x * w + r <= l * w + (n - s) * l
      <4>1. PICK xw \in Int, lw \in Int, nl \in Int, al \in Int, sl \in Int :
              xw = x * w /\ lw = l * w /\ nl = n * l /\ al = at * l /\ sl = s * l
        OBVIOUS
      <4>2. xw + amount <= lw + (al - sl) /\ r <= amount + (nl - al)
        BY <3>4, <3>5, <4>1
      <4>3. xw + r <= lw + (nl - sl)
        BY <4>2
      <4> QED BY <3>5, <4>1, <4>3
    <3> QED BY <2>0, <3>1, <3>3, <3>6
  <2>2. CASE ~(s <= at)
    <3>1. \A t \in 0..max : b < t /\ t <= n => f[t] = 0
      BY <1>1, <2>0, <2>2
    <3>2. Sum(f, max, b, n) = 0
      BY <3>1, SumOfZeros
    <3>3. n - s \in Nat
      BY <1>3
    <3>4. (n - s) * l \in Nat /\ l * w \in Nat
      BY <3>3
    <3>5. 0 * w + r <= l * w + (n - s) * l
      BY <3>4
    <3> QED BY <2>0, <3>2, <3>5
  <2> QED BY <2>1, <2>2
<1> QED BY <1>2, <1>3 DEF Paid

\* ... and a request takes a token out of it.
LEMMA PaidWhenTaken ==
  ASSUME NEW max \in Nat, NEW f \in [0..max -> Nat], NEW l \in Nat, NEW w \in Nat,
         NEW n \in 0..max, NEW r \in Nat, w <= r, Paid(f, max, n, r, l, w)
  PROVE  /\ Paid(f, max, n, r - w, l, w)
         /\ Paid(Plus(f, n), max, n, r - w, l, w)
<1>0. n \in Nat /\ n \in Int
  OBVIOUS
<1>1. PICK g : g = Plus(f, n)
  OBVIOUS
<1>2. \A t \in 0..max : t > n => f[t] = 0 /\ g[t] = 0
  BY <1>0, <1>1 DEF Paid, Plus
<1>3. ASSUME NEW s \in Int, s <= n
      PROVE  /\ Sum(f, max, s - 1, n) * w + (r - w) <= l * w + (n - s) * l
             /\ Sum(g, max, s - 1, n) * w + (r - w) <= l * w + (n - s) * l
  <2>0. PICK b \in Int : b = s - 1 /\ b < n
    BY <1>3, <1>0
  <2>1. Sum(f, max, b, n) \in Nat
    BY <1>0, SumIsNat
  <2>2. PICK x \in Nat : x = Sum(f, max, b, n)
    BY <2>1
  <2>3. Sum(g, max, b, n) = x + 1
    BY <1>0, <1>1, <2>0, <2>2, SumOneMore, SMTT(30)
  <2>4. x * w + r <= l * w + (n - s) * l
    BY <1>3, <2>0, <2>2 DEF Paid
  <2>5. (x + 1) * w = x * w + w
    BY Distributes
  <2>6. PICK xw \in Int, y \in Int : xw = x * w /\ y = l * w + (n - s) * l
    BY <1>0
  <2>7. xw + (r - w) <= y /\ (xw + w) + (r - w) <= y
    BY <2>4, <2>6
  <2> QED BY <2>0, <2>2, <2>3, <2>5, <2>6, <2>7
<1> QED BY <1>1, <1>2, <1>3 DEF Paid

LEMMA PaidWhenNew ==
  ASSUME NEW max \in Nat, NEW f, \A t \in 0..max : f[t] = 0, NEW l \in Nat, NEW w \in Nat, NEW n \in Nat
  PROVE  Paid(f, max, n, l * w, l, w)
<1>1. ASSUME NEW s \in Int, s <= n
      PROVE  Sum(f, max, s - 1, n) * w + l * w <= l * w + (n - s) * l
  <2>1. Sum(f, max, s - 1, n) = 0
    BY SumOfZeros
  <2>2. n - s \in Nat
    BY <1>1
  <2>3. (n - s) * l \in Nat /\ l * w \in Nat
    BY <2>2
  <2>4. 0 * w + l * w <= l * w + (n - s) * l
    BY <2>3
  <2> QED BY <2>1, <2>4
<1> QED BY <1>1 DEF Paid
LEMMA TokenInit == Shape /\ LimiterInit => TokenInv
BY MaxOfMode DEF LimiterInit, Unknown, NoRequests, TokenInv

LEMMA TokenKept ==
  ASSUME Shape, TokenInv, [LimiterNext]_limiterVars, mode = "token"
  PROVE  TokenInv'
<1>m. PICK max \in Nat : max = MaxTime[mode] /\ now \in 0..max
  BY MaxOfMode
<1>a. PICK m, ad : m = mem /\ ad = admitted
  OBVIOUS
<1>1. PICK n \in 0..max :
        max = MaxTime[mode] /\ n = now /\ m = mem /\ ad = admitted /\ EntryUpTo(m, n)
  BY <1>m, <1>a DEF Shape
<1>0. m.at \in Nat /\ m.at <= n /\ m.amount \in Nat /\ n \in Nat /\ m.known \in BOOLEAN
  <2>1. m \in ClientEntry /\ m.at <= n
    BY <1>1 DEF EntryUpTo
  <2> QED BY <2>1 DEF ClientEntry
<1>2. ASSUME NEW q \in Paths, NEW big \in Paths
      PROVE  /\ ad[q] \in [0..max -> Nat]
             /\ Limit[q] \in Nat \ {0} /\ Window[q] \in Nat \ {0}
             /\ ~m.known => \A t \in 0..max : ad[q][t] = 0
             /\ m.known /\ Largest(big) => Paid(ad[q], max, m.at, m.amount, Limit[big], Window[q])
  <2>1. /\ ~m.known => \A t \in 0..max : ad[q][t] = 0
        /\ m.known /\ Largest(big) => Paid(ad[q], max, m.at, m.amount, Limit[big], Window[q])
    BY <1>1 DEF TokenInv
  <2>2. ad[q] \in [0..max -> Nat]
    BY <1>1, AdmittedIs
  <2> QED BY <2>1, <2>2, LimitIsNat
<1>w. \A p, q \in Paths : Window[p] = Window[q]
  <2>1. "token" \in Modes
    BY DEF Shape
  <2> QED BY <2>1, OneWindowAssumption
<1>3. ASSUME NEW p \in Paths, CheckMemory(p) PROVE TokenInv'
  <2>0. PICK l \in Nat \ {0}, w \in Nat \ {0} : l = Limit[p] /\ w = Window[p]
    BY <1>2
  <2>1. PICK v : v = Token(m, l, w)
    OBVIOUS
  <2>v. v = Verdict(p)
    BY <1>1, <2>0, <2>1, VerdictIs
  <2>2. PICK ad1 : ad1 = admitted'
    OBVIOUS
  <2>3. \A q \in Paths : ad1[q] = IF q = p /\ v.ok THEN Plus(ad[q], n) ELSE ad[q]
    BY <1>1, <1>3, <2>v, <2>2, AfterCheck
  <2>4. mode' = mode /\ mem' = v.entry /\ MaxTime[mode'] = max
    BY <1>1, <1>3, <2>v, AfterCheck
  <2>5. PICK r \in Nat : TokenSays(m, n, l, w, r, v)
    BY <1>0, <1>1, <2>1, TokenIs
  <2>e. PICK e : e = v.entry
    OBVIOUS
  <2>f. e.known /\ e.at = n
    BY <2>5, <2>e DEF TokenSays
  <2>6. ASSUME NEW q \in Paths, NEW big \in Paths, Largest(big)
        PROVE  Paid(ad1[q], max, e.at, e.amount, Limit[big], w)
    <3>0. PICK f, g : f = ad[q] /\ g = ad1[q]
      OBVIOUS
    <3>1. f \in [0..max -> Nat] /\ (g = f \/ (v.ok /\ g = Plus(f, n)))
      BY <1>2, <2>3, <3>0
    <3>L. PICK L \in Nat \ {0} : L = Limit[big]
      BY <1>2
    <3>l. l <= L
      BY <2>0, <2>6, <3>L DEF Largest
    <3>2. Paid(f, max, n, r, L, w)
      <4>0. l * w <= L * w
        BY <3>l, Larger
      <4>1. CASE m.known
        <5>1. Paid(f, max, m.at, m.amount, L, w)
          BY <1>2, <1>w, <2>0, <2>6, <3>0, <3>L, <4>1
        <5>2. r <= m.amount + (n - m.at) * l /\ r <= l * w
          BY <2>5, <4>1 DEF TokenSays
        <5>3. PICK at \in Nat, amount \in Nat : at = m.at /\ amount = m.amount /\ at <= n
          BY <1>0
        <5>4. PICK d \in Nat : d = n - at
          <6>1. n - at \in Nat
            BY <1>0, <5>3
          <6> QED BY <6>1
        <5>5. d * l <= d * L
          BY <3>l, Larger
        <5>6. PICK x \in Nat, y \in Nat, a \in Nat, b \in Nat :
                x = d * l /\ y = d * L /\ a = l * w /\ b = L * w
          OBVIOUS
        <5>7. r <= amount + x /\ x <= y /\ r <= a /\ a <= b
          BY <4>0, <5>2, <5>3, <5>4, <5>5, <5>6
        <5>8. r <= amount + y /\ r <= b
          BY <5>7
        <5>9. r <= amount + (n - at) * L /\ r <= L * w
          BY <5>4, <5>6, <5>8
        <5>10. at <= n /\ Paid(f, max, at, amount, L, w)
          BY <5>1, <5>3
        <5> QED BY <1>0, <3>1, <5>9, <5>10, PaidWhenRefilled
      <4>2. CASE ~m.known
        <5>1. \A t \in 0..max : f[t] = 0
          BY <1>2, <3>0, <4>2
        <5>2. r = l * w
          BY <2>5, <4>2 DEF TokenSays
        <5>3. Paid(f, max, n, L * w, L, w)
          BY <1>0, <5>1, PaidWhenNew
        <5>4. PICK b \in Nat : b = L * w
          OBVIOUS
        <5>5. r <= b + (n - n) * L /\ r <= L * w
          <6>1. r <= b
            BY <4>0, <5>2, <5>4
          <6>2. (n - n) * L = 0
            <7>1. n - n = 0
              BY <1>0
            <7> QED BY <7>1
          <6> QED BY <5>4, <6>1, <6>2
        <5>6. n <= n /\ r \in Nat /\ Paid(f, max, n, b, L, w)
          BY <1>0, <5>3, <5>4
        <5> QED BY <1>0, <3>1, <5>5, <5>6, PaidWhenRefilled
      <4> QED BY <4>1, <4>2
    <3>3. CASE v.ok
      <4>1. r >= w /\ e.amount = r - w
        BY <2>5, <2>e, <3>3 DEF TokenSays
      <4>2. w <= r /\ w \in Nat /\ L \in Nat
        BY <4>1
      <4>3. Paid(f, max, n, r - w, L, w) /\ Paid(Plus(f, n), max, n, r - w, L, w)
        BY <3>1, <3>2, <4>2, PaidWhenTaken
      <4> QED BY <2>f, <3>0, <3>1, <3>L, <4>1, <4>3
    <3>4. CASE ~v.ok
      <4>1. e.amount = r
        BY <2>5, <2>e, <3>4 DEF TokenSays
      <4> QED BY <2>f, <3>0, <3>1, <3>2, <3>L, <3>4, <4>1
    <3> QED BY <3>3, <3>4
  <2>7. mem' = e
    BY <2>4, <2>e
  <2>8. ASSUME NEW q \in Paths, NEW big \in Paths, Largest(big)
        PROVE  Paid(admitted'[q], MaxTime[mode'], mem'.at, mem'.amount, Limit[big], Window[q])
    <3>1. Window[q] = w
      BY <1>w, <2>0
    <3> QED BY <2>2, <2>4, <2>6, <2>7, <2>8, <3>1
  <2>9. mem'.known
    BY <2>f, <2>7
  <2> QED BY <2>8, <2>9 DEF TokenInv
<1>4. ASSUME NEW p \in Paths, ResetMemory(p) PROVE TokenInv'
  <2>1. ~mem'.known /\ admitted' = [q \in Paths |-> NoRequests] /\ MaxTime[mode'] = max
    BY <1>1, <1>4 DEF ResetMemory, Unknown
  <2>2. \A t \in 0..max : NoRequests[t] = 0
    BY <1>1, MaxOfMode DEF NoRequests
  <2> QED BY <2>1, <2>2 DEF TokenInv
<1>5. ASSUME Tick PROVE TokenInv'
  <2>1. mode' = mode /\ mem' = mem /\ admitted' = admitted
    BY <1>5 DEF Tick
  <2> QED BY <2>1 DEF TokenInv
<1>6. CASE UNCHANGED limiterVars
  BY <1>6 DEF limiterVars, TokenInv
<1>7. mode # "redis"
  OBVIOUS
<1> QED BY <1>3, <1>4, <1>5, <1>6, <1>7, MemorySteps

-----------------------------------------------------------------------------
(* The fixed window.                                                        *)

\* No aligned window holds too much, and the current one, which begins at at,
\* no more than was counted; no request is dated after it.
Fits(f, max, l, w) ==
  \A k \in Int : Aligned(k, w) => Sum(f, max, k - 1, k + w - 1) <= l
InWindow(f, max, at, amount, w) ==
  /\ \A t \in 0..max : t >= at + w => f[t] = 0
  /\ Sum(f, max, at - 1, at + w - 1) <= amount

FixedInv ==
  mode = "fixed" => \A p \in Paths :
    /\ Fits(admitted[p], MaxTime[mode], Limit[p], Window[p])
    /\ ~mem.known => \A t \in 0..MaxTime[mode] : admitted[p][t] = 0
    /\ mem.known => /\ Aligned(mem.at, Window[p])
                    /\ InWindow(admitted[p], MaxTime[mode], mem.at, mem.amount, Window[p])

\* A request more in the current window, b, which holds fewer than l.
LEMMA FitsWhenAdmitted ==
  ASSUME NEW max \in Nat, NEW f \in [0..max -> Nat], NEW l \in Nat, NEW w \in Nat \ {0},
         NEW n \in 0..max, NEW b \in Nat, Aligned(b, w), b <= n, n < b + w,
         NEW c \in Nat, InWindow(f, max, b, c, w), c < l, Fits(f, max, l, w)
  PROVE  /\ Fits(Plus(f, n), max, l, w)
         /\ InWindow(Plus(f, n), max, b, c + 1, w)
         /\ InWindow(f, max, b, c + 1, w)
<1>0. n \in Nat /\ n \in Int
  OBVIOUS
<1>1. PICK g : g = Plus(f, n)
  OBVIOUS
<1>2. g \in [0..max -> Nat] /\ \A t \in 0..max : t # n => g[t] = f[t]
  BY <1>1 DEF Plus
<1>3. ASSUME NEW a \in Int, NEW d \in Int
      PROVE  /\ Sum(f, max, a, d) \in Nat /\ Sum(g, max, a, d) \in Nat
             /\ Sum(g, max, a, d) = Sum(f, max, a, d) + (IF a < n /\ n <= d THEN 1 ELSE 0)
  <2>1. Sum(f, max, a, d) \in Nat /\ Sum(g, max, a, d) \in Nat
    BY <1>2, SumIsNat
  <2>2. Sum(Plus(f, n), max, a, d) = Sum(f, max, a, d) + (IF a < n /\ n <= d THEN 1 ELSE 0)
    BY SumOneMore, SMTT(60)
  <2> QED BY <1>1, <2>1, <2>2
<1>4. InWindow(f, max, b, c + 1, w) /\ InWindow(g, max, b, c + 1, w)
  <2>1. PICK a \in Int, d \in Int : a = b - 1 /\ d = b + w - 1
    OBVIOUS
  <2>2. PICK x \in Nat, y \in Nat : x = Sum(f, max, a, d) /\ y = Sum(g, max, a, d)
    BY <1>3
  <2>3. y = x + (IF a < n /\ n <= d THEN 1 ELSE 0) /\ x <= c
    <3>1. x <= c
      BY <2>1, <2>2 DEF InWindow
    <3> QED BY <1>3, <2>2, <3>1
  <2>4. x <= c + 1 /\ y <= c + 1
    BY <2>3
  <2>5. \A t \in 0..max : t >= b + w => f[t] = 0 /\ g[t] = 0
    <3>1. \A t \in 0..max : t >= b + w => f[t] = 0 /\ t # n
      BY <1>0 DEF InWindow
    <3> QED BY <1>2, <3>1
  <2> QED BY <2>1, <2>2, <2>4, <2>5 DEF InWindow
<1>5. ASSUME NEW k \in Int, Aligned(k, w) PROVE Sum(g, max, k - 1, k + w - 1) <= l
  <2>1. PICK a \in Int, d \in Int : a = k - 1 /\ d = k + w - 1
    OBVIOUS
  <2>2. PICK x \in Nat, y \in Nat : x = Sum(f, max, a, d) /\ y = Sum(g, max, a, d)
    BY <1>3
  <2>3. y = x + (IF a < n /\ n <= d THEN 1 ELSE 0)
    BY <1>3, <2>2
  <2>4. CASE k = b
    <3>1. y <= c + 1
      BY <1>4, <2>1, <2>2, <2>4 DEF InWindow
    <3> QED BY <2>1, <2>2, <3>1
  <2>5. CASE k # b
    <3>1. k + w <= b \/ b + w <= k
      <4>1. b \in Int /\ (k < b \/ b < k)
        BY <2>5
      <4> QED BY <1>5, <4>1, AlignedApart
    <3>2. ~(a < n /\ n <= d)
      BY <1>0, <2>1, <3>1
    <3>3. x <= l
      BY <1>5, <2>1, <2>2 DEF Fits
    <3>4. y = x
      BY <2>3, <3>2
    <3> QED BY <2>1, <2>2, <3>3, <3>4
  <2> QED BY <2>4, <2>5
<1>6. Fits(g, max, l, w)
  BY <1>5 DEF Fits
<1> QED BY <1>1, <1>4, <1>6
\* No request so far, in any window.
LEMMA FitsWhenNew ==
  ASSUME NEW max \in Nat, NEW f, \A t \in 0..max : f[t] = 0, NEW l \in Nat, NEW w \in Nat
  PROVE  Fits(f, max, l, w)
<1>1. ASSUME NEW k \in Int PROVE Sum(f, max, k - 1, k + w - 1) <= l
  <2>1. Sum(f, max, k - 1, k + w - 1) = 0
    BY SumOfZeros
  <2> QED BY <2>1
<1> QED BY <1>1 DEF Fits

\* No request yet in the window that begins at b.
LEMMA WindowWhenNew ==
  ASSUME NEW max \in Nat, NEW f, NEW w \in Nat, NEW b \in Nat, \A t \in 0..max : t >= b => f[t] = 0
  PROVE  InWindow(f, max, b, 0, w)
<1>1. Sum(f, max, b - 1, b + w - 1) = 0
  <2>1. PICK a \in Int, d \in Int : a = b - 1 /\ d = b + w - 1
    OBVIOUS
  <2>2. \A t \in 0..max : a < t /\ t <= d => f[t] = 0
    BY <2>1
  <2>3. Sum(f, max, a, d) = 0
    BY <2>2, SumOfZeros
  <2> QED BY <2>1, <2>3
<1>2. \A t \in 0..max : t >= b + w => f[t] = 0
  OBVIOUS
<1> QED BY <1>1, <1>2 DEF InWindow

LEMMA FixedInit == Shape /\ LimiterInit => FixedInv
<1> SUFFICES ASSUME Shape, LimiterInit, NEW p \in Paths
             PROVE  /\ Fits(admitted[p], MaxTime[mode], Limit[p], Window[p])
                    /\ ~mem.known
                    /\ \A t \in 0..MaxTime[mode] : admitted[p][t] = 0
  BY DEF FixedInv
<1>1. PICK max \in Nat : max = MaxTime[mode]
  BY MaxOfMode
<1>2. PICK f : f = admitted[p]
  OBVIOUS
<1>3. ~mem.known /\ \A t \in 0..max : f[t] = 0
  BY <1>1, <1>2, MaxOfMode DEF LimiterInit, Unknown, NoRequests
<1>4. PICK l \in Nat, w \in Nat : l = Limit[p] /\ w = Window[p]
  BY LimitIsNat
<1>5. Fits(f, max, l, w)
  BY <1>3, FitsWhenNew
<1> QED BY <1>1, <1>2, <1>3, <1>4, <1>5

LEMMA FixedKept ==
  ASSUME Shape, FixedInv, [LimiterNext]_limiterVars, mode = "fixed", SameWindow
  PROVE  FixedInv'
<1>m. PICK max \in Nat : max = MaxTime[mode] /\ now \in 0..max
  BY MaxOfMode
<1>a. PICK m, ad : m = mem /\ ad = admitted
  OBVIOUS
<1>1. PICK n \in 0..max :
        max = MaxTime[mode] /\ n = now /\ m = mem /\ ad = admitted /\ EntryUpTo(m, n)
  BY <1>m, <1>a DEF Shape
<1>0. m.at \in Nat /\ m.at <= n /\ m.amount \in Nat /\ n \in Nat /\ m.known \in BOOLEAN
  <2>1. m \in ClientEntry /\ m.at <= n
    BY <1>1 DEF EntryUpTo
  <2> QED BY <2>1 DEF ClientEntry
<1>2. ASSUME NEW q \in Paths
      PROVE  /\ ad[q] \in [0..max -> Nat] /\ \A t \in 0..max : t > n => ad[q][t] = 0
             /\ Limit[q] \in Nat \ {0} /\ Window[q] \in Nat \ {0}
             /\ Fits(ad[q], max, Limit[q], Window[q])
             /\ ~m.known => \A t \in 0..max : ad[q][t] = 0
             /\ m.known => Aligned(m.at, Window[q]) /\ InWindow(ad[q], max, m.at, m.amount, Window[q])
  <2>1. /\ Fits(ad[q], max, Limit[q], Window[q])
        /\ ~m.known => \A t \in 0..max : ad[q][t] = 0
        /\ m.known => Aligned(m.at, Window[q]) /\ InWindow(ad[q], max, m.at, m.amount, Window[q])
    BY <1>1 DEF FixedInv
  <2>2. ad[q] \in [0..max -> Nat] /\ \A t \in 0..max : t > n => ad[q][t] = 0
    BY <1>1, AdmittedIs
  <2> QED BY <2>1, <2>2, LimitIsNat
<1>3. ASSUME NEW p \in Paths, CheckMemory(p) PROVE FixedInv'
  <2>0. PICK l \in Nat \ {0}, w \in Nat \ {0} : l = Limit[p] /\ w = Window[p]
    BY <1>2
  <2>w. \A q \in Paths : Window[q] = w
    BY <2>0 DEF SameWindow
  <2>1. PICK v : v = Fixed(m, l, w)
    OBVIOUS
  <2>v. v = Verdict(p)
    BY <1>1, <2>0, <2>1, VerdictIs
  <2>2. PICK ad1 : ad1 = admitted'
    OBVIOUS
  <2>3. \A q \in Paths : ad1[q] = IF q = p /\ v.ok THEN Plus(ad[q], n) ELSE ad[q]
    BY <1>1, <1>3, <2>v, <2>2, AfterCheck
  <2>4. mode' = mode /\ mem' = v.entry /\ MaxTime[mode'] = max
    BY <1>1, <1>3, <2>v, AfterCheck
  <2>5. PICK s \in Nat, b \in Nat, c \in Nat : FixedSays(m, n, l, w, s, b, c, v)
    BY <1>0, <1>1, <2>1, FixedIs
  <2>e. PICK e : e = v.entry
    OBVIOUS
  <2>s. Aligned(s, w) /\ s <= b /\ b <= n /\ n < s + w
    BY <1>0, <2>5 DEF FixedSays
  <2>6. CASE v.ok
    <3>1. c < l /\ e.known /\ e.at = b /\ e.amount = c + 1
      BY <2>5, <2>6, <2>e DEF FixedSays
    <3>2. Aligned(b, w) /\ b = s
      <4>1. CASE m.known /\ m.at >= s
        <5>1. b = m.at /\ Aligned(b, w)
          BY <1>2, <2>0, <2>5, <4>1 DEF FixedSays
        <5>2. ~(s < b)
          BY <2>s, <5>1, AlignedApart
        <5> QED BY <2>s, <5>1, <5>2
      <4>2. CASE ~(m.known /\ m.at >= s)
        <5>1. b = s
          BY <2>5, <4>2 DEF FixedSays
        <5> QED BY <2>s, <5>1
      <4> QED BY <4>1, <4>2
    <3>3. ASSUME NEW q \in Paths PROVE InWindow(ad[q], max, b, c, w)
      <4>1. CASE m.known /\ m.at >= s
        <5>1. b = m.at /\ c = m.amount
          BY <2>5, <4>1 DEF FixedSays
        <5> QED BY <1>2, <2>w, <4>1, <5>1
      <4>2. CASE ~(m.known /\ m.at >= s)
        <5>0. PICK f : f = ad[q]
          OBVIOUS
        <5>1. b = s /\ c = 0
          BY <2>5, <4>2 DEF FixedSays
        <5>2. \A t \in 0..max : t >= b => f[t] = 0
          <6>1. CASE ~m.known
            BY <1>2, <5>0, <6>1
          <6>2. CASE m.known
            <7>1. m.at < s /\ Aligned(m.at, w) /\ InWindow(f, max, m.at, m.amount, w)
              BY <1>0, <1>2, <2>w, <4>2, <5>0, <6>2, SMTT(30)
            <7>2. m.at + w <= s
              BY <1>0, <2>s, <7>1, AlignedApart
            <7>3. \A t \in 0..max : t >= m.at + w => f[t] = 0
              BY <7>1 DEF InWindow
            <7> QED BY <1>0, <5>1, <7>2, <7>3
          <6> QED BY <1>0, <6>1, <6>2
        <5>3. InWindow(f, max, b, 0, w)
          BY <5>2, WindowWhenNew
        <5> QED BY <5>0, <5>1, <5>3
      <4> QED BY <4>1, <4>2
    <3>4. ASSUME NEW q \in Paths
          PROVE  /\ Fits(ad1[q], max, Limit[q], Window[q])
                 /\ Aligned(e.at, Window[q]) /\ InWindow(ad1[q], max, e.at, e.amount, Window[q])
      <4>0. PICK f, g : f = ad[q] /\ g = ad1[q]
        OBVIOUS
      <4>1. f \in [0..max -> Nat] /\ Fits(f, max, Limit[q], w) /\ InWindow(f, max, b, c, w)
        BY <1>2, <2>w, <3>3, <4>0
      <4>2. b <= n /\ n < b + w /\ Aligned(b, w)
        BY <2>s, <3>2
      <4>3. CASE q = p
        <5>1. g = Plus(f, n) /\ Fits(f, max, l, w)
          BY <2>0, <2>3, <2>6, <4>0, <4>1, <4>3
        <5>2. Fits(Plus(f, n), max, l, w) /\ InWindow(Plus(f, n), max, b, c + 1, w)
          BY <3>1, <4>1, <4>2, <5>1, FitsWhenAdmitted
        <5> QED BY <2>0, <3>1, <3>2, <4>0, <4>3, <5>1, <5>2
      <4>4. CASE q # p
        <5>1. g = f
          BY <2>3, <4>0, <4>4
        <5>2. InWindow(f, max, b, c + 1, w)
          <6>1. (\A t \in 0..max : t >= b + w => f[t] = 0) /\ Sum(f, max, b - 1, b + w - 1) <= c
            BY <4>1 DEF InWindow
          <6>2. Sum(f, max, b - 1, b + w - 1) \in Nat
            <7>1. b - 1 \in Int /\ b + w - 1 \in Int
              OBVIOUS
            <7> QED BY <4>1, <7>1, SumIsNat
          <6>3. PICK x \in Nat : x = Sum(f, max, b - 1, b + w - 1)
            BY <6>2
          <6>4. x <= c + 1
            BY <6>1, <6>3
          <6> QED BY <6>1, <6>3, <6>4 DEF InWindow
        <5> QED BY <2>w, <3>1, <3>2, <4>0, <4>1, <5>1, <5>2
      <4> QED BY <4>3, <4>4
    <3>5. mem' = e
      BY <2>4, <2>e
    <3>6. ASSUME NEW q \in Paths
          PROVE  /\ Fits(admitted'[q], MaxTime[mode'], Limit[q], Window[q])
                 /\ Aligned(mem'.at, Window[q])
                 /\ InWindow(admitted'[q], MaxTime[mode'], mem'.at, mem'.amount, Window[q])
      BY <2>2, <2>4, <3>4, <3>5
    <3>7. mem'.known
      BY <3>1, <3>5
    <3> QED BY <3>6, <3>7 DEF FixedInv
  <2>7. CASE ~v.ok
    <3>1. v.entry = m
      BY <2>5, <2>7 DEF FixedSays
    <3>2. mem' = m /\ \A q \in Paths : ad1[q] = ad[q]
      BY <2>3, <2>4, <2>7, <3>1
    <3>3. ASSUME NEW q \in Paths
          PROVE  /\ Fits(admitted'[q], MaxTime[mode'], Limit[q], Window[q])
                 /\ ~mem'.known => \A t \in 0..MaxTime[mode'] : admitted'[q][t] = 0
                 /\ mem'.known => /\ Aligned(mem'.at, Window[q])
                                  /\ InWindow(admitted'[q], MaxTime[mode'], mem'.at, mem'.amount, Window[q])
      BY <1>2, <2>2, <2>4, <3>2
    <3> QED BY <3>3 DEF FixedInv
  <2> QED BY <2>6, <2>7
<1>4. ASSUME NEW p \in Paths, ResetMemory(p) PROVE FixedInv'
  <2>1. ~mem'.known /\ admitted' = [q \in Paths |-> NoRequests] /\ MaxTime[mode'] = max
    BY <1>1, <1>4 DEF ResetMemory, Unknown
  <2>f. PICK f : f = NoRequests
    OBVIOUS
  <2>2. \A t \in 0..max : f[t] = 0
    BY <1>1, <2>f, MaxOfMode DEF NoRequests
  <2>3. ASSUME NEW q \in Paths PROVE Fits(admitted'[q], MaxTime[mode'], Limit[q], Window[q])
    <3>1. PICK l \in Nat, w \in Nat : l = Limit[q] /\ w = Window[q]
      BY <1>2
    <3>2. Fits(f, max, l, w)
      BY <2>2, FitsWhenNew
    <3> QED BY <2>1, <2>f, <3>1, <3>2
  <2> QED BY <2>1, <2>f, <2>2, <2>3 DEF FixedInv
<1>5. ASSUME Tick PROVE FixedInv'
  <2>1. mode' = mode /\ mem' = mem /\ admitted' = admitted
    BY <1>5 DEF Tick
  <2> QED BY <2>1 DEF FixedInv
<1>6. CASE UNCHANGED limiterVars
  BY <1>6 DEF limiterVars, FixedInv
<1>7. mode # "redis"
  OBVIOUS
<1> QED BY <1>3, <1>4, <1>5, <1>6, <1>7, MemorySteps
-----------------------------------------------------------------------------
(* Redis.                                                                   *)

\* u is the last instant of which the sorted set z has a member.
IsNewest(z, max, u) == z[u] > 0 /\ \A v \in (u + 1)..max : z[v] = 0

\* What was let through is in the sorted set, unless a request of at least a
\* window later has pruned it, or the key has expired at e.
Backed(f, z, max, w, e) ==
  \A t \in 0..max : \/ t <= e - w
                    \/ f[t] <= z[t]
                    \/ \E u \in 0..max : z[u] > 0 /\ t <= u - w
WithinWindow(f, z, max, l, w, e) ==
  \A u \in 0..max : IsNewest(z, max, u) => Sum(f, max, Floor(u, e) - w, u) <= l

\* The key outlives whatever it counts by a window.
NoneSince(f, z, max, d) == \A t \in 0..max : t > d => f[t] = 0 /\ z[t] = 0

\* The sorted set z of a path, its requests f let through, limit l and window
\* w, of which the key expires at x and did expire at e.
KeySound(f, z, max, l, w, x, e) ==
  /\ Backed(f, z, max, w, e)
  /\ WithinWindow(f, z, max, l, w, e)
  /\ NoneSince(f, z, max, x - w)

RedisInv ==
  mode = "redis" => \A p \in Paths :
    KeySound(admitted[p], zset[p], MaxTime[mode], Limit[p], Window[p], expiry[p], lapsed[p])

\* The sorted set after a request dated at.
Pushed(z, max, at, w) ==
  [t \in 0..max |-> IF t <= at - w THEN 0 ELSE IF t = at THEN z[t] + 1 ELSE z[t]]

LEMMA NewestExists ==
  ASSUME NEW max \in Nat, NEW z \in [0..max -> Nat], NEW x \in 0..max, z[x] > 0
  PROVE  \E u \in 0..max : IsNewest(z, max, u)
<1> DEFINE Good == {k \in Nat : \/ \E u \in 0..max : IsNewest(z, max, u)
                                \/ \A v \in 0..max : v > max - k => z[v] = 0}
<1>1. 0 \in Good
  <2>1. \A v \in 0..max : ~(v > max - 0)
    OBVIOUS
  <2> QED BY <2>1
<1>2. ASSUME NEW k \in Nat, k \in Good PROVE k + 1 \in Good
  <2>1. CASE \E u \in 0..max : IsNewest(z, max, u)
    BY <2>1
  <2>2. CASE \A v \in 0..max : v > max - k => z[v] = 0
    <3>1. PICK u \in Int : u = max - k
      OBVIOUS
    <3>2. CASE u \in 0..max /\ z[u] > 0
      <4>1. \A v \in (u + 1)..max : z[v] = 0
        BY <2>2, <3>1, <3>2
      <4>2. IsNewest(z, max, u)
        BY <3>2, <4>1 DEF IsNewest
      <4> QED BY <3>2, <4>2
    <3>3. CASE ~(u \in 0..max /\ z[u] > 0)
      <4>1. ASSUME NEW v \in 0..max, v > max - (k + 1) PROVE z[v] = 0
        <5>1. CASE v = u
          <6>1. z[v] \in Nat /\ ~(z[v] > 0)
            BY <3>3, <5>1
          <6> QED BY <6>1
        <5>2. CASE v # u
          <6>1. v > max - k
            BY <3>1, <4>1, <5>2
          <6> QED BY <2>2, <6>1
        <5> QED BY <5>1, <5>2
      <4> QED BY <4>1
    <3> QED BY <3>2, <3>3
  <2> QED BY <1>2, <2>1, <2>2
<1>3. max + 1 \in Good
  <2>1. max + 1 \in Nat
    OBVIOUS
  <2> HIDE DEF Good
  <2> QED BY <1>1, <1>2, <2>1, Numbers
<1>4. x > max - (max + 1) /\ z[x] # 0
  OBVIOUS
<1> QED BY <1>3, <1>4

\* The window of the newest member is covered by the members.
LEMMA BackedSum ==
  ASSUME NEW max \in Nat, NEW z \in [0..max -> Nat], NEW f \in [0..max -> Nat], NEW w \in Nat,
         NEW e \in Nat, Backed(f, z, max, w, e), NEW u \in 0..max, IsNewest(z, max, u)
  PROVE  Sum(f, max, Floor(u, e) - w, u) <= Total(z, 0..max)
<1>0. PICK b \in Int : b = Floor(u, e) - w
  BY DEF Floor
<1>b. b >= u - w /\ b >= e - w
  BY <1>0 DEF Floor
<1>1. PICK S : S = Within(max, b, u)
  OBVIOUS
<1>2. \A v \in 0..max : v > u => z[v] = 0
  BY DEF IsNewest
<1>3. ASSUME NEW t \in S PROVE f[t] \in Nat /\ f[t] <= z[t]
  <2>1. t \in 0..max /\ u - w < t /\ ~(t <= e - w)
    BY <1>b, <1>1 DEF Within
  <2>2. ASSUME NEW v \in 0..max, z[v] > 0, t <= v - w PROVE FALSE
    <3>1. v > u
      BY <2>1, <2>2
    <3>2. z[v] = 0
      BY <1>2, <3>1
    <3> QED BY <2>2, <3>2
  <2> QED BY <2>1, <2>2 DEF Backed
<1>4. IsFiniteSet(0..max) /\ S \in SUBSET (0..max)
  BY <1>1, FS_Interval DEF Within
<1>5. Total(f, S) <= Total(z, 0..max)
  <2>1. \A t \in 0..max : z[t] \in Nat
    OBVIOUS
  <2> QED BY <1>3, <1>4, <2>1, TotalGrows
<1> QED BY <1>0, <1>1, <1>5 DEF Sum

HasRequest(y, z, max, at, w) ==
  /\ y \in [0..max -> Nat] /\ y[at] > 0
  /\ \A t \in 0..max : t > at - w => y[t] >= z[t]
  /\ \A t \in 0..max : t > at => y[t] = z[t]

LEMMA PushedIs ==
  ASSUME NEW max \in Nat, NEW z \in [0..max -> Nat], NEW at \in 0..max, NEW w \in Nat \ {0}
  PROVE  HasRequest(Pushed(z, max, at, w), z, max, at, w)
<1>1. PICK y : y = Pushed(z, max, at, w)
  OBVIOUS
<1>2. \A t \in 0..max : z[t] \in Nat
  OBVIOUS
<1>3. ASSUME NEW t \in 0..max
      PROVE  y[t] = IF t <= at - w THEN 0 ELSE IF t = at THEN z[t] + 1 ELSE z[t]
  BY <1>1 DEF Pushed
<1>4. ASSUME NEW t \in 0..max
      PROVE  /\ y[t] \in Nat
             /\ t > at - w => y[t] >= z[t]
             /\ t > at => y[t] = z[t]
  <2>1. z[t] \in Nat
    BY <1>2
  <2> QED BY <1>3, <2>1
<1>5. y \in [0..max -> Nat]
  <2>1. y = [t \in 0..max |-> y[t]]
    BY <1>1 DEF Pushed
  <2> QED BY <1>4, <2>1
<1>6. y[at] > 0
  <2>1. ~(at <= at - w) /\ z[at] \in Nat
    BY <1>2
  <2> QED BY <1>3, <2>1
<1> QED BY <1>1, <1>4, <1>5, <1>6 DEF HasRequest

LEMMA PlusIs ==
  ASSUME NEW max \in Nat, NEW f \in [0..max -> Nat], NEW at \in 0..max
  PROVE  /\ Plus(f, at) \in [0..max -> Nat]
         /\ Plus(f, at)[at] = f[at] + 1
         /\ \A t \in 0..max : t # at => Plus(f, at)[t] = f[t]
BY DEF Plus

\* What was let through stays backed when a request is put into the set ...
LEMMA BackedWhenPushed ==
  ASSUME NEW max \in Nat, NEW z \in [0..max -> Nat], NEW f \in [0..max -> Nat],
         NEW w \in Nat \ {0}, NEW at \in 0..max, NEW e, Backed(f, z, max, w, e)
  PROVE  /\ Backed(f, Pushed(z, max, at, w), max, w, e)
         /\ Backed(Plus(f, at), Pushed(z, max, at, w), max, w, e)
<1>1. PICK y, g : y = Pushed(z, max, at, w) /\ g = Plus(f, at)
  OBVIOUS
<1>h. HasRequest(y, z, max, at, w)
  BY <1>1, PushedIs
<1>2. /\ y \in [0..max -> Nat] /\ y[at] > 0
      /\ \A t \in 0..max : t > at - w => y[t] >= z[t]
      /\ \A t \in 0..max : t > at => y[t] = z[t]
  BY <1>h DEF HasRequest
<1>3. y[at] = z[at] + 1
  <2>1. ~(at <= at - w)
    OBVIOUS
  <2> QED BY <1>1, <2>1 DEF Pushed
<1>4. g[at] = f[at] + 1 /\ \A t \in 0..max : t # at => g[t] = f[t]
  BY <1>1 DEF Plus
<1>5. ASSUME NEW t \in 0..max
      PROVE  \/ t <= e - w
             \/ f[t] <= y[t] /\ g[t] <= y[t]
             \/ \E u \in 0..max : y[u] > 0 /\ t <= u - w
  <2>0. f[t] \in Nat /\ z[t] \in Nat /\ y[t] \in Nat
    BY <1>2
  <2>1. CASE t <= at - w
    BY <1>2, <2>1
  <2>2. CASE ~(t <= at - w)
    <3>1. CASE f[t] <= z[t]
      <4>1. CASE t = at
        BY <1>3, <1>4, <2>0, <3>1, <4>1
      <4>2. CASE t # at
        <5>1. y[t] >= z[t] /\ g[t] = f[t]
          BY <1>2, <1>4, <2>2, <4>2, SMTT(30)
        <5> QED BY <2>0, <3>1, <5>1
      <4> QED BY <4>1, <4>2
    <3>2. CASE \E u \in 0..max : z[u] > 0 /\ t <= u - w
      <4>1. PICK u \in 0..max : z[u] > 0 /\ t <= u - w
        BY <3>2
      <4>2. u > at
        BY <2>2, <4>1
      <4>3. y[u] > 0
        BY <1>2, <4>1, <4>2
      <4> QED BY <4>1, <4>3
    <3> QED BY <3>1, <3>2 DEF Backed
  <2> QED BY <2>1, <2>2
<1>6. Backed(f, y, max, w, e) /\ Backed(g, y, max, w, e)
  BY <1>5 DEF Backed
<1> QED BY <1>1, <1>6

\* ... and so does the bound when nothing is let through ...
LEMMA WithinWhenPushed ==
  ASSUME NEW max \in Nat, NEW z \in [0..max -> Nat], NEW f \in [0..max -> Nat],
         NEW w \in Nat \ {0}, NEW l \in Nat, NEW at \in 0..max, NEW e \in Nat,
         Backed(f, z, max, w, e), WithinWindow(f, z, max, l, w, e)
  PROVE  WithinWindow(f, Pushed(z, max, at, w), max, l, w, e)
<1>1. PICK y : y = Pushed(z, max, at, w)
  OBVIOUS
<1>h. HasRequest(y, z, max, at, w)
  BY <1>1, PushedIs
<1>2. /\ y \in [0..max -> Nat] /\ y[at] > 0
      /\ \A t \in 0..max : t > at => y[t] = z[t]
  BY <1>h DEF HasRequest
<1>3. ASSUME NEW u \in 0..max, IsNewest(y, max, u) PROVE Sum(f, max, Floor(u, e) - w, u) <= l
  <2>0. PICK a \in Int : a = Floor(u, e) - w
    BY DEF Floor
  <2>a. a >= e - w /\ a >= u - w
    BY <2>0 DEF Floor
  <2>1. y[u] > 0 /\ \A v \in 0..max : v > u => y[v] = 0
    BY <1>3 DEF IsNewest
  <2>2. at <= u
    <3>1. ~(at > u)
      BY <1>2, <2>1
    <3> QED BY <3>1
  <2>3. \A v \in 0..max : v > u => z[v] = 0
    <3>1. ASSUME NEW v \in 0..max, v > u PROVE z[v] = 0
      <4>1. v > at /\ y[v] = 0
        BY <2>1, <2>2, <3>1
      <4> QED BY <1>2, <4>1
    <3> QED BY <3>1
  <2>z. ASSUME \A t \in 0..max : a < t => f[t] = 0 PROVE Sum(f, max, a, u) <= l
    <3>1. Sum(f, max, a, u) = 0
      BY <2>z, SumOfZeros
    <3> QED BY <3>1
  <2>4. CASE \A v \in 0..max : z[v] = 0
    <3>1. ASSUME NEW t \in 0..max, a < t PROVE f[t] = 0
      <4>1. \A v \in 0..max : ~(z[v] > 0)
        BY <2>4
      <4>2. ~(t <= e - w)
        BY <2>a, <3>1
      <4>3. f[t] <= z[t] /\ z[t] = 0 /\ f[t] \in Nat
        BY <2>4, <4>1, <4>2 DEF Backed
      <4> QED BY <4>3
    <3> QED BY <2>0, <2>z, <3>1
  <2>5. CASE ~\A v \in 0..max : z[v] = 0
    <3>1. PICK x \in 0..max : z[x] > 0
      BY <2>5
    <3>2. PICK u0 \in 0..max : IsNewest(z, max, u0)
      BY <3>1, NewestExists
    <3>3. z[u0] > 0 /\ \A v \in 0..max : v > u0 => z[v] = 0
      BY <3>2 DEF IsNewest
    <3>4. u0 <= u
      <4>1. ~(u0 > u)
        BY <2>3, <3>3
      <4> QED BY <4>1
    <3>5. ASSUME NEW t \in 0..max, t > u0, t > e - w PROVE f[t] = 0
      <4>1. f[t] \in Nat /\ z[t] = 0
        BY <3>3, <3>5
      <4>2. ~\E v \in 0..max : z[v] > 0 /\ t <= v - w
        BY <3>3, <3>5
      <4>3. ~(t <= e - w)
        BY <3>5
      <4>4. f[t] <= z[t]
        BY <4>2, <4>3 DEF Backed
      <4> QED BY <4>1, <4>4
    <3>6. CASE e - w > u0
      <4>1. ASSUME NEW t \in 0..max, a < t PROVE f[t] = 0
        <5>1. t > u0 /\ t > e - w
          BY <2>a, <3>6, <4>1
        <5> QED BY <3>5, <5>1
      <4> QED BY <2>0, <2>z, <4>1
    <3>7. CASE ~(e - w > u0)
      <4>1. PICK b \in Int : b = Floor(u0, e) - w
        BY DEF Floor
      <4>2. b <= a /\ b <= u0
        BY <2>0, <3>4, <3>7, <4>1 DEF Floor
      <4>3. Sum(f, max, b, u0) <= l
        BY <3>2, <4>1 DEF WithinWindow
      <4>4. Sum(f, max, a, u) <= Sum(f, max, b, u)
        <5>1. u <= u /\ u \in Int /\ \A t \in 0..max : f[t] <= f[t]
          OBVIOUS
        <5> QED BY <4>2, <5>1, SumGrows
      <4>5. Sum(f, max, b, u) = Sum(f, max, b, u0)
        <5>1. PICK c \in Int, d \in Int : c = u /\ d = u0
          OBVIOUS
        <5>2. b <= d /\ d <= c
          BY <3>4, <4>2, <5>1
        <5>3. NoneAfter(f, max, d)
          <6>1. ASSUME NEW t \in 0..max, t > u0 PROVE f[t] = 0
            <7>1. t > e - w
              BY <3>7, <6>1
            <7> QED BY <3>5, <6>1, <7>1
          <6> QED BY <5>1, <6>1 DEF NoneAfter
        <5>4. \A i, j, k \in Int : i <= j /\ j <= k /\ NoneAfter(f, max, j) =>
                Sum(f, max, i, k) = Sum(f, max, i, j)
          BY SumEnds
        <5>5. Sum(f, max, b, c) = Sum(f, max, b, d)
          BY <5>2, <5>3, <5>4
        <5> QED BY <5>1, <5>5
      <4>6. Sum(f, max, a, u) \in Nat /\ Sum(f, max, b, u0) \in Nat
        <5>1. u0 \in Int /\ u \in Int
          OBVIOUS
        <5> QED BY <5>1, SumIsNat
      <4>7. PICK i \in Nat, j \in Nat : i = Sum(f, max, a, u) /\ j = Sum(f, max, b, u0)
        BY <4>6
      <4>8. i <= l
        BY <4>3, <4>4, <4>5, <4>7
      <4> QED BY <2>0, <4>7, <4>8
    <3> QED BY <3>6, <3>7
  <2> QED BY <2>4, <2>5
<1> QED BY <1>1, <1>3 DEF WithinWindow

\* ... or when the members are few enough.
LEMMA WithinWhenFew ==
  ASSUME NEW max \in Nat, NEW z \in [0..max -> Nat], NEW f \in [0..max -> Nat],
         NEW w \in Nat, NEW l \in Nat, NEW e \in Nat,
         Backed(f, z, max, w, e), Total(z, 0..max) <= l
  PROVE  WithinWindow(f, z, max, l, w, e)
<1>1. ASSUME NEW u \in 0..max, IsNewest(z, max, u) PROVE Sum(f, max, Floor(u, e) - w, u) <= l
  <2>1. Sum(f, max, Floor(u, e) - w, u) <= Total(z, 0..max)
    BY <1>1, BackedSum
  <2>2. Sum(f, max, Floor(u, e) - w, u) \in Nat
    <3>1. PICK b \in Int : b = Floor(u, e) - w
      BY DEF Floor
    <3>2. u \in Int
      OBVIOUS
    <3> QED BY <3>1, <3>2, SumIsNat
  <2>3. Total(z, 0..max) \in Nat
    <3>1. IsFiniteSet(0..max)
      BY FS_Interval
    <3>2. \A t \in 0..max : z[t] \in Nat
      OBVIOUS
    <3> QED BY <3>1, <3>2, TotalIsNat
  <2>4. PICK i \in Nat, j \in Nat : i = Sum(f, max, Floor(u, e) - w, u) /\ j = Total(z, 0..max)
    BY <2>2, <2>3
  <2>5. i <= l
    BY <2>1, <2>4
  <2> QED BY <2>4, <2>5
<1> QED BY <1>1 DEF WithinWindow

LEMMA SoundWhenNew ==
  ASSUME NEW max \in Nat, NEW z, NEW f, NEW w, NEW l, NEW x, NEW e,
         \A t \in 0..max : f[t] = 0 /\ z[t] = 0
  PROVE  KeySound(f, z, max, l, w, x, e)
<1>1. \A u \in 0..max : ~IsNewest(z, max, u)
  BY DEF IsNewest
<1>2. Backed(f, z, max, w, e)
  BY DEF Backed
<1>3. WithinWindow(f, z, max, l, w, e)
  BY <1>1 DEF WithinWindow
<1>4. NoneSince(f, z, max, x - w)
  BY DEF NoneSince
<1> QED BY <1>2, <1>3, <1>4 DEF KeySound

\* A key that expires takes with it nothing of the window that begins then.
LEMMA SoundWhenLapsed ==
  ASSUME NEW max \in Nat, NEW z, NEW f \in [0..max -> Nat], NEW w \in Nat, NEW l,
         NEW x \in Nat, NEW n \in Nat, x <= n, NoneSince(f, z, max, x - w),
         NEW none, \A t \in 0..max : none[t] = 0
  PROVE  KeySound(f, none, max, l, w, x, n)
<1>1. \A u \in 0..max : ~IsNewest(none, max, u)
  BY DEF IsNewest
<1>2. ASSUME NEW t \in 0..max, ~(t <= n - w) PROVE f[t] <= none[t]
  <2>1. t > x - w
    BY <1>2
  <2> QED BY <2>1 DEF NoneSince
<1>3. Backed(f, none, max, w, n)
  BY <1>2 DEF Backed
<1>4. WithinWindow(f, none, max, l, w, n)
  BY <1>1 DEF WithinWindow
<1>5. NoneSince(f, none, max, x - w)
  BY DEF NoneSince
<1> QED BY <1>3, <1>4, <1>5 DEF KeySound

LEMMA RedisInit == Shape /\ LimiterInit => RedisInv
<1> SUFFICES ASSUME Shape, LimiterInit, NEW p \in Paths
             PROVE  KeySound(admitted[p], zset[p], MaxTime[mode], Limit[p], Window[p],
                             expiry[p], lapsed[p])
  BY DEF RedisInv
<1>1. PICK max \in Nat : max = MaxTime[mode]
  BY MaxOfMode
<1>2. PICK f, z, x, e : f = admitted[p] /\ z = zset[p] /\ x = expiry[p] /\ e = lapsed[p]
  OBVIOUS
<1>3. \A t \in 0..max : f[t] = 0 /\ z[t] = 0
  BY <1>1, <1>2, MaxOfMode DEF LimiterInit, NoRequests
<1>4. PICK l, w : l = Limit[p] /\ w = Window[p]
  OBVIOUS
<1>5. KeySound(f, z, max, l, w, x, e)
  BY <1>3, SoundWhenNew
<1> QED BY <1>1, <1>2, <1>4, <1>5

LEMMA RedisKept ==
  ASSUME Shape, Shape', RedisInv, [LimiterNext]_limiterVars, mode = "redis"
  PROVE  RedisInv'
<1>1. PICK max \in Nat : max = MaxTime[mode] /\ Times = 0..max
  BY MaxOfMode
<1>n. PICK n \in Nat : n = now
  BY MaxOfMode
<1>a. PICK zs, ad, ex, la : zs = zset /\ ad = admitted /\ ex = expiry /\ la = lapsed
  OBVIOUS
<1>2. ASSUME NEW q \in Paths
      PROVE  /\ ad[q] \in [0..max -> Nat] /\ zs[q] \in [0..max -> Nat]
             /\ Limit[q] \in Nat \ {0} /\ Window[q] \in Nat \ {0}
             /\ ex[q] \in Nat /\ la[q] \in Nat
             /\ KeySound(ad[q], zs[q], max, Limit[q], Window[q], ex[q], la[q])
  <2>1. KeySound(ad[q], zs[q], max, Limit[q], Window[q], ex[q], la[q])
    BY <1>1, <1>a DEF RedisInv
  <2>2. ad[q] \in [0..max -> Nat] /\ zs[q] \in [0..max -> Nat]
    BY <1>1, <1>a, AdmittedIs
  <2>3. ex[q] \in Nat /\ la[q] \in Nat
    BY <1>a DEF Shape, KeyTimes
  <2> QED BY <2>1, <2>2, <2>3, LimitIsNat
<1>f. ex \in [Paths -> Nat] /\ la \in [Paths -> Nat] /\ zset \in [Paths -> [Times -> Nat]]
      /\ admitted \in [Paths -> [Times -> Nat]]
  BY <1>a DEF Shape, KeyTimes
<1>k. ASSUME NEW p \in Paths, MaxTime[mode'] = max,
             KeySound(admitted'[p], zset'[p], max, Limit[p], Window[p], expiry'[p], lapsed'[p]),
             \A q \in Paths : q # p => /\ admitted'[q] = ad[q] /\ zset'[q] = zs[q]
                                       /\ expiry'[q] = ex[q] /\ lapsed'[q] = la[q]
      PROVE  RedisInv'
  <2>1. ASSUME NEW q \in Paths
        PROVE  KeySound(admitted'[q], zset'[q], MaxTime[mode'], Limit[q], Window[q],
                        expiry'[q], lapsed'[q])
    <3>1. CASE q = p
      BY <1>k, <3>1
    <3>2. CASE q # p
      BY <1>2, <1>k, <3>2
    <3> QED BY <3>1, <3>2
  <2> QED BY <2>1 DEF RedisInv
<1>3. ASSUME NEW c \in pending, RedisAnswers(c) \/ RedisFails(c) PROVE RedisInv'
  <2>1. mode' = mode /\ MaxTime[mode'] = max /\ now' = n /\ lapsed' = la
    BY <1>1, <1>n, <1>a, <1>3 DEF RedisAnswers, RedisFails
  <2>2. c.path \in Paths /\ c.at \in 0..now /\ c.at \in 0..max /\ c.at <= now
    BY MaxOfMode, <1>1 DEF Shape
  <2>3. PICK p \in Paths, at \in 0..max : p = c.path /\ at = c.at
    BY <2>2
  <2>4. PICK l \in Nat \ {0}, w \in Nat \ {0} : l = Limit[p] /\ w = Window[p]
    BY <1>2
  <2>5. PICK f, z, x, e : f = ad[p] /\ z = zs[p] /\ x = ex[p] /\ e = la[p]
    OBVIOUS
  <2>6. /\ f \in [0..max -> Nat] /\ z \in [0..max -> Nat] /\ x \in Nat /\ e \in Nat
        /\ KeySound(f, z, max, l, w, x, e)
    BY <1>2, <2>4, <2>5
  <2>b. Backed(f, z, max, w, e) /\ WithinWindow(f, z, max, l, w, e)
    BY <2>6 DEF KeySound
  <2>7. PICK y : y = Pushed(z, max, at, w)
    OBVIOUS
  <2>8. /\ HasRequest(y, z, max, at, w) /\ y \in [0..max -> Nat]
        /\ Backed(f, y, max, w, e) /\ Backed(Plus(f, at), y, max, w, e)
        /\ WithinWindow(f, y, max, l, w, e)
    <3>1. HasRequest(y, z, max, at, w)
      BY <2>6, <2>7, PushedIs
    <3>2. Backed(f, y, max, w, e) /\ Backed(Plus(f, at), y, max, w, e)
      BY <2>6, <2>b, <2>7, BackedWhenPushed
    <3>3. WithinWindow(f, y, max, l, w, e)
      BY <2>6, <2>b, <2>7, WithinWhenPushed
    <3> QED BY <3>1, <3>2, <3>3 DEF HasRequest
  <2>9. ASSUME Counted(c)
        PROVE  /\ zset'[p] = y /\ expiry'[p] = n + w
               /\ \A q \in Paths : q # p => zset'[q] = zs[q] /\ expiry'[q] = ex[q]
    <3>1. zset' = [zset EXCEPT ![p] = WithRequest(zset[p], c)] /\ expiry' = [ex EXCEPT ![p] = n + w]
      BY <1>n, <1>a, <2>3, <2>4, <2>9 DEF Counted, Deadline
    <3>2. WithRequest(zset[p], c) = y
      BY <1>1, <1>a, <2>3, <2>4, <2>5, <2>7 DEF WithRequest, Pushed
    <3> QED BY <1>a, <1>f, <3>1, <3>2
  <2>10. \/ UNCHANGED <<zset, expiry>> /\ UNCHANGED admitted
         \/ Counted(c) /\ UNCHANGED admitted
         \/ Counted(c) /\ Admit(p, at) /\ Members(zset'[p]) <= l
    BY <1>3, <2>3, <2>4 DEF RedisAnswers, RedisFails, WithinLimit
  <2>11. PICK f1, z1, x1 : f1 = admitted'[p] /\ z1 = zset'[p] /\ x1 = expiry'[p]
    OBVIOUS
  <2>12. ASSUME Counted(c) PROVE NoneSince(f1, z1, max, x1 - w)
    <3>1. x1 - w = n
      BY <2>9, <2>11, <2>12
    <3>2. \A t \in 0..max : t > n => z1[t] = 0 /\ f1[t] = 0
      <4>1. \A q \in Paths : \A t \in 0..MaxTime[mode'] : t > now' => zset'[q][t] = 0 /\ admitted'[q][t] = 0
        BY DEF Shape, Times
      <4> QED BY <2>1, <2>11, <4>1
    <3> QED BY <3>1, <3>2 DEF NoneSince
  <2>13. /\ KeySound(f1, z1, max, l, w, x1, e)
         /\ \A q \in Paths : q # p => /\ admitted'[q] = ad[q] /\ zset'[q] = zs[q]
                                       /\ expiry'[q] = ex[q]
    <3>1. CASE UNCHANGED <<zset, expiry>> /\ UNCHANGED admitted
      BY <1>a, <2>5, <2>6, <2>11, <3>1
    <3>2. CASE Counted(c) /\ UNCHANGED admitted
      <4>1. f1 = f /\ z1 = y
        BY <1>a, <2>5, <2>9, <2>11, <3>2
      <4> QED BY <1>a, <2>8, <2>9, <2>12, <3>2, <4>1 DEF KeySound
    <3>3. CASE Counted(c) /\ Admit(p, at) /\ Members(zset'[p]) <= l
      <4>0. at \in Times /\ at <= now
        BY <1>1, <2>2, <2>3
      <4>1. admitted'[p] = Plus(admitted[p], at) /\ \A q \in Paths : q # p => admitted'[q] = admitted[q]
        BY <3>3, <4>0, AdmitIs
      <4>2. f1 = Plus(f, at) /\ z1 = y
        BY <1>a, <2>5, <2>9, <2>11, <3>3, <4>1
      <4>3. Total(y, 0..max) <= l
        <5>1. DOMAIN y = 0..max
          BY <2>8
        <5>2. Members(y) = Total(y, 0..max)
          BY <5>1 DEF Members, FoldFunction, Total
        <5> QED BY <2>11, <3>3, <4>2, <5>2
      <4>4. Plus(f, at) \in [0..max -> Nat]
        BY <2>6, PlusIs
      <4>5. WithinWindow(f1, z1, max, l, w, e)
        BY <2>6, <2>8, <4>2, <4>3, <4>4, WithinWhenFew
      <4>6. KeySound(f1, z1, max, l, w, x1, e)
        BY <2>8, <2>12, <3>3, <4>2, <4>5 DEF KeySound
      <4> QED BY <1>a, <2>9, <3>3, <4>1, <4>6
    <3> QED BY <2>10, <3>1, <3>2, <3>3
  <2>14. KeySound(admitted'[p], zset'[p], max, Limit[p], Window[p], expiry'[p], lapsed'[p])
    BY <2>1, <2>4, <2>5, <2>11, <2>13
  <2> QED BY <1>k, <2>1, <2>13, <2>14
<1>4. ASSUME NEW p \in Paths, ResetRedis(p) PROVE RedisInv'
  <2>1. /\ zset' = [zset EXCEPT ![p] = NoRequests] /\ admitted' = [admitted EXCEPT ![p] = NoRequests]
        /\ MaxTime[mode'] = max /\ expiry' = ex /\ lapsed' = la
    BY <1>1, <1>a, <1>4 DEF ResetRedis
  <2>2. PICK f : f = NoRequests
    OBVIOUS
  <2>3. \A t \in 0..max : f[t] = 0
    BY <1>1, <2>2 DEF NoRequests
  <2>4. \A q \in Paths : /\ q = p => zset'[q] = f /\ admitted'[q] = f
                         /\ q # p => zset'[q] = zs[q] /\ admitted'[q] = ad[q]
    BY <1>a, <1>f, <2>1, <2>2
  <2>5. KeySound(f, f, max, Limit[p], Window[p], ex[p], la[p])
    BY <2>3, SoundWhenNew
  <2> QED BY <1>k, <2>1, <2>4, <2>5
<1>5. ASSUME NEW p \in Paths, KeyExpires(p) PROVE RedisInv'
  <2>1. /\ zset' = [zset EXCEPT ![p] = NoRequests] /\ admitted' = ad
        /\ MaxTime[mode'] = max /\ expiry' = ex /\ lapsed' = [la EXCEPT ![p] = n]
        /\ ex[p] <= n
    <3>1. n >= ex[p]
      BY <1>n, <1>a, <1>5 DEF KeyExpires
    <3> QED BY <1>1, <1>2, <1>n, <1>a, <1>5, <3>1 DEF KeyExpires
  <2>2. PICK none : none = NoRequests
    OBVIOUS
  <2>3. \A t \in 0..max : none[t] = 0
    BY <1>1, <2>2 DEF NoRequests
  <2>4. /\ zset'[p] = none /\ lapsed'[p] = n
        /\ \A q \in Paths : q # p => zset'[q] = zs[q] /\ lapsed'[q] = la[q]
    BY <1>a, <1>f, <2>1, <2>2
  <2>5. PICK f, z, l, w, x : f = ad[p] /\ z = zs[p] /\ l = Limit[p] /\ w = Window[p] /\ x = ex[p]
    OBVIOUS
  <2>6. f \in [0..max -> Nat] /\ w \in Nat /\ x \in Nat /\ x <= n /\ NoneSince(f, z, max, x - w)
    BY <1>2, <2>1, <2>5 DEF KeySound
  <2>7. KeySound(f, none, max, l, w, x, n)
    BY <2>3, <2>6, SoundWhenLapsed
  <2> QED BY <1>k, <2>1, <2>4, <2>5, <2>7
<1>6. ASSUME NEW p \in Paths, CheckRedis(p) PROVE RedisInv'
  <2>1. mode' = mode /\ zset' = zset /\ admitted' = admitted /\ expiry' = expiry /\ lapsed' = lapsed
    BY <1>6 DEF CheckRedis, keyVars
  <2> QED BY <2>1 DEF RedisInv
<1>7. ASSUME Tick PROVE RedisInv'
  <2>1. mode' = mode /\ zset' = zset /\ admitted' = admitted /\ expiry' = expiry /\ lapsed' = lapsed
    BY <1>7 DEF Tick, keyVars
  <2> QED BY <2>1 DEF RedisInv
<1>8. CASE UNCHANGED limiterVars
  BY <1>8 DEF limiterVars, keyVars, RedisInv
<1>9. \A p \in Paths : ~CheckMemory(p) /\ ~ResetMemory(p)
  BY DEF CheckMemory, ResetMemory
<1> QED BY <1>3, <1>4, <1>5, <1>6, <1>7, <1>8, <1>9 DEF LimiterNext
-----------------------------------------------------------------------------
(* The bounds.                                                              *)

LimitsInv == Shape /\ SlidingInv /\ TokenInv /\ FixedInv /\ RedisInv

LEMMA ModeStays == ASSUME [LimiterNext]_limiterVars PROVE mode' = mode
BY DEF LimiterNext, limiterVars, CheckMemory, CheckRedis, KeyExpires, ResetMemory, ResetRedis, RedisAnswers, RedisFails, Tick

LEMMA LimitsInvKept == Comparable /\ LimitsInv /\ [LimiterNext]_limiterVars => LimitsInv'
<1> SUFFICES ASSUME Comparable, LimitsInv, [LimiterNext]_limiterVars PROVE LimitsInv'
  OBVIOUS
<1>1. Shape /\ Shape' /\ mode' = mode
  BY ShapeNext, ModeStays DEF LimitsInv
<1>2. SlidingInv'
  <2>1. CASE mode = "sliding"
    <3>1. SameWindow
      BY <1>1, <2>1 DEF Comparable, Shape
    <3> QED BY <1>1, <2>1, <3>1, SlidingKept DEF LimitsInv
  <2>2. CASE mode # "sliding"
    BY <1>1, <2>2 DEF SlidingInv
  <2> QED BY <2>1, <2>2
<1>3. TokenInv'
  <2>1. CASE mode = "token"
    BY <1>1, <2>1, TokenKept DEF LimitsInv
  <2>2. CASE mode # "token"
    BY <1>1, <2>2 DEF TokenInv
  <2> QED BY <2>1, <2>2
<1>4. FixedInv'
  <2>1. CASE mode = "fixed"
    <3>1. SameWindow
      BY <1>1, <2>1 DEF Comparable, Shape
    <3> QED BY <1>1, <2>1, <3>1, FixedKept DEF LimitsInv
  <2>2. CASE mode # "fixed"
    BY <1>1, <2>2 DEF FixedInv
  <2> QED BY <2>1, <2>2
<1>5. RedisInv'
  <2>1. CASE mode = "redis"
    BY <1>1, <2>1, RedisKept DEF LimitsInv
  <2>2. CASE mode # "redis"
    BY <1>1, <2>2 DEF RedisInv
  <2> QED BY <2>1, <2>2
<1> QED BY <1>1, <1>2, <1>3, <1>4, <1>5 DEF LimitsInv

LEMMA SlidingIsBounded == LimitsInv /\ mode = "sliding" => SlidingBound
BY AdmissionsAre DEF LimitsInv, SlidingInv, SlidingBound

LEMMA TokenIsBounded == LimitsInv /\ mode = "token" => TokenBound
<1> SUFFICES ASSUME LimitsInv, mode = "token", NEW p \in Paths, NEW q \in Paths, Largest(q),
                    NEW d \in 1..(2 * Window[p])
             PROVE  Admissions(p, now - d, now) * Window[p] <= (Window[p] + d - 1) * Limit[q]
  BY DEF TokenBound
<1>0. Shape /\ mem \in ClientEntry /\ EntryUpTo(mem, now)
  BY DEF LimitsInv, Shape, EntryUpTo
<1>1. PICK max \in Nat, n \in Nat : max = MaxTime[mode] /\ n = now
  BY <1>0, MaxOfMode
<1>2. PICK f : f = admitted[p]
  OBVIOUS
<1>3. PICK l \in Nat \ {0}, w \in Nat \ {0} : l = Limit[q] /\ w = Window[p]
  BY LimitIsNat
<1>4. f \in [0..max -> Nat] /\ d \in Nat /\ d >= 1
  BY <1>0, <1>1, <1>2, <1>3, AdmittedIs
<1>5. PICK a \in Int : a = n - d
  BY <1>4
<1>6. PICK top \in Nat : top = (w + d - 1) * l
  <2>1. w + d - 1 \in Nat
    BY <1>4
  <2>2. (w + d - 1) * l \in Nat
    BY <2>1
  <2> QED BY <2>2
<1>7. Sum(f, max, a, n) * w <= top
  <2>1. CASE ~mem.known
    <3>1. \A t \in 0..max : f[t] = 0
      BY <1>1, <1>2, <2>1 DEF LimitsInv, TokenInv
    <3>2. Sum(f, max, a, n) = 0
      BY <3>1, SumOfZeros
    <3> QED BY <3>2
  <2>2. CASE mem.known
    <3>1. PICK at \in Nat, left \in Nat : at = mem.at /\ left = mem.amount
      BY <1>0 DEF ClientEntry
    <3>2. at <= n /\ Paid(f, max, at, left, l, w)
      BY <1>0, <1>1, <1>2, <1>3, <2>2, <3>1 DEF LimitsInv, TokenInv, EntryUpTo
    <3>3. \A t \in 0..max : t > at => f[t] = 0
      BY <3>2 DEF Paid
    <3>4. CASE a < at
      <4>1. Sum(f, max, a, n) = Sum(f, max, a, at)
        BY <1>4, <3>2, <3>3, <3>4, SumUpTo
      <4>2. PICK s \in Int : s = a + 1
        OBVIOUS
      <4>3. s <= at /\ s - 1 = a
        BY <3>4, <4>2
      <4>4. Sum(f, max, a, at) * w + left <= l * w + (at - s) * l
        BY <3>2, <4>3 DEF Paid
      <4>5. Sum(f, max, a, at) \in Nat
        BY <1>4, SumIsNat
      <4>6. PICK x \in Nat : x = Sum(f, max, a, at) * w
        BY <4>5
      <4>7. (at - s) * l <= (d - 1) * l
        <5>1. PICK i \in Nat, j \in Nat : i = at - s /\ j = d - 1
          <6>1. at - s \in Nat /\ d - 1 \in Nat
            BY <1>4, <4>3
          <6> QED BY <6>1
        <5>2. i <= j
          BY <1>5, <3>2, <4>2, <5>1
        <5>3. PICK k \in Nat : k = j - i
          <6>1. j - i \in Nat
            BY <5>2
          <6> QED BY <6>1
        <5>4. j * l = i * l + k * l /\ k * l >= 0
          <6>1. j = i + k
            BY <5>3
          <6> QED BY <6>1, Distributes
        <5> QED BY <5>1, <5>4
      <4>8. top = l * w + (d - 1) * l
        <5>1. (w + (d - 1)) * l = w * l + (d - 1) * l
          BY <1>4, Distributes
        <5>2. w + d - 1 = w + (d - 1) /\ w * l = l * w
          BY <1>4
        <5> QED BY <1>6, <5>1, <5>2
      <4>9. PICK y \in Int, z \in Int, v \in Int : y = l * w /\ z = (at - s) * l /\ v = (d - 1) * l
        BY <1>4
      <4>10. x + left <= y + z /\ z <= v /\ top = y + v
        BY <4>4, <4>6, <4>7, <4>8, <4>9
      <4>11. x <= top
        BY <4>10
      <4> QED BY <4>1, <4>6, <4>11
    <3>5. CASE ~(a < at)
      <4>1. \A t \in 0..max : a < t /\ t <= n => f[t] = 0
        BY <3>3, <3>5
      <4>2. Sum(f, max, a, n) = 0
        BY <4>1, SumOfZeros
      <4> QED BY <4>2
    <3> QED BY <3>4, <3>5
  <2> QED BY <2>1, <2>2
<1> QED BY <1>1, <1>2, <1>3, <1>5, <1>6, <1>7, AdmissionsAre

LEMMA FixedIsBounded == LimitsInv /\ mode = "fixed" => FixedBound
<1> SUFFICES ASSUME LimitsInv, mode = "fixed", NEW p \in Paths
             PROVE  /\ Admissions(p, now - (now % Window[p]) - 1, now) <= Limit[p]
                    /\ Admissions(p, now - Window[p], now) <= 2 * Limit[p]
  BY DEF FixedBound
<1>0. Shape
  BY DEF LimitsInv
<1>1. PICK max \in Nat, n \in Nat : max = MaxTime[mode] /\ n = now
  BY <1>0, MaxOfMode
<1>2. PICK f : f = admitted[p]
  OBVIOUS
<1>3. PICK l \in Nat \ {0}, w \in Nat \ {0} : l = Limit[p] /\ w = Window[p]
  BY LimitIsNat
<1>4. f \in [0..max -> Nat] /\ Fits(f, max, l, w)
  BY <1>0, <1>1, <1>2, <1>3, AdmittedIs DEF LimitsInv, FixedInv
<1>5. PICK s \in Nat : s = n - (n % w)
  BY ModIs
<1>6. Aligned(s, w) /\ s <= n /\ n < s + w
  <2>1. n % w \in 0..(w - 1) /\ Aligned(n - (n % w), w)
    BY ModIs
  <2> QED BY <1>5, <2>1
<1>7. Aligned(s - w, w)
  <2>1. PICK k \in Int : s = k * w
    BY <1>6 DEF Aligned
  <2>2. (k - 1) * w = k * w - 1 * w
    BY Distributes
  <2>3. s - w = (k - 1) * w /\ k - 1 \in Int
    BY <2>1, <2>2
  <2> QED BY <2>3 DEF Aligned
<1>8. PICK a \in Int, b \in Int, c \in Int, e \in Int :
        a = s - w - 1 /\ b = s - 1 /\ c = s + w - 1 /\ e = n - w
  OBVIOUS
<1>9. Sum(f, max, a, b) <= l /\ Sum(f, max, b, c) <= l
  <2>1. PICK k \in Int : k = s - w
    OBVIOUS
  <2>2. Aligned(k, w) /\ Aligned(s, w) /\ s \in Int
    BY <1>6, <1>7, <2>1
  <2>3. Sum(f, max, k - 1, k + w - 1) <= l /\ Sum(f, max, s - 1, s + w - 1) <= l
    BY <1>4, <2>2 DEF Fits
  <2>4. k - 1 = a /\ k + w - 1 = b
    BY <1>8, <2>1
  <2> QED BY <1>8, <2>3, <2>4
<1>10. a <= e /\ e <= n /\ a <= b /\ b <= c /\ n <= c /\ b <= n
  BY <1>6, <1>8
<1>11. \A t \in 0..max : f[t] <= f[t]
  BY <1>4
<1>12. /\ Sum(f, max, b, n) <= Sum(f, max, b, c)
       /\ Sum(f, max, e, n) <= Sum(f, max, a, c)
  <2>1. n \in Int /\ b <= b
    OBVIOUS
  <2>2. Sum(f, max, b, n) <= Sum(f, max, b, c)
    BY <1>4, <1>10, <1>11, <2>1, SumGrows
  <2>3. Sum(f, max, e, n) <= Sum(f, max, a, c)
    BY <1>4, <1>10, <1>11, <2>1, SumGrows
  <2> QED BY <2>2, <2>3
<1>13. Sum(f, max, a, c) = Sum(f, max, a, b) + Sum(f, max, b, c)
  BY <1>4, <1>10, SumSplits
<1>14. /\ Sum(f, max, a, b) \in Nat /\ Sum(f, max, b, c) \in Nat
       /\ Sum(f, max, b, n) \in Nat /\ Sum(f, max, e, n) \in Nat
  <2>1. n \in Int
    OBVIOUS
  <2> QED BY <1>4, <2>1, SumIsNat
<1>15. PICK x \in Nat, y \in Nat, u \in Nat, v \in Nat :
         /\ x = Sum(f, max, a, b) /\ y = Sum(f, max, b, c)
         /\ u = Sum(f, max, b, n) /\ v = Sum(f, max, e, n)
  BY <1>14
<1>16. u <= l /\ v <= 2 * l
  BY <1>9, <1>12, <1>13, <1>15
<1>17. Sum(f, max, n - (n % w) - 1, n) <= l /\ Sum(f, max, n - w, n) <= 2 * l
  BY <1>5, <1>8, <1>15, <1>16
<1> QED BY <1>1, <1>2, <1>3, <1>17, AdmissionsAre

LEMMA RedisIsBounded == LimitsInv /\ mode = "redis" => RedisBound
<1> SUFFICES ASSUME LimitsInv, mode = "redis", NEW p \in Paths, zset[p] # NoRequests
             PROVE  LET newest == Newest(zset[p]) IN
                    Admissions(p, Floor(newest, lapsed[p]) - Window[p], newest) <= Limit[p]
  BY DEF RedisBound
<1>0. Shape
  BY DEF LimitsInv
<1>1. PICK max \in Nat : max = MaxTime[mode] /\ Times = 0..max
  BY <1>0, MaxOfMode
<1>2. PICK f, z : f = admitted[p] /\ z = zset[p]
  OBVIOUS
<1>3. z \in [0..max -> Nat] /\ WithinWindow(f, z, max, Limit[p], Window[p], lapsed[p])
  BY <1>0, <1>1, <1>2, AdmittedIs DEF LimitsInv, RedisInv, KeySound
<1>4. PICK x \in 0..max : z[x] > 0
  <2>1. z # [t \in 0..max |-> 0]
    BY <1>1, <1>2 DEF NoRequests
  <2>2. PICK x \in 0..max : z[x] # 0
    BY <1>3, <2>1
  <2>3. z[x] \in Nat
    BY <1>3
  <2> QED BY <2>2, <2>3
<1>5. \E u \in 0..max : IsNewest(z, max, u)
  BY <1>3, <1>4, NewestExists
<1>6. PICK u : u = Newest(z)
  OBVIOUS
<1>7. u \in 0..max /\ IsNewest(z, max, u)
  BY <1>1, <1>5, <1>6 DEF Newest, IsNewest
<1>8. Sum(f, max, Floor(u, lapsed[p]) - Window[p], u) <= Limit[p]
  BY <1>3, <1>7 DEF WithinWindow
<1> QED BY <1>1, <1>2, <1>6, <1>8, AdmissionsAre

\* Logs, buckets, windows and sorted sets are in order, and let through no
\* more of the requests to a path than its limit allows, in the sense of the
\* algorithm in use (algorithms.py, RateLimiter.check): the property that the
\* run checks, for every limit, window, horizon and load.  In memory a client
\* has one log or window for all its paths, so that there paths must agree on
\* the window; a bucket is bounded by the largest limit, and in Redis a key
\* that expires takes with it what is older than a window.
THEOREM LimitsAreHeld == ASSUME Comparable PROVE LimiterSpec => []LimitsHold
<1>1. LimiterInit => LimitsInv
  BY ShapeInit, SlidingInit, TokenInit, FixedInit, RedisInit DEF LimitsInv
<1>2. LimitsInv /\ [LimiterNext]_limiterVars => LimitsInv'
  BY LimitsInvKept
<1>3. LimitsInv => LimitsHold
  <2> SUFFICES ASSUME LimitsInv PROVE LimitsHold
    OBVIOUS
  <2>1. LimiterTypes /\ mode \in {"sliding", "token", "fixed", "redis"}
    BY ShapeIsType, ModeIs DEF LimitsInv
  <2>2. AdmissionsBounded
    <3>1. CASE mode = "sliding"
      BY <3>1, SlidingIsBounded DEF AdmissionsBounded
    <3>2. CASE mode = "token"
      BY <3>2, TokenIsBounded DEF AdmissionsBounded
    <3>3. CASE mode = "fixed"
      BY <3>3, FixedIsBounded DEF AdmissionsBounded
    <3>4. CASE mode = "redis"
      BY <3>4, RedisIsBounded DEF AdmissionsBounded
    <3> QED BY <2>1, <3>1, <3>2, <3>3, <3>4
  <2> QED BY <2>1, <2>2 DEF LimitsHold
<1> QED BY <1>1, <1>2, <1>3, PTL DEF LimiterSpec
-----------------------------------------------------------------------------
(* What a denied client is told.                                            *)

\* The instant h at which a client was told to come back: the oldest request
\* of the log will have left the window of w, ...
LogWaits(m, h, w) == Len(m.log) >= 1 => m.log[1] + w <= h
\* ... the bucket will hold a token, ...
BucketWaits(m, h, l, w) == m.known => m.amount + (h - m.at) * l >= w
\* ... the counted window will be over.
WindowWaits(m, h, w) == m.known => m.at + w <= h

\* What holds for p of the entry m, if p was told to come back at h.
Promise(p, m, h) ==
  h <= MaxTime[mode] =>
    /\ mode = "sliding" => LogWaits(m, h, Window[p])
    /\ mode = "token" => BucketWaits(m, h, Limit[p], Window[p])
    /\ mode = "fixed" => WindowWaits(m, h, Window[p])

\* A log is never longer than the largest limit, or one more request than the
\* oldest would have to leave it.
RetryInv ==
  \A p \in Paths : MayPromise(p) =>
    /\ mode = "sliding" => Len(mem.log) <= Limit[p]
    /\ Promise(p, mem, honest[p])

\* A denied check leaves a log of limit requests, the oldest of which decides.
LEMMA LogDenies ==
  ASSUME NEW n \in Nat, NEW m, EntryUpTo(m, n), NEW l \in Nat \ {0}, NEW w \in Nat \ {0},
         NEW k \in Nat, NEW c \in Nat, NEW v, SlidingSays(m, n, l, w, k, c, v),
         Len(m.log) <= l, ~v.ok
  PROVE  /\ Len(m.log) >= 1 /\ v.entry = m
         /\ m.log[1] \in Nat /\ m.log[1] + w > n /\ v.retry = m.log[1] + w - n
<1>1. /\ k = Len(m.log) /\ c < k /\ k - c >= l /\ v.entry = m
      /\ m.log[c + 1] + w > n /\ v.retry = m.log[c + 1] + w - n
  BY DEF SlidingSays
<1>2. c = 0 /\ k >= 1
  BY <1>1
<1>3. m.log[1] \in Nat
  <2>1. m.log \in Seq(Nat)
    BY DEF EntryUpTo, Ordered
  <2> QED BY <1>1, <1>2, <2>1, LenProperties, ElementOfSeq
<1>4. c + 1 = 1
  BY <1>2
<1> QED BY <1>1, <1>2, <1>3, <1>4

LEMMA LogStaysShort ==
  ASSUME NEW n \in Nat, NEW m, NEW l \in Nat \ {0}, NEW w \in Nat \ {0},
         NEW k \in Nat, NEW c \in Nat, c <= k, NEW v, SlidingSays(m, n, l, w, k, c, v),
         v.ok
  PROVE  Len(v.entry.log) <= l
<1>1. k = Len(m.log) /\ k - c < l /\ Len(v.entry.log) = Len(m.log) - c + 1
  BY DEF SlidingSays, Renewed
<1> QED BY <1>1

\* An empty bucket holds what flowed into it.
LEMMA BucketDenies ==
  ASSUME NEW n \in Nat, NEW m, EntryUpTo(m, n), NEW l \in Nat \ {0}, NEW w \in Nat \ {0},
         NEW r \in Nat, NEW v, TokenSays(m, n, l, w, r, v), ~v.ok
  PROVE  /\ m.known /\ r < w /\ r = m.amount + (n - m.at) * l
         /\ v.entry.at = n /\ v.entry.amount = r
         /\ v.retry \in Nat /\ r + v.retry * l >= w
<1>1. PICK lw \in Nat : lw = l * w
  OBVIOUS
<1>2. w <= lw
  <2>1. PICK j \in Nat : l = j + 1
    <3>1. l - 1 \in Nat /\ l = (l - 1) + 1
      OBVIOUS
    <3> QED BY <3>1
  <2>2. lw = j * w + w /\ j * w >= 0
    BY <1>1, <2>1
  <2>3. PICK jw \in Nat : jw = j * w
    BY <2>2
  <2> QED BY <2>2, <2>3
<1>3. r < w /\ v.entry.at = n /\ v.entry.amount = r /\ v.retry \in Nat /\ v.retry * l >= w - r
  BY DEF TokenSays
<1>4. r < lw
  BY <1>2, <1>3
<1>5. m.known
  BY <1>1, <1>4 DEF TokenSays
<1>6. r = m.amount + (n - m.at) * l
  BY <1>1, <1>4, <1>5 DEF TokenSays
<1>7. PICK x \in Nat : x = v.retry * l
  BY <1>3
<1> QED BY <1>3, <1>5, <1>6, <1>7

\* What flows in until h does not depend on when the bucket is looked at.
LEMMA BucketWaitsOn ==
  ASSUME NEW n \in Nat, NEW m, NEW at \in Nat, at = m.at, NEW amount \in Nat, amount = m.amount,
         NEW l \in Nat, NEW w \in Nat, NEW h \in Nat, m.known,
         BucketWaits(m, h, l, w)
  PROVE  amount + (n - at) * l + (h - n) * l >= w
<1>1. amount + (h - at) * l >= w
  BY DEF BucketWaits
<1>2. PICK nl \in Int, hl \in Int, al \in Int : nl = n * l /\ hl = h * l /\ al = at * l
  OBVIOUS
<1>3. (h - at) * l = hl - al /\ (n - at) * l = nl - al /\ (h - n) * l = hl - nl
  BY <1>2, Distributes
<1> QED BY <1>1, <1>3

\* A full window is the current one.
LEMMA WindowDenies ==
  ASSUME NEW n \in Nat, NEW m, NEW l \in Nat \ {0}, NEW w \in Nat \ {0},
         NEW s \in Nat, NEW b \in Nat, NEW c \in Nat, NEW v, FixedSays(m, n, l, w, s, b, c, v),
         ~v.ok
  PROVE  m.known /\ m.at = b
<1>1. c >= l
  BY DEF FixedSays
<1>2. m.known /\ m.at >= s
  <2>1. ~(m.known /\ m.at >= s) => c = 0
    BY DEF FixedSays
  <2> QED BY <1>1, <2>1
<1>3. b = m.at
  BY <1>2 DEF FixedSays
<1> QED BY <1>1, <1>2, <1>3
LEMMA NeverIsLate == ASSUME Shape PROVE Never \in Nat /\ ~(Never <= MaxTime[mode])
BY MaxOfMode DEF Never

LEMMA RetryInit == Shape /\ LimiterInit => RetryInv
<1> SUFFICES ASSUME Shape, LimiterInit, NEW p \in Paths
             PROVE  Len(mem.log) <= Limit[p] /\ ~(honest[p] <= MaxTime[mode])
  BY DEF RetryInv, Promise
<1>1. mem.log = <<>> /\ honest[p] = Never
  BY DEF LimiterInit, Unknown
<1>2. Len(mem.log) = 0
  BY <1>1
<1> QED BY <1>1, <1>2, LimitIsNat, NeverIsLate

\* What a check of p leaves of the promise made to q.
LEMMA RetryChecked ==
  ASSUME Shape, RetryInv, mode # "redis",
         NEW p \in Paths, CheckMemory(p), NEW q \in Paths, MayPromise(q)
  PROVE  /\ mode = "sliding" => Len(mem'.log) <= Limit[q]
         /\ honest'[q] <= MaxTime[mode] =>
              /\ mode = "sliding" => LogWaits(mem', honest'[q], Window[q])
              /\ mode = "token" => BucketWaits(mem', honest'[q], Limit[q], Window[q])
              /\ mode = "fixed" => WindowWaits(mem', honest'[q], Window[q])
<1>m. PICK m, e : m = mem /\ e = mem'
  OBVIOUS
<1>n. PICK n \in Nat : n = now
  BY MaxOfMode
<1>1. EntryUpTo(m, n) /\ n = now /\ m = mem
  BY <1>m, <1>n DEF Shape
<1>0. m.at \in Nat /\ m.at <= n /\ m.amount \in Nat /\ m.known \in BOOLEAN
  <2>1. m \in ClientEntry /\ m.at <= n
    BY <1>1 DEF EntryUpTo
  <2> QED BY <2>1 DEF ClientEntry
<1>2. PICK l \in Nat \ {0}, w \in Nat \ {0} : l = Limit[p] /\ w = Window[p]
  BY LimitIsNat
<1>h. PICK h1 : h1 = honest'[q]
  OBVIOUS
<1>3. PICK h \in Nat : h = honest[q] /\ h1 = honest'[q]
  BY <1>h DEF Shape
<1>4. PICK v : v = Verdict(p)
  OBVIOUS
<1>5. /\ e = v.entry
      /\ v.ok => ~(h1 <= MaxTime[mode])
      /\ ~v.ok => h1 = IF q = p THEN n + v.retry ELSE h
  BY <1>1, <1>m, <1>3, <1>4, AfterCheck, NeverIsLate
<1>6. mode = "sliding" => Len(m.log) <= Limit[q]
  BY <1>1 DEF RetryInv
<1>7. h <= MaxTime[mode] =>
        /\ mode = "sliding" => LogWaits(m, h, Window[q])
        /\ mode = "token" => BucketWaits(m, h, Limit[q], Window[q])
        /\ mode = "fixed" => WindowWaits(m, h, Window[q])
  BY <1>1, <1>3 DEF RetryInv, Promise
<1>8. CASE mode = "sliding"
  <2>1. v = Sliding(m, l, w)
    BY <1>1, <1>2, <1>4, <1>8, VerdictIs
  <2>2. PICK k \in Nat, c \in Nat : c <= k /\ SlidingSays(m, n, l, w, k, c, v)
    BY <1>1, <2>1, SlidingIs
  <2>3. l <= Limit[q] /\ Limit[q] \in Nat
    BY <1>2, <1>8, LimitIsNat DEF MayPromise, Largest
  <2>4. CASE v.ok
    <3>1. Len(e.log) <= l
      BY <1>5, <2>2, <2>4, LogStaysShort
    <3>2. Len(e.log) \in Nat
      <4>1. mem' \in ClientEntry
        <5>1. EntryUpTo(mem', now')
          BY ShapeNext DEF LimiterNext, Shape
        <5> QED BY <5>1 DEF EntryUpTo
      <4> QED BY <1>m, <4>1, LenProperties DEF ClientEntry
    <3>3. Len(e.log) <= Limit[q]
      BY <2>3, <3>1, <3>2
    <3> QED BY <1>m, <1>3, <1>5, <1>8, <2>4, <3>3
  <2>5. CASE ~v.ok
    <3>0. v.entry = m
      BY <2>2, <2>5 DEF SlidingSays
    <3>1. e = m
      BY <1>5, <3>0
    <3>2. h1 <= MaxTime[mode] => LogWaits(m, h1, Window[q])
      <4>1. CASE q = p
        <5>0. /\ Len(m.log) >= 1
              /\ m.log[1] \in Nat /\ m.log[1] + w > n /\ v.retry = m.log[1] + w - n
          <6>1. EntryUpTo(m, n)
            BY <1>1
          <6>2. SlidingSays(m, n, l, w, k, c, v)
            BY <2>2
          <6>3. Len(m.log) <= l
            BY <1>2, <1>6, <1>8, <4>1
          <6>4. ~v.ok
            BY <2>5
          <6> HIDE DEF EntryUpTo, SlidingSays
          <6> QED BY ONLY n \in Nat, l \in Nat \ {0}, w \in Nat \ {0}, k \in Nat, c \in Nat,
                       <6>1, <6>2, <6>3, <6>4, LogDenies
        <5>1. h1 = m.log[1] + w /\ w = Window[q]
          BY <1>2, <1>5, <2>5, <4>1, <5>0
        <5> QED BY <5>0, <5>1 DEF LogWaits
      <4>2. CASE q # p
        BY <1>5, <1>7, <1>8, <2>5, <4>2
      <4> QED BY <4>1, <4>2
    <3> QED BY <1>m, <1>3, <1>6, <1>8, <3>1, <3>2
  <2> QED BY <2>4, <2>5
<1>9. CASE mode = "token"
  <2>1. v = Token(m, l, w)
    BY <1>1, <1>2, <1>4, <1>9, VerdictIs
  <2>2. PICK r \in Nat : TokenSays(m, n, l, w, r, v)
    BY <1>1, <2>1, TokenIs
  <2>3. w = Window[q]
    <3>1. "token" \in Modes
      BY <1>9 DEF Shape
    <3> QED BY <1>2, <3>1, OneWindowAssumption
  <2>q. PICK lq \in Nat \ {0} : lq = Limit[q]
    BY LimitIsNat
  <2>l. lq <= l
    BY <1>2, <1>9, <2>q DEF MayPromise, Smallest
  <2>4. CASE v.ok
    BY <1>m, <1>3, <1>5, <1>9, <2>4
  <2>5. CASE ~v.ok
    <3>1. /\ m.known /\ r < w /\ r = m.amount + (n - m.at) * l
          /\ e.at = n /\ e.amount = r
          /\ v.retry \in Nat /\ r + v.retry * l >= w
      BY <1>1, <1>5, <2>2, <2>5, BucketDenies
    <3>2. h1 <= MaxTime[mode] => BucketWaits(e, h1, lq, w)
      <4>1. CASE q = p
        <5>1. h1 = n + v.retry
          BY <1>5, <2>5, <4>1
        <5>2. h1 - n = v.retry
          BY <3>1, <5>1
        <5>3. lq = l
          BY <1>2, <2>q, <4>1
        <5>4. e.amount + (h1 - e.at) * lq >= w
          BY <3>1, <5>2, <5>3
        <5> QED BY <5>4 DEF BucketWaits
      <4>2. CASE q # p
        <5>1. h1 = h
          BY <1>5, <2>5, <4>2
        <5>2. ASSUME h <= MaxTime[mode] PROVE e.amount + (h - e.at) * lq >= w
          <6>1. BucketWaits(m, h, lq, w)
            BY <1>7, <1>9, <2>3, <2>q, <5>2
          <6>2. PICK at \in Nat, amount \in Nat : at = m.at /\ amount = m.amount /\ at <= n
            BY <1>0
          <6>3. amount + (n - at) * lq + (h - n) * lq >= w
            <7>1. lq \in Nat /\ w \in Nat
              OBVIOUS
            <7> QED BY <3>1, <6>1, <6>2, <7>1, BucketWaitsOn
          <6>4. r = amount + (n - at) * l
            BY <3>1, <6>2
          <6>5. PICK d \in Nat : d = n - at
            <7>1. n - at \in Nat
              BY <6>2
            <7> QED BY <7>1
          <6>6. d * lq <= d * l
            BY <2>l, Larger
          <6>7. PICK x \in Int, y \in Int, z \in Int : x = d * lq /\ y = d * l /\ z = (h - n) * lq
            OBVIOUS
          <6>8. amount + x + z >= w /\ r = amount + y /\ x <= y
            BY <6>3, <6>4, <6>5, <6>6, <6>7
          <6>9. r + z >= w
            BY <6>2, <6>7, <6>8
          <6> QED BY <3>1, <6>7, <6>9
        <5> QED BY <5>1, <5>2 DEF BucketWaits
      <4> QED BY <4>1, <4>2
    <3> QED BY <1>m, <1>3, <1>9, <2>3, <2>q, <3>2
  <2> QED BY <2>4, <2>5
<1>10. CASE mode = "fixed"
  <2>1. v = Fixed(m, l, w)
    BY <1>1, <1>2, <1>4, <1>10, VerdictIs
  <2>2. PICK s \in Nat, b \in Nat, c \in Nat : FixedSays(m, n, l, w, s, b, c, v)
    BY <1>1, <2>1, FixedIs
  <2>4. CASE v.ok
    BY <1>m, <1>3, <1>5, <1>10, <2>4
  <2>5. CASE ~v.ok
    <3>1. m.known /\ m.at = b
      BY <2>2, <2>5, WindowDenies
    <3>0. e = m /\ v.retry = b + w - n
      BY <1>5, <2>2, <2>5 DEF FixedSays
    <3>2. h1 <= MaxTime[mode] => WindowWaits(m, h1, Window[q])
      <4>1. CASE q = p
        <5>1. h1 = m.at + w /\ w = Window[q]
          BY <1>2, <1>5, <2>5, <3>0, <3>1, <4>1
        <5> QED BY <1>0, <5>1 DEF WindowWaits
      <4>2. CASE q # p
        BY <1>5, <1>7, <1>10, <2>5, <4>2
      <4> QED BY <4>1, <4>2
    <3> QED BY <1>m, <1>3, <1>10, <3>0, <3>2
  <2> QED BY <2>4, <2>5
<1>11. mode \in {"sliding", "token", "fixed"}
  BY ModeIs
<1> QED BY <1>8, <1>9, <1>10, <1>11

LEMMA RetryKept ==
  ASSUME Shape, RetryInv, [LimiterNext]_limiterVars, mode # "redis"
  PROVE  RetryInv'
<1>1. ASSUME NEW p \in Paths, CheckMemory(p) PROVE RetryInv'
  <2>1. mode' = mode
    BY <1>1, AfterCheck
  <2>2. ASSUME NEW q \in Paths, MayPromise(q)
        PROVE  (mode = "sliding" => Len(mem'.log) <= Limit[q]) /\ Promise(q, mem', honest'[q])
    BY <1>1, <2>2, RetryChecked DEF Promise
  <2>3. \A q \in Paths : MayPromise(q)' <=> MayPromise(q)
    BY <2>1 DEF MayPromise, Largest, Smallest
  <2> QED BY <2>1, <2>2, <2>3 DEF RetryInv, Promise
<1>2. ASSUME NEW p \in Paths, ResetMemory(p) PROVE RetryInv'
  <2>1. mem'.log = <<>> /\ ~mem'.known /\ mode' = mode
    BY <1>2 DEF ResetMemory, Unknown
  <2>2. Len(mem'.log) = 0
    BY <2>1
  <2> QED BY <2>1, <2>2, LimitIsNat DEF RetryInv, Promise, LogWaits, BucketWaits, WindowWaits
<1>3. ASSUME Tick PROVE RetryInv'
  BY <1>3 DEF Tick, RetryInv, Promise, MayPromise, Largest, Smallest
<1>4. CASE UNCHANGED limiterVars
  BY <1>4 DEF limiterVars, RetryInv, Promise, MayPromise, Largest, Smallest
<1> QED BY <1>1, <1>2, <1>3, <1>4, MemorySteps

\* Whoever comes back at the instant it was told is let through.
LEMMA RetryIsEnough == Shape /\ RetryInv => RetryAfterIsEnough
<1> SUFFICES ASSUME Shape, RetryInv, mode # "redis", NEW p \in Paths, MayPromise(p), now >= honest[p],
                    ~Verdict(p).ok
             PROVE  FALSE
  BY DEF RetryAfterIsEnough
<1>m. PICK m : m = mem
  OBVIOUS
<1>n. PICK n \in Nat, h \in Nat : n = now /\ h = honest[p]
  BY MaxOfMode DEF Shape
<1>1. EntryUpTo(m, n) /\ n = now /\ m = mem /\ h <= n /\ h <= MaxTime[mode]
  BY <1>m, <1>n, MaxOfMode DEF Shape
<1>0. m.at \in Nat /\ m.at <= n /\ m.amount \in Nat /\ m.known \in BOOLEAN
  <2>1. m \in ClientEntry /\ m.at <= n
    BY <1>1 DEF EntryUpTo
  <2> QED BY <2>1 DEF ClientEntry
<1>2. PICK l \in Nat \ {0}, w \in Nat \ {0} : l = Limit[p] /\ w = Window[p]
  BY LimitIsNat
<1>3. PICK v : v = Verdict(p)
  OBVIOUS
<1>4. ~v.ok
  BY <1>3
<1>5. /\ mode = "sliding" => Len(m.log) <= l /\ LogWaits(m, h, w)
      /\ mode = "token" => BucketWaits(m, h, l, w)
      /\ mode = "fixed" => WindowWaits(m, h, w)
  BY <1>n, <1>1, <1>2 DEF RetryInv, Promise
<1>6. CASE mode = "sliding"
  <2>1. v = Sliding(m, l, w)
    BY <1>1, <1>2, <1>3, <1>6, VerdictIs
  <2>2. PICK k \in Nat, c \in Nat : c <= k /\ SlidingSays(m, n, l, w, k, c, v)
    BY <1>1, <2>1, SlidingIs
  <2>3. Len(m.log) >= 1 /\ m.log[1] \in Nat /\ m.log[1] + w > n
    BY <1>1, <1>4, <1>5, <1>6, <2>2, LogDenies
  <2> QED BY <1>1, <1>5, <1>6, <2>3 DEF LogWaits
<1>7. CASE mode = "token"
  <2>1. v = Token(m, l, w)
    BY <1>1, <1>2, <1>3, <1>7, VerdictIs
  <2>2. PICK r \in Nat : TokenSays(m, n, l, w, r, v)
    BY <1>1, <2>1, TokenIs
  <2>3. m.known /\ r < w /\ r = m.amount + (n - m.at) * l
    <3>1. /\ m.known /\ r < w /\ r = m.amount + (n - m.at) * l
          /\ v.entry.at = n /\ v.entry.amount = r
          /\ v.retry \in Nat /\ r + v.retry * l >= w
      BY <1>1, <1>4, <2>2, BucketDenies
    <3> QED BY <3>1
  <2>4. PICK at \in Nat, amount \in Nat : at = m.at /\ amount = m.amount
    BY <1>0
  <2>5. amount + (n - at) * l + (h - n) * l >= w
    <3>1. l \in Nat /\ w \in Nat
      OBVIOUS
    <3> QED BY <1>5, <1>7, <2>3, <2>4, <3>1, BucketWaitsOn
  <2>6. r + (h - n) * l >= w
    BY <2>3, <2>4, <2>5
  <2>7. (h - n) * l <= 0
    BY <1>1
  <2>8. PICK x \in Int : x = (h - n) * l
    OBVIOUS
  <2> QED BY <2>3, <2>6, <2>7, <2>8
<1>8. CASE mode = "fixed"
  <2>1. v = Fixed(m, l, w)
    BY <1>1, <1>2, <1>3, <1>8, VerdictIs
  <2>2. PICK s \in Nat, b \in Nat, c \in Nat : FixedSays(m, n, l, w, s, b, c, v)
    BY <1>1, <2>1, FixedIs
  <2>3. m.known /\ m.at = b /\ b + w > n
    <3>1. m.known /\ m.at = b
      BY <1>4, <2>2, WindowDenies
    <3>2. b + w > n
      BY <2>2 DEF FixedSays
    <3> QED BY <3>1, <3>2
  <2>4. m.at + w <= h
    BY <1>5, <1>8, <2>3 DEF WindowWaits
  <2>5. PICK at \in Nat : at = m.at
    BY <1>0
  <2>6. at + w <= h /\ at + w > n
    BY <2>3, <2>4, <2>5
  <2> QED BY <1>1, <2>6
<1>9. mode \in {"sliding", "token", "fixed"}
  BY ModeIs
<1> QED BY <1>6, <1>7, <1>8, <1>9

\* A denied client that comes back after the retry_after of its
\* RateLimitResult is let through, whatever it was denied meanwhile on other
\* paths, and whatever the limits of those (algorithms.py: the retry_after of
\* the three algorithms): in a sliding log for a path of the largest limit, in
\* a bucket for one of the smallest, in a fixed window for every path.
THEOREM RetryAfterSuffices == LimiterSpec => []RetryAfterIsEnough
<1> DEFINE Inv == Shape /\ (mode # "redis" => RetryInv)
<1>1. LimiterInit => Inv
  BY ShapeInit, RetryInit
<1>2. Inv /\ [LimiterNext]_limiterVars => Inv'
  BY ShapeNext, RetryKept, ModeStays
<1>3. Inv => RetryAfterIsEnough
  BY RetryIsEnough DEF RetryAfterIsEnough
<1> HIDE DEF Inv
<1> QED BY <1>1, <1>2, <1>3, PTL DEF LimiterSpec
-----------------------------------------------------------------------------
(* The circuit breaker.                                                     *)

BreakerInv == BreakerTypeOK /\ StateMatchesCount

USE ThresholdAssumption, RecoveryAssumption, MaxFailuresAssumption
    DEF States, LongAgo

LEMMA BreakerInitially == BreakerInit => BreakerInv
  BY DEF BreakerInit, BreakerInv, BreakerTypeOK, StateMatchesCount

\* Admissions leave the count alone and never close or open the circuit.
LEMMA AttemptKeepsBreaker ==
  ASSUME BreakerInv, NEW p \in Requesters, Attempt(p)
  PROVE  BreakerInv'
<1>1. CASE AdmitClosed(p)
  BY <1>1 DEF AdmitClosed, Begin, BreakerInv, BreakerTypeOK, StateMatchesCount
<1>2. CASE AdmitFirstProbe(p)
  BY <1>2 DEF AdmitFirstProbe, Begin, BreakerInv, BreakerTypeOK, StateMatchesCount
<1>3. CASE AdmitProbe(p)
  BY <1>3 DEF AdmitProbe, Begin, BreakerInv, BreakerTypeOK, StateMatchesCount
<1> QED BY <1>1, <1>2, <1>3 DEF Attempt

\* A success closes the circuit with count 0; a failure that reaches the
\* threshold opens it; an abandoned call records nothing.
LEMMA EndKeepsBreaker ==
  ASSUME BreakerInv, NEW p \in Requesters, Answer(p) \/ Abandon(p)
  PROVE  BreakerInv'
<1>1. CASE RecordSuccess(p)
  BY <1>1 DEF RecordSuccess, End, CountReset, BreakerInv, BreakerTypeOK, StateMatchesCount
<1>2. CASE RecordFailure(p)
  <2> DEFINE n == failureCount + 1
  <2>1. /\ n \in 1..MaxFailures
        /\ failureCount' = n
        /\ state' = IF n >= Threshold THEN "OPEN" ELSE state
        /\ elapsed' = 0
        /\ calling' = calling \ {p}
        /\ serviceUp' = serviceUp
    BY <1>2 DEF RecordFailure, End, Trips, BreakerInv, BreakerTypeOK
  <2>2. failureCount \in Nat /\ state \in States /\ (state = "CLOSED" <=> failureCount < Threshold)
    BY DEF BreakerInv, BreakerTypeOK, StateMatchesCount
  <2>3. state' \in States /\ (state' = "CLOSED" <=> failureCount' < Threshold)
    <3>1. CASE n >= Threshold
      BY <2>1, <3>1
    <3>2. CASE n < Threshold
      <4>1. ~(n >= Threshold) /\ failureCount < Threshold
        BY <2>1, <2>2, <3>2
      <4> QED BY <2>1, <2>2, <3>2, <4>1
    <3>3. n >= Threshold \/ n < Threshold
      BY <2>1
    <3> HIDE DEF n
    <3> QED BY <3>1, <3>2, <3>3
  <2>4. calling' \subseteq Requesters /\ serviceUp' \in BOOLEAN
    BY <2>1 DEF BreakerInv, BreakerTypeOK
  <2>5. elapsed' \in 0..LongAgo
    BY <2>1
  <2> QED BY <2>1, <2>3, <2>4, <2>5 DEF BreakerInv, BreakerTypeOK, StateMatchesCount
<1>3. CASE Abandon(p)
  BY <1>3 DEF Abandon, End, BreakerInv, BreakerTypeOK, StateMatchesCount
<1> QED BY <1>1, <1>2, <1>3 DEF Answer

LEMMA BreakerInvKept == BreakerInv /\ [BreakerNext]_breakerVars => BreakerInv'
<1> SUFFICES ASSUME BreakerInv, [BreakerNext]_breakerVars PROVE BreakerInv'
  OBVIOUS
<1>1. CASE UNCHANGED breakerVars
  BY <1>1 DEF breakerVars, BreakerInv, BreakerTypeOK, StateMatchesCount
<1>2. CASE TimePasses
  BY <1>2 DEF TimePasses, BreakerInv, BreakerTypeOK, StateMatchesCount
<1>3. CASE ServiceChanges
  BY <1>3 DEF ServiceChanges, BreakerInv, BreakerTypeOK, StateMatchesCount
<1> QED BY <1>1, <1>2, <1>3, AttemptKeepsBreaker, EndKeepsBreaker DEF BreakerNext

\* In every interleaving of admissions, answers and abandoned calls the circuit
\* is closed exactly while fewer than failure_threshold failures followed the
\* last success.
THEOREM ClosedBelowThreshold == BreakerSpec => []StateMatchesCount
<1>1. BreakerInv => StateMatchesCount
  BY DEF BreakerInv
<1> QED BY <1>1, BreakerInitially, BreakerInvKept, PTL DEF BreakerSpec
=============================================================================

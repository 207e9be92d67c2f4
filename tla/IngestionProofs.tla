-------------------------- MODULE IngestionProofs --------------------------
(* Proofs about Ingestion, for every set of clients, documents and texts,   *)
(* every size of batches and every number of attempts.                      *)
EXTENDS Ingestion, FiniteSetTheorems, SequenceTheorems, TLAPS

-----------------------------------------------------------------------------
(* Numbers in order.                                                        *)

\* Induction over the natural numbers; Holding is a set of numbers.
LEMMA Numbers ==
  ASSUME NEW Holding, 0 \in Holding, \A n \in Nat : n \in Holding => n + 1 \in Holding
  PROVE  Nat \subseteq Holding
<1> DEFINE Bad == {n \in Nat : n \notin Holding}
<1>1. SUFFICES ASSUME Bad # {} PROVE FALSE
  OBVIOUS
<1>2. PICK n \in Bad : \A m \in Bad : <<m, n>> \notin OpToRel(<, Nat)
  <2>1. Bad \subseteq Nat
    OBVIOUS
  <2> HIDE DEF Bad
  <2> QED BY <1>1, <2>1, NatLessThanWellFounded, WFMin
<1>3. n \in Nat \ {0}
  OBVIOUS
<1>4. n - 1 \in Nat /\ (n - 1) + 1 = n /\ <<n - 1, n>> \in OpToRel(<, Nat)
  BY <1>3 DEF OpToRel
<1> QED BY <1>2, <1>4

\* Ascending() lists every number of a set, once.
LEMMA AscendingLists ==
  ASSUME NEW n \in Nat, NEW S \in SUBSET (1..n)
  PROVE  /\ Cardinality(S) \in Nat
         /\ Ascending(S) \in [1..Cardinality(S) -> S]
         /\ \A i \in S : \E j \in 1..Cardinality(S) : Ascending(S)[j] = i
         /\ \A j, k \in 1..Cardinality(S) : Ascending(S)[j] = Ascending(S)[k] => j = k
<1> DEFINE below(i) == {x \in S : x < i}
           rank == [i \in S |-> Cardinality(below(i)) + 1]
<1>0. \A x \in S : x \in Int
  OBVIOUS
<1>1. /\ IsFiniteSet(S) /\ Cardinality(S) \in Nat
      /\ IsFiniteSet(1..Cardinality(S)) /\ Cardinality(1..Cardinality(S)) = Cardinality(S)
  <2>0. IsFiniteSet(1..n)
    BY FS_Interval
  <2>1. IsFiniteSet(S)
    BY <2>0, FS_Subset
  <2>2. Cardinality(S) \in Nat
    BY <2>1, FS_CardinalityType
  <2>3. PICK k \in Nat : k = Cardinality(S)
    BY <2>2
  <2>4. IsFiniteSet(1..k) /\ Cardinality(1..k) = k
    BY FS_Interval
  <2> QED BY <2>1, <2>3, <2>4
<1>2. ASSUME NEW i \in S
      PROVE  /\ IsFiniteSet(below(i)) /\ Cardinality(below(i)) \in Nat
             /\ Cardinality(below(i)) + 1 <= Cardinality(S)
  <2>1. IsFiniteSet(below(i)) /\ i \notin below(i) /\ below(i) \cup {i} \in SUBSET S
    BY <1>1, FS_Subset
  <2> HIDE DEF below
  <2>2. Cardinality(below(i) \cup {i}) = Cardinality(below(i)) + 1
    BY <2>1, FS_AddElement
  <2>3. Cardinality(below(i) \cup {i}) <= Cardinality(S)
    BY <1>1, <2>1, FS_Subset
  <2> QED BY <2>1, <2>2, <2>3, FS_CardinalityType
<1>3. ASSUME NEW i \in S, NEW k \in S, i < k
      PROVE  Cardinality(below(i)) < Cardinality(below(k))
  <2>1. i \notin below(i) /\ below(i) \cup {i} \in SUBSET below(k)
    <3>1. i \in Int /\ k \in Int
      BY <1>0
    <3>2. \A x \in below(i) : x < k
      BY <1>0, <1>3, <3>1
    <3>3. \A x \in below(i) : x \in S
      OBVIOUS
    <3>4. \A x \in S : x < k => x \in below(k)
      OBVIOUS
    <3>5. i \notin below(i)
      BY <3>1
    <3> HIDE DEF below
    <3> QED BY <1>3, <3>2, <3>3, <3>4, <3>5
  <2>2. IsFiniteSet(below(i)) /\ IsFiniteSet(below(k))
    BY <1>2
  <2>3. Cardinality(below(i)) \in Nat /\ Cardinality(below(k)) \in Nat
    BY <1>2
  <2> HIDE DEF below
  <2>4. Cardinality(below(i) \cup {i}) = Cardinality(below(i)) + 1
    BY <2>1, <2>2, FS_AddElement
  <2>5. Cardinality(below(i) \cup {i}) <= Cardinality(below(k))
    BY <2>1, <2>2, FS_Subset
  <2> QED BY <2>3, <2>4, <2>5
<1>4. rank \in [S -> 1..Cardinality(S)]
  <2>1. ASSUME NEW i \in S PROVE Cardinality(below(i)) + 1 \in 1..Cardinality(S)
    <3> HIDE DEF below
    <3> QED BY <1>1, <1>2
  <2> QED BY <2>1
<1>5. rank \in Injection(S, 1..Cardinality(S))
  <2>1. ASSUME NEW i \in S, NEW k \in S, rank[i] = rank[k] PROVE i = k
    <3>1. Cardinality(below(i)) = Cardinality(below(k))
      <4>1. Cardinality(below(i)) + 1 = Cardinality(below(k)) + 1
        BY <2>1
      <4> HIDE DEF below, rank
      <4>2. Cardinality(below(i)) \in Nat /\ Cardinality(below(k)) \in Nat
        BY <1>2
      <4> QED BY <4>1, <4>2
    <3>2. ~(i < k) /\ ~(k < i)
      <4> HIDE DEF below
      <4> QED BY <1>2, <1>3, <3>1
    <3> QED BY <3>2
  <2> HIDE DEF rank
  <2> QED BY <1>4, <2>1 DEF Injection, IsInjective
<1>6. rank \in Surjection(S, 1..Cardinality(S))
  <2> HIDE DEF rank
  <2> QED BY <1>1, <1>5, FS_Injection
<1>7. \A j \in 1..Cardinality(S) : \E i \in S : rank[i] = j
  <2> HIDE DEF rank
  <2> QED BY <1>6 DEF Surjection
<1>8. \A j \in 1..Cardinality(S) : \E i \in S : Cardinality(below(i)) = j - 1
  <2>1. ASSUME NEW j \in 1..Cardinality(S) PROVE \E i \in S : Cardinality(below(i)) = j - 1
    <3>1. PICK i \in S : Cardinality(below(i)) + 1 = j
      BY <1>7
    <3> HIDE DEF below
    <3> QED BY <1>2, <3>1
  <2> QED BY <2>1
<1>9. Ascending(S) = [j \in 1..Cardinality(S) |-> CHOOSE i \in S : Cardinality(below(i)) = j - 1]
  BY DEF Ascending
<1> HIDE DEF below
<1>10. \A j \in 1..Cardinality(S) :
         Ascending(S)[j] \in S /\ Cardinality(below(Ascending(S)[j])) = j - 1
  BY <1>8, <1>9
<1>11. ASSUME NEW i \in S
       PROVE  \E j \in 1..Cardinality(S) : Ascending(S)[j] = i
  <2>1. PICK j \in 1..Cardinality(S) : j = Cardinality(below(i)) + 1
    BY <1>1, <1>2
  <2>2. Cardinality(below(Ascending(S)[j])) = Cardinality(below(i)) /\ Ascending(S)[j] \in S
    BY <1>2, <1>10, <2>1
  <2>3. Ascending(S)[j] = i
    <3>1. PICK k \in S : k = Ascending(S)[j]
      BY <2>2
    <3>2. ~(i < k) /\ ~(k < i)
      BY <1>2, <1>3, <2>2, <3>1
    <3> QED BY <3>1, <3>2
  <2> QED BY <2>3
<1>12. ASSUME NEW j \in 1..Cardinality(S), NEW k \in 1..Cardinality(S),
              Ascending(S)[j] = Ascending(S)[k]
       PROVE  j = k
  <2>1. j - 1 = k - 1
    BY <1>10, <1>12
  <2> QED BY <2>1, <1>1
<1>13. Ascending(S) \in [1..Cardinality(S) -> S]
  BY <1>9, <1>10
<1> QED BY <1>1, <1>11, <1>12, <1>13

LEMMA AscendingAll ==
  ASSUME NEW n \in Nat
  PROVE  Ascending(1..n) = [j \in 1..n |-> j]
<1>1. Cardinality(1..n) = n
  BY FS_Interval
<1>2. ASSUME NEW j \in 1..n
      PROVE  (CHOOSE i \in 1..n : Cardinality({x \in 1..n : x < i}) = j - 1) = j
  <2>1. ASSUME NEW i \in 1..n PROVE Cardinality({x \in 1..n : x < i}) = i - 1
    <3>1. {x \in 1..n : x < i} = 1..(i - 1)
      OBVIOUS
    <3>2. Cardinality(1..(i - 1)) = i - 1
      BY FS_Interval
    <3> QED BY <3>1, <3>2
  <2>2. \A i \in 1..n : Cardinality({x \in 1..n : x < i}) = j - 1 <=> i = j
    BY <2>1
  <2> DEFINE Is(i) == Cardinality({x \in 1..n : x < i}) = j - 1
  <2>3. \A i \in 1..n : Is(i) <=> i = j
    BY <2>2
  <2>4. (CHOOSE i \in 1..n : Is(i)) = j
    <3> HIDE DEF Is
    <3> QED BY <2>3
  <2> QED BY <2>4
<1>3. Ascending(1..n) =
        [j \in 1..n |-> CHOOSE i \in 1..n : Cardinality({x \in 1..n : x < i}) = j - 1]
  BY <1>1 DEF Ascending
<1> QED BY <1>2, <1>3

-----------------------------------------------------------------------------
(* Sequences put one after the other.                                       *)

Flat(g, s, n) == g = [i \in 1..n |-> IF i = 1 THEN s[i] ELSE g[i - 1] \o s[i]]

LEMMA FlatExists ==
  ASSUME NEW s
  PROVE  \A n \in Nat : \E g : Flat(g, s, n)
<1> DEFINE Good == {n \in Nat : \E g : Flat(g, s, n)}
<1>1. 0 \in Good
  <2> DEFINE g == [i \in 1..0 |-> s[i]]
  <2>1. Flat(g, s, 0)
    BY DEF Flat
  <2> QED BY <2>1
<1>2. ASSUME NEW n \in Nat, n \in Good PROVE n + 1 \in Good
  <2>1. PICK g : Flat(g, s, n)
    BY <1>2
  <2>g. g = [i \in 1..n |-> IF i = 1 THEN s[i] ELSE g[i - 1] \o s[i]]
    BY <2>1 DEF Flat
  <2> DEFINE last == IF n = 0 THEN s[1] ELSE g[n] \o s[n + 1]
             h == [i \in 1..(n + 1) |-> IF i = n + 1 THEN last ELSE g[i]]
  <2>2. \A i \in 1..n : h[i] = g[i] /\ i \in 1..(n + 1) /\ i # n + 1
    OBVIOUS
  <2>3. h[n + 1] = last
    OBVIOUS
  <2>4. ASSUME NEW i \in 1..(n + 1)
        PROVE  h[i] = IF i = 1 THEN s[i] ELSE h[i - 1] \o s[i]
    <3>1. CASE i = n + 1
      <4>1. CASE n = 0
        BY <2>3, <3>1, <4>1
      <4>2. CASE n # 0
        <5>1. i - 1 = n /\ n \in 1..n /\ i # 1
          BY <3>1, <4>2
        <5>2. h[n] = g[n]
          BY <2>2, <5>1
        <5>3. last = g[n] \o s[n + 1]
          BY <4>2
        <5> HIDE DEF h, last
        <5> QED BY <2>3, <3>1, <5>1, <5>2, <5>3
      <4> QED BY <4>1, <4>2
    <3>2. CASE i # n + 1
      <4>1. i \in 1..n
        BY <3>2
      <4>2. h[i] = g[i]
        BY <2>2, <4>1
      <4>3. g[i] = IF i = 1 THEN s[i] ELSE g[i - 1] \o s[i]
        BY <2>g, <4>1
      <4>4. i # 1 => h[i - 1] = g[i - 1]
        <5>1. i # 1 => i - 1 \in 1..n
          BY <4>1
        <5> QED BY <2>2, <5>1
      <4> HIDE DEF h
      <4> QED BY <4>2, <4>3, <4>4
    <3> QED BY <3>1, <3>2
  <2>5. h = [i \in 1..(n + 1) |-> h[i]]
    OBVIOUS
  <2> HIDE DEF h
  <2>6. Flat(h, s, n + 1)
    BY <2>4, <2>5 DEF Flat
  <2> QED BY <2>6
<1>3. Nat \subseteq Good
  <2> HIDE DEF Good
  <2> QED BY <1>1, <1>2, Numbers
<1> QED BY <1>3

LEMMA FlattenIs ==
  ASSUME NEW s, NEW n \in Nat \ {0}, Len(s) = n
  PROVE  \E g : Flat(g, s, n) /\ FlattenSeq(s) = g[n]
<1> DEFINE g == CHOOSE f : f = [i \in 1..n |-> IF i = 1 THEN s[i] ELSE f[i - 1] \o s[i]]
<1>1. FlattenSeq(s) = g[n]
  BY DEF FlattenSeq
<1>2. \E f : f = [i \in 1..n |-> IF i = 1 THEN s[i] ELSE f[i - 1] \o s[i]]
  BY FlatExists DEF Flat
<1>3. g = [i \in 1..n |-> IF i = 1 THEN s[i] ELSE g[i - 1] \o s[i]]
  BY <1>2
<1> HIDE DEF g
<1>4. Flat(g, s, n)
  BY <1>3 DEF Flat
<1> QED BY <1>1, <1>4

\* f says what each beginning of s makes, put one after the other.
Beginnings(f, s, n) ==
  f[1] = s[1] /\ \A i \in 1..n : i < n => f[i + 1] = f[i] \o s[i + 1]

LEMMA Flattened ==
  ASSUME NEW s, NEW n \in Nat \ {0}, Len(s) = n, NEW f, Beginnings(f, s, n)
  PROVE  FlattenSeq(s) = f[n]
<1>0. f[1] = s[1] /\ \A i \in 1..n : i < n => f[i + 1] = f[i] \o s[i + 1]
  BY DEF Beginnings
<1>1. PICK g : Flat(g, s, n) /\ FlattenSeq(s) = g[n]
  BY FlattenIs
<1>2. g = [i \in 1..n |-> IF i = 1 THEN s[i] ELSE g[i - 1] \o s[i]]
  BY <1>1 DEF Flat
<1> DEFINE Good == {i \in Nat : i + 1 \in 1..n => g[i + 1] = f[i + 1]}
<1>3. 0 \in Good
  BY <1>0, <1>2
<1>4. ASSUME NEW i \in Nat, i \in Good PROVE i + 1 \in Good
  <2>1. SUFFICES ASSUME i + 2 \in 1..n PROVE g[i + 2] = f[i + 2]
    <3>1. (i + 1) + 1 = i + 2
      OBVIOUS
    <3> QED BY <3>1
  <2>2. i + 1 \in 1..n /\ i + 1 < n /\ (i + 1) + 1 = i + 2 /\ (i + 2) - 1 = i + 1 /\ i + 2 # 1
    BY <2>1
  <2>3. g[i + 1] = f[i + 1]
    BY <1>4, <2>2
  <2>4. g[i + 2] = g[(i + 2) - 1] \o s[i + 2]
    BY <1>2, <2>1, <2>2
  <2>5. f[(i + 1) + 1] = f[i + 1] \o s[(i + 1) + 1]
    BY <1>0, <2>2
  <2> HIDE DEF Good
  <2> QED BY <2>2, <2>3, <2>4, <2>5
<1>5. n - 1 \in Good
  <2>1. n - 1 \in Nat
    OBVIOUS
  <2> HIDE DEF Good
  <2> QED BY <1>3, <1>4, <2>1, Numbers
<1>6. (n - 1) + 1 = n /\ n \in 1..n
  OBVIOUS
<1>7. g[n] = f[n]
  BY <1>5, <1>6
<1> QED BY <1>1, <1>7

-----------------------------------------------------------------------------
(* The chunks of a text.                                                    *)

LEMMA Products ==
  ASSUME NEW a \in Nat, NEW b \in Nat, NEW c \in Nat, a <= b
  PROVE  a * c <= b * c /\ a * c \in Nat /\ (b + 1) * c = b * c + c
OBVIOUS

\* A set that has with a number all smaller ones is an interval.
LEMMA Interval ==
  ASSUME NEW n \in Nat, NEW S \in SUBSET (1..n),
         \A i \in S : \A j \in 1..n : j < i => j \in S
  PROVE  Cardinality(S) \in 0..n /\ S = 1..Cardinality(S)
<1>1. SUFFICES \E k \in 0..n : S = 1..k
  <2>1. PICK k \in 0..n : S = 1..k
    BY <1>1
  <2>2. Cardinality(1..k) = k
    BY FS_Interval
  <2> QED BY <2>1, <2>2
<1> DEFINE Out == (1..n) \ S
<1>2. CASE Out = {}
  <2>1. \A x \in 1..n : x \in S
    BY <1>2
  <2>2. S = 1..n
    <3> HIDE DEF Out
    <3> QED BY <2>1
  <2>3. n \in 0..n
    OBVIOUS
  <2> QED BY <2>2, <2>3
<1>3. CASE Out # {}
  <2>1. PICK k \in Out : \A m \in Out : <<m, k>> \notin OpToRel(<, Nat)
    <3>1. Out \subseteq Nat
      OBVIOUS
    <3> HIDE DEF Out
    <3> QED BY <1>3, <3>1, NatLessThanWellFounded, WFMin
  <2>2. k \in 1..n /\ k \notin S
    OBVIOUS
  <2>3. ASSUME NEW m \in 1..n, m < k PROVE m \in S
    <3>1. <<m, k>> \in OpToRel(<, Nat)
      BY <2>2, <2>3 DEF OpToRel
    <3> QED BY <2>1, <2>3, <3>1
  <2>4. ASSUME NEW m \in S PROVE m < k
    BY <2>2, <2>4
  <2>5. S = 1..(k - 1)
    <3>1. ASSUME NEW m \in S PROVE m \in 1..(k - 1)
      <4>1. m \in 1..n
        OBVIOUS
      <4> HIDE DEF Out
      <4> QED BY <2>2, <2>4, <4>1
    <3>2. ASSUME NEW m \in 1..(k - 1) PROVE m \in S
      <4>1. m \in 1..n /\ m < k
        BY <2>2
      <4> QED BY <2>3, <4>1
    <3> HIDE DEF Out
    <3> QED BY <3>1, <3>2
  <2>6. k - 1 \in 0..n
    BY <2>2
  <2> QED BY <2>5, <2>6
<1> QED BY <1>2, <1>3

\* How many chunks a text has, and where they end.
LEMMA ChunksAreMany ==
  ASSUME NEW length \in Nat, NEW size \in Nat, NEW overlap \in Nat, overlap < size
  PROVE  \E n \in 0..length :
           /\ n = Cardinality({j \in 1..length : ChunkStart(size, overlap, j) < length})
           /\ n = 0 <=> length = 0
           /\ \A i \in 1..n : ChunkStart(size, overlap, i) \in Nat /\ ChunkStart(size, overlap, i) < length
           /\ \A i \in 1..n : ChunkStart(size, overlap, i + 1) = ChunkStart(size, overlap, i) + (size - overlap)
           /\ ChunkStart(size, overlap, 1) = 0
           /\ n > 0 => ChunkStart(size, overlap, n) + size >= length
<1>s. PICK step \in Nat \ {0} : step = size - overlap
  OBVIOUS
<1> DEFINE start(i) == (i - 1) * step
           inside == {j \in 1..length : start(j) < length}
<1>1. \A i : ChunkStart(size, overlap, i) = start(i)
  BY <1>s DEF ChunkStart
<1>2. ASSUME NEW i \in Nat \ {0}
      PROVE  start(i) \in Nat /\ start(i + 1) = start(i) + step
  <2>1. PICK k \in Nat : i = k + 1
    <3>1. i - 1 \in Nat /\ i = (i - 1) + 1
      OBVIOUS
    <3> QED BY <3>1
  <2>2. k * step \in Nat /\ (k + 1) * step = k * step + step
    BY Products
  <2>3. i - 1 = k /\ (i + 1) - 1 = k + 1
    BY <2>1
  <2> QED BY <2>2, <2>3
<1>3. ASSUME NEW i \in Nat \ {0}, NEW j \in Nat \ {0}, j <= i
      PROVE  start(j) <= start(i)
  <2>1. j - 1 \in Nat /\ i - 1 \in Nat /\ j - 1 <= i - 1
    BY <1>3
  <2> QED BY <2>1, Products
<1>4. start(1) = 0
  OBVIOUS
<1>5. inside \in SUBSET (1..length)
  OBVIOUS
<1>6. \A i \in inside : \A j \in 1..length : j < i => j \in inside
  <2>1. ASSUME NEW i \in inside, NEW j \in 1..length, j < i PROVE j \in inside
    <3>1. i \in 1..length /\ start(i) < length
      OBVIOUS
    <3>2. i \in Nat \ {0} /\ j \in Nat \ {0} /\ j <= i
      BY <2>1, <3>1
    <3>3. start(j) <= start(i) /\ start(j) \in Nat /\ start(i) \in Nat
      <4> HIDE DEF start
      <4> QED BY <1>2, <1>3, <3>2
    <3>4. start(j) < length
      <4> HIDE DEF start
      <4> QED BY <3>1, <3>3
    <3> QED BY <3>4
  <2> QED BY <2>1
<1>7. PICK n \in 0..length : n = Cardinality(inside) /\ inside = 1..n
  <2> HIDE DEF inside
  <2> QED BY <1>5, <1>6, Interval
<1>8. n = 0 <=> length = 0
  <2>1. ASSUME length # 0 PROVE 1 \in inside
    BY <1>4, <2>1
  <2>2. 1 \in inside => n # 0
    BY <1>7
  <2> HIDE DEF inside
  <2> QED BY <2>1, <2>2
<1>9. ASSUME NEW i \in 1..n PROVE start(i) \in Nat /\ start(i) < length
  <2>1. i \in inside
    BY <1>7
  <2> QED BY <1>2, <2>1
<1>10. ASSUME n > 0 PROVE start(n) + size >= length
  <2>1. n \in Nat \ {0} /\ start(n) \in Nat /\ start(n + 1) = start(n) + step
    BY <1>2, <1>10
  <2>2. start(n + 1) >= length
    <3>1. CASE n = length
      <4>1. n * step >= n
        <5>1. n * 1 <= n * step
          BY <1>s
        <5> QED BY <5>1
      <4>2. (n + 1) - 1 = n
        OBVIOUS
      <4> QED BY <3>1, <4>1, <4>2
    <3>2. CASE n # length
      <4>0. n + 1 \in 1..length /\ n + 1 \notin 1..n
        BY <3>2
      <4>1. n + 1 \in 1..length /\ n + 1 \notin inside
        <5> HIDE DEF inside
        <5> QED BY <1>7, <4>0
      <4>2. ~(start(n + 1) < length)
        BY <4>1
      <4>3. start(n + 1) \in Int
        <5> HIDE DEF start
        <5> QED BY <2>1
      <4> HIDE DEF start
      <4> QED BY <4>2, <4>3
    <3> QED BY <3>1, <3>2
  <2> HIDE DEF start
  <2> QED BY <1>s, <2>1, <2>2
<1>11. \A i \in 1..n : start(i + 1) = start(i) + step
  <2>1. \A i \in 1..n : i \in Nat \ {0}
    OBVIOUS
  <2> HIDE DEF start
  <2> QED BY <1>2, <2>1
<1>12. n = Cardinality({j \in 1..length : ChunkStart(size, overlap, j) < length})
  BY <1>1, <1>7
<1> HIDE DEF start, inside
<1>13. /\ \A i \in 1..n : ChunkStart(size, overlap, i) \in Nat /\ ChunkStart(size, overlap, i) < length
       /\ \A i \in 1..n : ChunkStart(size, overlap, i + 1) = ChunkStart(size, overlap, i) + (size - overlap)
       /\ ChunkStart(size, overlap, 1) = 0
  BY <1>s, <1>1, <1>4, <1>9, <1>11
<1>14. n > 0 => ChunkStart(size, overlap, n) + size >= length
  BY <1>1, <1>10
<1> QED BY <1>8, <1>12, <1>13, <1>14

LEMMA ChunksOfText ==
  ASSUME NEW S, NEW text \in Seq(S), NEW size \in Nat, NEW overlap \in Nat, overlap < size
  PROVE  /\ ChunkText(text, size, overlap) \in Seq(Seq(S))
         /\ text # <<>> => ChunkText(text, size, overlap) # <<>>
         /\ Reassembled(ChunkText(text, size, overlap), overlap) = text
<1>l. PICK length \in Nat : length = Len(text) /\ DOMAIN text = 1..length
  BY LenProperties
<1>1. PICK n \in 0..length :
           /\ n = Cardinality({j \in 1..length : ChunkStart(size, overlap, j) < length})
           /\ n = 0 <=> length = 0
           /\ \A i \in 1..n : ChunkStart(size, overlap, i) \in Nat /\ ChunkStart(size, overlap, i) < length
           /\ \A i \in 1..n : ChunkStart(size, overlap, i + 1) = ChunkStart(size, overlap, i) + (size - overlap)
           /\ ChunkStart(size, overlap, 1) = 0
           /\ n > 0 => ChunkStart(size, overlap, n) + size >= length
  BY ChunksAreMany
<1> DEFINE start(i) == ChunkStart(size, overlap, i)
           end(i) == IF start(i) + size < length THEN start(i) + size ELSE length
           chunks == ChunkText(text, size, overlap)
<1>2. ASSUME NEW i \in 1..n PROVE start(i) \in Nat /\ start(i) < length /\ end(i) \in Nat
                                  /\ start(i) < end(i) /\ end(i) <= length
  <2>1. start(i) \in Nat /\ start(i) < length
    BY <1>1
  <2> HIDE DEF start
  <2> QED BY <2>1
<1>3. chunks = [i \in 1..n |-> SubSeq(text, start(i) + 1, end(i))]
  <2>1. n = Cardinality({j \in 1..Len(text) : ChunkStart(size, overlap, j) < Len(text)})
    BY <1>l, <1>1
  <2>2. ChunkText(text, size, overlap) = [i \in 1..n |-> ChunkAt(text, size, overlap, i)]
    BY <2>1 DEF ChunkText
  <2>3. \A i : ChunkAt(text, size, overlap, i) = SubSeq(text, start(i) + 1, end(i))
    BY <1>l DEF ChunkAt
  <2> QED BY <2>2, <2>3
<1>4. \A i \in 1..length : text[i] \in S
  BY <1>l, ElementOfSeq
<1>5. ASSUME NEW i \in 1..n
      PROVE  /\ chunks[i] = SubSeq(text, start(i) + 1, end(i))
             /\ chunks[i] \in Seq(S) /\ Len(chunks[i]) = end(i) - start(i)
  <2>1. chunks[i] = SubSeq(text, start(i) + 1, end(i))
    BY <1>3
  <2>2. PICK a \in Nat, e \in Nat : a = start(i) /\ e = end(i) /\ a < e /\ e <= length
    BY <1>2
  <2>3. SubSeq(text, a + 1, e) \in Seq(S) /\ Len(SubSeq(text, a + 1, e)) = e - a
    <3>1. \A j \in a + 1 .. e : text[j] \in S
      BY <1>4, <2>2
    <3>2. /\ SubSeq(text, a + 1, e) \in Seq(S)
          /\ Len(SubSeq(text, a + 1, e)) = IF a + 1 <= e THEN e - (a + 1) + 1 ELSE 0
      BY <3>1, SubSeqProperties
    <3> QED BY <2>2, <3>2, SMTT(30)
  <2> QED BY <2>1, <2>2, <2>3
<1>6. chunks \in Seq(Seq(S)) /\ Len(chunks) = n /\ DOMAIN chunks = 1..n
  <2>1. chunks \in [1..n -> Seq(S)]
    BY <1>3, <1>5
  <2> HIDE DEF chunks
  <2> QED BY <2>1
<1>7. text # <<>> => chunks # <<>>
  <2>1. text # <<>> => n # 0
    BY <1>l, <1>1, EmptySeq
  <2>2. \A s : Len(s) = n /\ n # 0 => s # <<>>
    BY EmptySeq
  <2> HIDE DEF chunks
  <2> QED BY <1>6, <2>1, <2>2
<1> DEFINE rest == [i \in DOMAIN chunks |->
                     IF i = 1 THEN chunks[1] ELSE SubSeq(chunks[i], overlap + 1, Len(chunks[i]))]
           f == [i \in 1..n |-> SubSeq(text, 1, end(i))]
<1>8. Reassembled(chunks, overlap) = FlattenSeq(rest)
  BY DEF Reassembled
<1>9. ASSUME n = 0 PROVE Reassembled(chunks, overlap) = text
  <2>1. chunks = <<>> /\ text = <<>>
    <3> HIDE DEF chunks
    <3> QED BY <1>l, <1>1, <1>6, <1>9, EmptySeq
  <2>2. rest = <<>> 
    <3>1. rest = [i \in {} |-> i]
      BY <1>6, <1>9
    <3>2. \A s : DOMAIN s = {} /\ s = [i \in DOMAIN s |-> s[i]] => s = <<>>
      OBVIOUS
    <3> HIDE DEF rest
    <3> QED BY <3>1, <3>2
  <2>3. FlattenSeq(<<>>) = <<>>
    BY DEF FlattenSeq
  <2> HIDE DEF rest, chunks
  <2> QED BY <1>8, <2>1, <2>2, <2>3
<1>10. ASSUME n # 0 PROVE Reassembled(chunks, overlap) = text
  <2>1. n \in Nat \ {0} /\ 1 \in 1..n /\ n \in 1..n
    BY <1>10
  <2>2. Len(rest) = n
    <3>1. rest = [i \in 1..n |-> rest[i]]
      BY <1>6
    <3> HIDE DEF rest
    <3> QED BY <2>1, <3>1
  <2>3. f[1] = rest[1]
    <3>1. rest[1] = chunks[1] /\ f[1] = SubSeq(text, 1, end(1))
      BY <1>6, <2>1
    <3>2. chunks[1] = SubSeq(text, start(1) + 1, end(1)) /\ start(1) = 0
      BY <1>1, <1>5, <2>1
    <3>3. start(1) + 1 = 1
      <4> HIDE DEF start
      <4> QED BY <3>2
    <3> HIDE DEF rest, f, chunks, start, end
    <3> QED BY <3>1, <3>2, <3>3
  <2>4. ASSUME NEW i \in 1..n, i < n PROVE f[i + 1] = f[i] \o rest[i + 1]
    <3>1. i + 1 \in 1..n /\ i + 1 # 1
      BY <2>4
    <3>2. PICK a \in Nat, e \in Nat, q \in Nat :
            /\ a = start(i + 1) /\ e = end(i + 1) /\ q = end(i) /\ a < e /\ a < length
            /\ a = start(i) + (size - overlap) /\ start(i) \in Nat
      BY <1>1, <1>2, <3>1
    <3>3. e = IF a + size < length THEN a + size ELSE length
      BY <3>2
    <3>4. q = IF a + overlap < length THEN a + overlap ELSE length
      <4>1. q = IF start(i) + size < length THEN start(i) + size ELSE length
        BY <3>2
      <4>2. start(i) + size = a + overlap
        <5> HIDE DEF start, end
        <5> QED BY <3>2, SMTT(30)
      <4> HIDE DEF start, end
      <4> QED BY <4>1, <4>2
    <3>5. /\ rest[i + 1] = SubSeq(chunks[i + 1], overlap + 1, Len(chunks[i + 1]))
          /\ f[i] = SubSeq(text, 1, q) /\ f[i + 1] = SubSeq(text, 1, e)
      <4>1. rest[i + 1] = SubSeq(chunks[i + 1], overlap + 1, Len(chunks[i + 1]))
        BY <1>6, <3>1
      <4>2. f[i] = SubSeq(text, 1, end(i)) /\ f[i + 1] = SubSeq(text, 1, end(i + 1))
        BY <3>1
      <4> QED BY <3>2, <4>1, <4>2
    <3>6. PICK chunk : chunk = chunks[i + 1] /\ chunk = SubSeq(text, a + 1, e)
                       /\ chunk \in Seq(S) /\ Len(chunk) = e - a
      BY <1>5, <3>1, <3>2
    <3> HIDE DEF rest, f, chunks, start, end
    <3>7. CASE a + overlap < length
      <4>0. q = a + overlap /\ q < e /\ e <= length
        <5>1. CASE a + size < length
          BY <3>3, <3>4, <3>7, <5>1
        <5>2. CASE ~(a + size < length)
          BY <3>3, <3>4, <3>7, <5>2
        <5> QED BY <5>1, <5>2
      <4>1. q = a + overlap /\ q < e /\ e <= length /\ overlap + 1 \in 1 .. e - a /\ e - a \in 1 .. e - a
        BY <4>0
      <4>2. a + 1 \in 1..Len(text) /\ e \in 1..Len(text)
        BY <1>l, <3>2, <3>3, SMTT(30)
      <4>2a. overlap + 1 \in 1 .. e - (a + 1) + 1 /\ e - a \in 1 .. e - (a + 1) + 1
        BY <4>1
      <4>3. SubSeq(SubSeq(text, a + 1, e), overlap + 1, e - a) =
              SubSeq(text, (a + 1) + (overlap + 1) - 1, (a + 1) + (e - a) - 1)
        BY <4>2, <4>2a, SubSeqOfSubSeq
      <4>4. (a + 1) + (overlap + 1) - 1 = q + 1 /\ (a + 1) + (e - a) - 1 = e
        BY <4>1
      <4>5. rest[i + 1] = SubSeq(text, q + 1, e)
        BY <3>5, <3>6, <4>3, <4>4
      <4>6. 1 \in 1..Len(text) + 1 /\ q \in 1 - 1 .. Len(text) /\ e \in q..Len(text)
        BY <1>l, <4>1
      <4>7. SubSeq(text, 1, q) \o SubSeq(text, q + 1, e) = SubSeq(text, 1, e)
        BY <4>6, ConcatAdjacentSubSeq
      <4> QED BY <3>5, <4>5, <4>7
    <3>8. CASE ~(a + overlap < length)
      <4>1. q = length /\ e = length /\ e - a < overlap + 1
        BY <3>2, <3>3, <3>4, <3>8, SMTT(30)
      <4>2. rest[i + 1] = <<>>
        BY <3>5, <3>6, <4>1, SubSeqEmpty
      <4>3. f[i + 1] = text /\ f[i] = text
        BY <1>l, <3>5, <4>1, SubSeqFull
      <4>4. text \o <<>> = text
        BY ConcatEmptySeq
      <4> QED BY <4>2, <4>3, <4>4
    <3> QED BY <3>7, <3>8
  <2>5. f[n] = text
    <3>1. f[n] = SubSeq(text, 1, end(n))
      BY <2>1
    <3>2. end(n) = length
      <4>1. start(n) \in Nat /\ start(n) + size >= length
        BY <1>1, <2>1
      <4> HIDE DEF start
      <4> QED BY <4>1
    <3> HIDE DEF f, end
    <3> QED BY <1>l, <3>1, <3>2, SubSeqFull
  <2> HIDE DEF rest, f, chunks
  <2>6. Beginnings(f, rest, n)
    BY <2>3, <2>4 DEF Beginnings
  <2> QED BY <1>8, <2>1, <2>2, <2>5, <2>6, Flattened
<1> QED BY <1>6, <1>7, <1>9, <1>10

-----------------------------------------------------------------------------
(* The chunks of paragraphs.                                                *)

\* s \o t, as a name.
Cat(s, t) == s \o t

LEMMA CatAssociative ==
  ASSUME NEW S, NEW s \in Seq(S), NEW t \in Seq(S), NEW u \in Seq(S)
  PROVE  Cat(s, t) \in Seq(S) /\ Cat(s, Cat(t, u)) = Cat(Cat(s, t), u)
BY ConcatAssociative, ConcatProperties DEF Cat

LEMMA Regrouped ==
  ASSUME NEW S, NEW s \in Seq(S), NEW t \in Seq(S), NEW u \in Seq(S), NEW v \in Seq(S)
  PROVE  Cat(s, Cat(t, Cat(u, v))) = Cat(Cat(s, Cat(t, u)), v)
<1>1. Cat(t, u) \in Seq(S)
  BY CatAssociative
<1>2. Cat(t, Cat(u, v)) = Cat(Cat(t, u), v)
  BY CatAssociative
<1>3. Cat(s, Cat(Cat(t, u), v)) = Cat(Cat(s, Cat(t, u)), v)
  BY <1>1, CatAssociative
<1> QED BY <1>2, <1>3

\* f says what each beginning of s makes, with blank lines between.
Lines(f, s, n) ==
  f[1] = s[1] /\ \A i \in 1..n : i < n => f[i + 1] = f[i] \o (BlankLine \o s[i + 1])

LEMMA JoinedIs ==
  ASSUME NEW S, NEW s \in Seq(S), s # <<>>
  PROVE  \E f : Lines(f, s, Len(s)) /\ Joined(s) = f[Len(s)]
<1>1. PICK n \in Nat \ {0} : n = Len(s) /\ DOMAIN s = 1..n
  BY EmptySeq, LenProperties
<1> DEFINE parts == [i \in DOMAIN s |-> IF i = 1 THEN s[1] ELSE BlankLine \o s[i]]
<1>2. Len(parts) = n
  <2>1. parts = [i \in 1..n |-> parts[i]]
    BY <1>1
  <2> HIDE DEF parts
  <2> QED BY <2>1
<1>3. Joined(s) = FlattenSeq(parts)
  BY DEF Joined
<1>4. \A i \in 1..n : parts[i] = IF i = 1 THEN s[1] ELSE BlankLine \o s[i]
  BY <1>1
<1> HIDE DEF parts
<1>5. PICK f : Flat(f, parts, n) /\ FlattenSeq(parts) = f[n]
  BY <1>2, FlattenIs
<1>6. \A i \in 1..n : f[i] = IF i = 1 THEN parts[i] ELSE f[i - 1] \o parts[i]
  BY <1>5 DEF Flat
<1>7. f[1] = s[1]
  BY <1>4, <1>6
<1>8. ASSUME NEW i \in 1..n, i < n PROVE f[i + 1] = f[i] \o (BlankLine \o s[i + 1])
  <2>1. i + 1 \in 1..n /\ i + 1 # 1 /\ (i + 1) - 1 = i
    BY <1>8
  <2> QED BY <1>4, <1>6, <2>1
<1>9. Lines(f, s, n)
  BY <1>7, <1>8 DEF Lines
<1> QED BY <1>1, <1>3, <1>5, <1>9

LEMMA JoinedWhen ==
  ASSUME NEW S, NEW s \in Seq(S), s # <<>>, NEW f, Lines(f, s, Len(s))
  PROVE  Joined(s) = f[Len(s)]
<1>1. PICK n \in Nat \ {0} : n = Len(s) /\ DOMAIN s = 1..n
  BY EmptySeq, LenProperties
<1> DEFINE parts == [i \in DOMAIN s |-> IF i = 1 THEN s[1] ELSE BlankLine \o s[i]]
<1>2. Len(parts) = n
  <2>1. parts = [i \in 1..n |-> parts[i]]
    BY <1>1
  <2> HIDE DEF parts
  <2> QED BY <2>1
<1>3. Joined(s) = FlattenSeq(parts)
  BY DEF Joined
<1>4. \A i \in 1..n : parts[i] = IF i = 1 THEN s[1] ELSE BlankLine \o s[i]
  BY <1>1
<1> HIDE DEF parts
<1>l. f[1] = s[1] /\ \A i \in 1..n : i < n => f[i + 1] = f[i] \o (BlankLine \o s[i + 1])
  BY <1>1 DEF Lines
<1>5. f[1] = parts[1]
  <2>1. 1 \in 1..n
    OBVIOUS
  <2> QED BY <1>4, <1>l, <2>1
<1>6. ASSUME NEW i \in 1..n, i < n PROVE f[i + 1] = f[i] \o parts[i + 1]
  <2>1. i + 1 \in 1..n /\ i + 1 # 1
    BY <1>6
  <2> QED BY <1>4, <1>6, <1>l, <2>1
<1>7. Beginnings(f, parts, n)
  BY <1>5, <1>6 DEF Beginnings
<1> QED BY <1>1, <1>2, <1>3, <1>7, Flattened

LEMMA JoinedOne ==
  ASSUME NEW x
  PROVE  Joined(Append(<<>>, x)) = x
<1>1. Append(<<>>, x) \in Seq({x}) /\ Append(<<>>, x) # <<>> /\ Len(Append(<<>>, x)) = 1
      /\ Append(<<>>, x)[1] = x
  BY EmptySeq, AppendProperties
<1>2. PICK s : s = Append(<<>>, x)
  OBVIOUS
<1>3. PICK f : Lines(f, s, Len(s)) /\ Joined(s) = f[Len(s)]
  BY <1>1, <1>2, JoinedIs
<1>4. f[1] = s[1]
  BY <1>3 DEF Lines
<1> QED BY <1>1, <1>2, <1>3, <1>4

LEMMA JoinedMore ==
  ASSUME NEW S, NEW s \in Seq(S), s # <<>>, NEW x \in S
  PROVE  Joined(Append(s, x)) = Joined(s) \o (BlankLine \o x)
<1>1. PICK n \in Nat \ {0} : n = Len(s) /\ DOMAIN s = 1..n
  BY EmptySeq, LenProperties
<1>0. PICK f : Lines(f, s, n) /\ Joined(s) = f[n]
  BY <1>1, JoinedIs
<1>2. /\ f[1] = s[1] /\ Joined(s) = f[n]
      /\ \A i \in 1..n : i < n => f[i + 1] = f[i] \o (BlankLine \o s[i + 1])
  BY <1>0 DEF Lines
<1>3. PICK t \in Seq(S) : t = Append(s, x) /\ t # <<>> /\ Len(t) = n + 1
                          /\ (\A i \in 1..n : t[i] = s[i]) /\ t[n + 1] = x
  BY <1>1, AppendProperties, ZenonT(60)
<1> DEFINE last == f[n] \o (BlankLine \o x)
           h == [i \in 1..(n + 1) |-> IF i = n + 1 THEN last ELSE f[i]]
<1>4. h[n + 1] = last /\ \A i \in 1..n : h[i] = f[i]
  <2>1. \A i \in 1..n : h[i] = f[i] /\ i \in 1..(n + 1) /\ i # n + 1
    <3> HIDE DEF last
    <3> QED OBVIOUS
  <2>2. h[n + 1] = last
    <3> HIDE DEF last
    <3> QED OBVIOUS
  <2> QED BY <2>1, <2>2
<1> HIDE DEF h, last
<1>5. 1 \in 1..n /\ h[1] = t[1]
  BY <1>2, <1>3, <1>4
<1>6. ASSUME NEW i \in 1..(n + 1), i < n + 1
      PROVE  h[i + 1] = h[i] \o (BlankLine \o t[i + 1])
  <2>1. CASE i = n
    <3>1. h[i + 1] = last /\ h[i] = f[n] /\ t[i + 1] = x
      <4>1. n \in 1..n
        OBVIOUS
      <4> QED BY <1>3, <1>4, <2>1, <4>1
    <3> QED BY <3>1 DEF last
  <2>2. CASE i # n
    <3>1. i \in 1..n /\ i < n /\ i + 1 \in 1..n
      BY <1>6, <2>2
    <3>2. h[i + 1] = f[i + 1] /\ h[i] = f[i] /\ t[i + 1] = s[i + 1]
      BY <1>3, <1>4, <3>1
    <3> QED BY <1>2, <3>1, <3>2
  <2> QED BY <2>1, <2>2
<1>7. Joined(t) = h[n + 1]
  <2>1. Lines(h, t, Len(t))
    BY <1>3, <1>5, <1>6 DEF Lines
  <2>2. Joined(t) = h[Len(t)]
    BY <1>3, <2>1, JoinedWhen
  <2> QED BY <1>3, <2>2
<1> QED BY <1>2, <1>3, <1>4, <1>7 DEF last

LEMMA JoinedIsText ==
  ASSUME NEW S, "|" \in S, NEW s \in Seq(Seq(S))
  PROVE  Joined(s) \in Seq(S)
<1>1. BlankLine \in Seq(S)
  BY DEF BlankLine
<1>2. CASE s = <<>>
  <2> DEFINE parts == [i \in DOMAIN s |-> IF i = 1 THEN s[1] ELSE BlankLine \o s[i]]
  <2>1. parts = [i \in {} |-> i]
    BY <1>2
  <2>2. \A t : DOMAIN t = {} /\ t = [i \in DOMAIN t |-> t[i]] => t = <<>>
    OBVIOUS
  <2>3. parts = <<>>
    <3> HIDE DEF parts
    <3> QED BY <2>1, <2>2
  <2>4. Joined(s) = FlattenSeq(parts)
    BY DEF Joined
  <2>5. FlattenSeq(<<>>) = <<>>
    BY DEF FlattenSeq
  <2> HIDE DEF parts
  <2> QED BY <2>3, <2>4, <2>5, EmptySeq
<1>3. CASE s # <<>>
  <2>1. PICK n \in Nat \ {0} : n = Len(s) /\ DOMAIN s = 1..n
    BY <1>3, EmptySeq, LenProperties
  <2>0. PICK f : Lines(f, s, n) /\ Joined(s) = f[n]
    BY <1>3, <2>1, JoinedIs
  <2>2. /\ f[1] = s[1] /\ Joined(s) = f[n]
        /\ \A i \in 1..n : i < n => f[i + 1] = f[i] \o (BlankLine \o s[i + 1])
    BY <2>0 DEF Lines
  <2>3. \A i \in 1..n : s[i] \in Seq(S)
    BY <2>1, ElementOfSeq
  <2> DEFINE Good == {i \in Nat : i + 1 \in 1..n => f[i + 1] \in Seq(S)}
  <2>4. 0 \in Good
    BY <2>2, <2>3
  <2>5. ASSUME NEW i \in Nat, i \in Good PROVE i + 1 \in Good
    <3>1. SUFFICES ASSUME (i + 1) + 1 \in 1..n PROVE f[(i + 1) + 1] \in Seq(S)
      OBVIOUS
    <3>2. i + 1 \in 1..n /\ i + 1 < n
      BY <3>1
    <3>3. f[i + 1] \in Seq(S) /\ s[(i + 1) + 1] \in Seq(S)
      BY <2>3, <2>5, <3>1, <3>2
    <3>4. f[(i + 1) + 1] = f[i + 1] \o (BlankLine \o s[(i + 1) + 1])
      BY <2>2, <3>2
    <3> QED BY <1>1, <3>3, <3>4, ConcatProperties
  <2>6. n - 1 \in Good
    <3>1. n - 1 \in Nat
      OBVIOUS
    <3> HIDE DEF Good
    <3> QED BY <2>4, <2>5, <3>1, Numbers
  <2>7. (n - 1) + 1 = n /\ n \in 1..n
    OBVIOUS
  <2>8. f[n] \in Seq(S)
    BY <2>6, <2>7
  <2> QED BY <2>2, <2>8
<1> QED BY <1>2, <1>3

\* What chunk_by_paragraphs() has done after each of the paragraphs.
Merging(acc, s, max, n) ==
  acc = [i \in 0..n |-> IF i = 0 THEN [chunks |-> <<>>, current |-> <<>>]
                        ELSE AddParagraph(max, acc[i - 1], s[i])]

LEMMA MergingExists ==
  ASSUME NEW s, NEW max
  PROVE  \A n \in Nat : \E acc : Merging(acc, s, max, n)
<1> DEFINE Good == {n \in Nat : \E acc : Merging(acc, s, max, n)}
           none == [chunks |-> <<>>, current |-> <<>>]
<1>1. 0 \in Good
  <2> DEFINE acc == [i \in 0..0 |-> none]
  <2>1. \A i \in 0..0 : acc[i] = IF i = 0 THEN none ELSE AddParagraph(max, acc[i - 1], s[i])
    OBVIOUS
  <2>2. acc = [i \in 0..0 |-> acc[i]]
    OBVIOUS
  <2> HIDE DEF acc
  <2>3. Merging(acc, s, max, 0)
    BY <2>1, <2>2 DEF Merging
  <2> QED BY <2>3
<1>2. ASSUME NEW n \in Nat, n \in Good PROVE n + 1 \in Good
  <2>1. PICK acc : Merging(acc, s, max, n)
    BY <1>2
  <2>2. \A i \in 0..n : acc[i] = IF i = 0 THEN none ELSE AddParagraph(max, acc[i - 1], s[i])
    BY <2>1 DEF Merging
  <2> DEFINE last == AddParagraph(max, acc[n], s[n + 1])
             h == [i \in 0..(n + 1) |-> IF i = n + 1 THEN last ELSE acc[i]]
  <2>3. h[n + 1] = last /\ \A i \in 0..n : h[i] = acc[i]
    OBVIOUS
  <2>4. h = [i \in 0..(n + 1) |-> h[i]]
    OBVIOUS
  <2> HIDE DEF h, none
  <2>5. ASSUME NEW i \in 0..(n + 1)
        PROVE  h[i] = IF i = 0 THEN none ELSE AddParagraph(max, h[i - 1], s[i])
    <3>1. CASE i = n + 1
      <4>1. i # 0 /\ i - 1 = n /\ n \in 0..n
        BY <3>1
      <4> QED BY <2>3, <3>1, <4>1
    <3>2. CASE i # n + 1
      <4>1. i \in 0..n /\ (i # 0 => i - 1 \in 0..n)
        BY <3>2
      <4> QED BY <2>2, <2>3, <4>1
    <3> QED BY <3>1, <3>2
  <2>6. Merging(h, s, max, n + 1)
    BY <2>4, <2>5 DEF Merging, none
  <2> QED BY <2>6
<1>3. Nat \subseteq Good
  <2> HIDE DEF Good
  <2> QED BY <1>1, <1>2, Numbers
<1> QED BY <1>3

\* The chunks and the current one hold all of a text.
Holds(acc, S, text) ==
  \E chunks \in Seq(Seq(S)), current \in Seq(S) :
    /\ acc = [chunks |-> chunks, current |-> current]
    /\ current # <<>> /\ Joined(Append(chunks, current)) = text

LEMMA LastOfMore ==
  ASSUME NEW S, NEW blank \in Seq(S), blank = BlankLine, NEW chunks \in Seq(Seq(S)),
         chunks # <<>>, NEW before \in Seq(S), before = Joined(chunks),
         NEW current \in Seq(S), NEW line \in Seq(S), NEW grown \in Seq(S),
         grown = Cat(current, line)
  PROVE  Joined(Append(chunks, grown)) = Cat(Joined(Append(chunks, current)), line)
<1>1. Joined(Append(chunks, grown)) = Cat(before, Cat(blank, grown))
  BY JoinedMore DEF Cat
<1>2. Joined(Append(chunks, current)) = Cat(before, Cat(blank, current))
  BY JoinedMore DEF Cat
<1>3. Cat(before, Cat(blank, Cat(current, line))) = Cat(Cat(before, Cat(blank, current)), line)
  BY Regrouped
<1> QED BY <1>1, <1>2, <1>3

LEMMA LastGrows ==
  ASSUME NEW S, "|" \in S, NEW chunks \in Seq(Seq(S)), NEW current \in Seq(S), current # <<>>,
         NEW line \in Seq(S)
  PROVE  /\ current \o line \in Seq(S) /\ current \o line # <<>>
         /\ Joined(Append(chunks, current \o line)) = Joined(Append(chunks, current)) \o line
<1>1. current \o line \in Seq(S) /\ current \o line # <<>>
  BY ConcatProperties, ConcatEqualIffEmpty
<1>2. CASE chunks = <<>>
  BY <1>1, <1>2, JoinedOne
<1>3. CASE chunks # <<>>
  <2>1. Joined(chunks) \in Seq(S)
    BY JoinedIsText
  <2>2. BlankLine \in Seq(S)
    BY DEF BlankLine
  <2>3. PICK grown \in Seq(S) : grown = Cat(current, line)
    BY <1>1 DEF Cat
  <2>4. Joined(Append(chunks, grown)) = Cat(Joined(Append(chunks, current)), line)
    BY <1>3, <2>1, <2>2, <2>3, LastOfMore
  <2> QED BY <1>1, <2>3, <2>4 DEF Cat
<1> QED BY <1>2, <1>3

\* One more paragraph: nothing of it or of what there was is lost.
LEMMA ParagraphAdded ==
  ASSUME NEW S, "|" \in S, NEW para \in Seq(S), para # <<>>, NEW max, NEW acc, NEW text,
         Holds(acc, S, text)
  PROVE  Holds(AddParagraph(max, acc, para), S, text \o (BlankLine \o para))
<1>1. PICK chunks \in Seq(Seq(S)), current \in Seq(S) :
        /\ acc = [chunks |-> chunks, current |-> current]
        /\ current # <<>> /\ Joined(Append(chunks, current)) = text
  BY DEF Holds
<1>2. acc.current = current /\ acc.chunks = chunks
  BY <1>1
<1>3. CASE Len(acc.current) + Len(para) + 2 <= max
  <2>1. AddParagraph(max, acc, para) = [acc EXCEPT !.current = (current \o BlankLine) \o para]
    BY <1>1, <1>2, <1>3 DEF AddParagraph
  <2>2. BlankLine \in Seq(S)
    BY DEF BlankLine
  <2>3. (current \o BlankLine) \o para = current \o (BlankLine \o para)
    BY <2>2, ConcatAssociative
  <2>4. AddParagraph(max, acc, para) =
          [chunks |-> chunks, current |-> current \o (BlankLine \o para)]
    BY <1>1, <2>1, <2>3
  <2>5. BlankLine \o para \in Seq(S)
    BY <2>2, ConcatProperties
  <2>6. PICK line \in Seq(S) : line = BlankLine \o para
    BY <2>5
  <2>0. current # <<>>
    BY <1>1
  <2>7. /\ current \o line \in Seq(S) /\ current \o line # <<>>
        /\ Joined(Append(chunks, current \o line)) = Joined(Append(chunks, current)) \o line
    BY <2>0, LastGrows
  <2> QED BY <1>1, <2>4, <2>6, <2>7 DEF Holds
<1>4. CASE ~(Len(acc.current) + Len(para) + 2 <= max)
  <2>1. AddParagraph(max, acc, para) = [chunks |-> Append(chunks, current), current |-> para]
    BY <1>1, <1>2, <1>4 DEF AddParagraph
  <2>2. PICK more \in Seq(Seq(S)) : more = Append(chunks, current) /\ more # <<>>
    BY AppendProperties
  <2>3. Joined(Append(more, para)) = Joined(more) \o (BlankLine \o para)
    BY <2>2, JoinedMore
  <2> QED BY <1>1, <2>1, <2>2, <2>3 DEF Holds
<1> QED BY <1>3, <1>4

\* chunk_by_paragraphs() loses nothing.
LEMMA ChunksOfParagraphs ==
  ASSUME NEW S, "|" \in S, NEW s \in Seq(Seq(S)), s # <<>>, <<>> \notin Range(s), NEW max
  PROVE  /\ ChunkByParagraphs(s, max) \in Seq(Seq(S))
         /\ ChunkByParagraphs(s, max) # <<>>
         /\ Joined(ChunkByParagraphs(s, max)) = Joined(s)
<1>1. PICK n \in Nat \ {0} : n = Len(s) /\ DOMAIN s = 1..n
  BY EmptySeq, LenProperties
<1> DEFINE none == [chunks |-> <<>>, current |-> <<>>]
           acc == CHOOSE f : f = [i \in 0..n |-> IF i = 0 THEN none
                                                 ELSE AddParagraph(max, f[i - 1], s[i])]
<1>2. \E f : f = [i \in 0..n |-> IF i = 0 THEN none ELSE AddParagraph(max, f[i - 1], s[i])]
  <2>1. PICK f : Merging(f, s, max, n)
    BY MergingExists
  <2> QED BY <2>1 DEF Merging
<1>3. acc = [i \in 0..n |-> IF i = 0 THEN none ELSE AddParagraph(max, acc[i - 1], s[i])]
  BY <1>2
<1>4. ChunkByParagraphs(s, max) = IF acc[n].current = <<>> THEN acc[n].chunks
                                  ELSE Append(acc[n].chunks, acc[n].current)
  BY <1>1 DEF ChunkByParagraphs
<1> HIDE DEF acc
<1>5. acc[0] = none /\ \A i \in 1..n : acc[i] = AddParagraph(max, acc[i - 1], s[i])
  BY <1>3
<1>f. PICK f : Lines(f, s, n) /\ Joined(s) = f[n]
  BY <1>1, JoinedIs
<1>6. /\ f[1] = s[1]
      /\ \A i \in 1..n : i < n => f[i + 1] = f[i] \o (BlankLine \o s[i + 1])
  BY <1>f DEF Lines
<1>7. \A i \in 1..n : s[i] \in Seq(S) /\ s[i] # <<>>
  <2>1. \A i \in 1..n : s[i] \in Range(s)
    BY <1>1 DEF Range
  <2> QED BY <1>1, <2>1, ElementOfSeq
<1> DEFINE Good == {i \in Nat : i + 1 \in 1..n => Holds(acc[i + 1], S, f[i + 1])}
<1>8. 0 \in Good
  <2>1. 1 \in 1..n /\ acc[1] = AddParagraph(max, none, s[1])
    <3>1. 1 \in 1..n /\ 1 - 1 = 0
      OBVIOUS
    <3> HIDE DEF none
    <3> QED BY <1>5, <3>1
  <2>2. acc[1] = [chunks |-> <<>>, current |-> s[1]]
    BY <2>1 DEF AddParagraph
  <2>3. <<>> \in Seq(Seq(S)) /\ Joined(Append(<<>>, s[1])) = f[1]
    BY <1>6, EmptySeq, JoinedOne
  <2>4. Holds(acc[1], S, f[1])
    BY <1>7, <2>1, <2>2, <2>3 DEF Holds
  <2>5. 0 + 1 = 1
    OBVIOUS
  <2> QED BY <2>4, <2>5
<1>9. ASSUME NEW i \in Nat, i \in Good PROVE i + 1 \in Good
  <2>1. SUFFICES ASSUME (i + 1) + 1 \in 1..n PROVE Holds(acc[(i + 1) + 1], S, f[(i + 1) + 1])
    OBVIOUS
  <2>2. i + 1 \in 1..n /\ i + 1 < n /\ ((i + 1) + 1) - 1 = i + 1
    BY <2>1
  <2>3. Holds(acc[i + 1], S, f[i + 1])
    BY <1>9, <2>2
  <2>4. acc[(i + 1) + 1] = AddParagraph(max, acc[i + 1], s[(i + 1) + 1])
    BY <1>5, <2>1, <2>2
  <2>5. PICK para \in Seq(S) : para = s[(i + 1) + 1] /\ para # <<>>
    BY <1>7, <2>1
  <2>6. Holds(AddParagraph(max, acc[i + 1], para), S, f[i + 1] \o (BlankLine \o para))
    BY <2>3, <2>5, ParagraphAdded
  <2>7. f[(i + 1) + 1] = f[i + 1] \o (BlankLine \o s[(i + 1) + 1])
    BY <1>6, <2>2
  <2> QED BY <2>4, <2>5, <2>6, <2>7
<1>10. Holds(acc[n], S, f[n])
  <2>1. n - 1 \in Nat /\ (n - 1) + 1 = n /\ n \in 1..n
    OBVIOUS
  <2>2. n - 1 \in Good
    <3> HIDE DEF Good
    <3> QED BY <1>8, <1>9, <2>1, Numbers
  <2> QED BY <2>1, <2>2
<1>11. PICK chunks \in Seq(Seq(S)), current \in Seq(S) :
         /\ acc[n] = [chunks |-> chunks, current |-> current]
         /\ current # <<>> /\ Joined(Append(chunks, current)) = f[n]
  BY <1>10 DEF Holds
<1>12. ChunkByParagraphs(s, max) = Append(chunks, current)
  <2>1. acc[n].current = current /\ acc[n].chunks = chunks
    BY <1>11
  <2> QED BY <1>4, <1>11, <2>1
<1>13. Append(chunks, current) \in Seq(Seq(S)) /\ Append(chunks, current) # <<>>
  BY AppendProperties
<1> QED BY <1>f, <1>11, <1>12, <1>13

-----------------------------------------------------------------------------
(* The chunks of a document.                                                *)

HasText(kind, text) == text \in IF kind = "faqs" THEN Faqs ELSE Texts \cup {<<>>}

LEMMA SeqOfParts ==
  ASSUME NEW S, NEW T, NEW s \in Seq(S), \A x \in Range(s) : x \in T
  PROVE  s \in Seq(T)
<1>1. PICK n \in Nat : n = Len(s) /\ DOMAIN s = 1..n
  BY LenProperties
<1>2. \A i \in 1..n : s[i] \in T
  BY <1>1 DEF Range
<1>3. s \in [1..n -> T]
  <2>1. s = [i \in 1..n |-> s[i]]
    BY <1>1
  <2> QED BY <1>2, <2>1
<1> QED BY <1>3

\* The chunks of a document are the whole of it, and one at least when there
\* is something to chunk (chunk_text, chunk_by_paragraphs).
THEOREM ChunksAreWhole ==
  ASSUME NEW kind, NEW text, HasText(kind, text)
  PROVE  /\ \E S : ChunksOf(kind, text) \in Seq(S)
         /\ text # <<>> => ChunksOf(kind, text) # <<>>
         /\ Whole(kind, ChunksOf(kind, text)) = Original(kind, text)
<1>1. CASE kind = "faqs"
  <2>1. text \in Seq(Range(text)) /\ text # <<>> /\ \A p \in Range(text) : IsText(p)
    BY <1>1, TextsAssumption DEF HasText, IsText
  <2> DEFINE letters == UNION {Range(p) : p \in Range(text)}
             S == letters \cup {BlankLine[1]}
  <2>2. ASSUME NEW p \in Range(text) PROVE p \in Seq(S) /\ p # <<>>
    <3>1. p \in Seq(Range(p)) /\ p # <<>>
      BY <2>1 DEF IsText
    <3>2. \A x \in Range(p) : x \in S
      OBVIOUS
    <3> HIDE DEF S
    <3> QED BY <3>1, <3>2, SeqOfParts
  <2>3. "|" \in S
    <3>1. BlankLine[1] = "|"
      BY DEF BlankLine
    <3> HIDE DEF letters
    <3> QED BY <3>1
  <2> HIDE DEF S
  <2>4. text \in Seq(Seq(S))
    BY <2>1, <2>2, SeqOfParts
  <2>5. <<>> \notin Range(text)
    BY <2>2
  <2>6. /\ ChunkByParagraphs(text, ChunkSize) \in Seq(Seq(S))
        /\ ChunkByParagraphs(text, ChunkSize) # <<>>
        /\ Joined(ChunkByParagraphs(text, ChunkSize)) = Joined(text)
    BY <2>1, <2>3, <2>4, <2>5, ChunksOfParagraphs
  <2>7. /\ ChunksOf(kind, text) = ChunkByParagraphs(text, ChunkSize)
        /\ Whole(kind, ChunksOf(kind, text)) = Joined(ChunksOf(kind, text))
        /\ Original(kind, text) = Joined(text)
    BY <1>1 DEF ChunksOf, Whole, Original
  <2> QED BY <2>6, <2>7
<1>2. CASE kind # "faqs"
  <2>1. PICK S : text \in Seq(S)
    <3>1. CASE text = <<>>
      BY <3>1, EmptySeq
    <3>2. CASE text # <<>>
      BY <1>2, <3>2, TextsAssumption DEF HasText, IsText
    <3> QED BY <3>1, <3>2
  <2>2. /\ ChunkText(text, ChunkSize, Overlap) \in Seq(Seq(S))
        /\ text # <<>> => ChunkText(text, ChunkSize, Overlap) # <<>>
        /\ Reassembled(ChunkText(text, ChunkSize, Overlap), Overlap) = text
    BY <2>1, SizesAssumption, ChunksOfText
  <2>3. /\ ChunksOf(kind, text) = ChunkText(text, ChunkSize, Overlap)
        /\ Whole(kind, ChunksOf(kind, text)) = Reassembled(ChunksOf(kind, text), Overlap)
        /\ Original(kind, text) = text
    BY <1>2 DEF ChunksOf, Whole, Original
  <2> QED BY <2>2, <2>3
<1> QED BY <1>1, <1>2

-----------------------------------------------------------------------------
(* The store.                                                               *)

BusyTask(t) == t.phase \in {"waiting", "pause"}
BatchOf(new, d) == \A id \in DOMAIN new : id[1] = d

\* What an operation is while it is not over: its request and those that
\* follow concern its own document.
HasFields(t) ==
  t = [op |-> t.op, phase |-> t.phase, attempt |-> t.attempt, req |-> t.req,
       doc |-> t.doc, rest |-> t.rest, clean |-> t.clean]

IsTask(t) ==
  BusyTask(t) =>
    /\ HasFields(t)
    /\ \/ /\ t.op = "upsert" /\ t.req.kind = "upsert" /\ BatchOf(t.req.new, t.doc)
          /\ \E S : t.rest \in Seq(S)
          /\ \A i \in DOMAIN t.rest : BatchOf(t.rest[i], t.doc)
       \/ t.op = "delete" /\ t.req.kind \in {"search", "delete"}
       \/ t.op = "create" /\ t.req.kind = "create"
       \/ t.op = "drop" /\ t.req.kind = "drop"

TasksAreSound ==
  /\ task = [c \in Clients |-> task[c]]
  /\ \A c \in Clients : IsTask(task[c])
  /\ fate = [d \in Docs |-> fate[d]]

\* Who may still write points of d: an upsert, or a request nobody waits for.
InHand(d) == \E c \in Clients : Busy(c) /\ task[c].op = "upsert" /\ task[c].doc = d
OnItsWay(d) == \E r \in late : Writes(r, d)
Written(d) == InHand(d) \/ OnItsWay(d)

\* A deletion that found all points while nobody was writing any.
Clean(c, d) ==
  Busy(c) /\ task[c].req.kind = "delete" /\ task[c].clean /\ task[c].doc = d

\* What a step of the store does to a document, unless it starts an upsert:
\* no new writer, points only from writers, and "gone" only by a clean deletion.
Tame(d) ==
  /\ Written(d)' => Written(d)
  /\ ~Written(d) => PointsOf(d)' \subseteq PointsOf(d)
  /\ fate'[d] = "gone" =>
       \/ fate[d] = "gone"
       \/ \E c \in Clients : Clean(c, d) /\ PointsOf(d)' \subseteq PointsOf(d) \ task[c].req.ids
  /\ \A c \in Clients : Clean(c, d)' =>
       \/ Clean(c, d) /\ task'[c].req = task[c].req
       \/ /\ PointsOf(d) \subseteq task'[c].req.ids /\ PointsOf(d) # {}
          /\ ~Written(d) /\ points' = points /\ late' = late
          /\ \A x \in Clients \ {c} : task'[x] = task[x]

\* One operation goes on without becoming an upsert, or ends.
LEMMA TaskGoesOn ==
  ASSUME TasksAreSound, NEW c \in Clients, NEW t, task' = [task EXCEPT ![c] = t],
         IsTask(t), fate' = [d \in Docs |-> fate'[d]],
         BusyTask(t) /\ t.op = "upsert" =>
           BusyTask(task[c]) /\ task[c].op = "upsert" /\ task[c].doc = t.doc
  PROVE  /\ TasksAreSound'
         /\ task'[c] = t /\ \A x \in Clients \ {c} : task'[x] = task[x]
         /\ \A d : InHand(d)' => InHand(d)
<1>1. task'[c] = t /\ \A x \in Clients \ {c} : task'[x] = task[x]
  BY DEF TasksAreSound
<1>2. \A x \in Clients : IsTask(task'[x])
  BY <1>1 DEF TasksAreSound
<1>3. task' = [x \in Clients |-> task'[x]]
  BY DEF TasksAreSound
<1>4. ASSUME NEW d, InHand(d)' PROVE InHand(d)
  <2>1. PICK x \in Clients : BusyTask(task'[x]) /\ task'[x].op = "upsert" /\ task'[x].doc = d
    BY <1>4 DEF InHand, Busy, BusyTask
  <2>2. BusyTask(task[x]) /\ task[x].op = "upsert" /\ task[x].doc = d
    BY <1>1, <2>1
  <2> QED BY <2>2 DEF InHand, Busy, BusyTask
<1> QED BY <1>1, <1>2, <1>3, <1>4 DEF TasksAreSound

LEMMA EndedIsOver ==
  ASSUME NEW c \in Clients, NEW phase \in {"returned", "raised"}
  PROVE  \E t : Ended(c, phase) = [task EXCEPT ![c] = t] /\ ~BusyTask(t) /\ IsTask(t)
<1> DEFINE t == IF task[c].op = "upsert" THEN [op |-> task[c].op, phase |-> phase] ELSE Idle
<1>1. Ended(c, phase) = [task EXCEPT ![c] = t]
  BY DEF Ended
<1>2. ~BusyTask(t)
  BY DEF BusyTask, Idle
<1> QED BY <1>1, <1>2 DEF IsTask

\* The request of an operation writes points of its own document only.
LEMMA OwnRequest ==
  ASSUME TasksAreSound, NEW c \in Clients, Busy(c), NEW d, Writes(task[c].req, d)
  PROVE  InHand(d)
BY DEF TasksAreSound, IsTask, BusyTask, Busy, Writes, BatchOf, InHand

\* Nothing but one operation changes, and it does not touch the points.
LEMMA TameWithoutPoints ==
  ASSUME TasksAreSound, NEW c \in Clients, NEW t, task' = [task EXCEPT ![c] = t],
         IsTask(t), UNCHANGED <<points, fate>>,
         late' = late \/ (late' = late \cup {task[c].req} /\ Busy(c)),
         BusyTask(t) /\ t.op = "upsert" =>
           BusyTask(task[c]) /\ task[c].op = "upsert" /\ task[c].doc = t.doc,
         BusyTask(t) /\ t.req.kind = "delete" /\ t.clean =>
           Busy(c) /\ t.req = task[c].req /\ task[c].clean /\ task[c].doc = t.doc
  PROVE  TasksAreSound' /\ \A d \in Docs : Tame(d)
<1>1. /\ TasksAreSound'
      /\ task'[c] = t /\ \A x \in Clients \ {c} : task'[x] = task[x]
      /\ \A d : InHand(d)' => InHand(d)
  <2>1. fate' = [d \in Docs |-> fate'[d]]
    BY DEF TasksAreSound
  <2> QED BY <2>1, TaskGoesOn
<1>2. ASSUME NEW d \in Docs PROVE Tame(d)
  <2>1. OnItsWay(d)' => Written(d)
    BY OwnRequest DEF OnItsWay, Written
  <2>2. PointsOf(d)' = PointsOf(d) /\ fate'[d] = fate[d]
    BY DEF PointsOf
  <2>3. ASSUME NEW x \in Clients, Clean(x, d)'
        PROVE  Clean(x, d) /\ task'[x].req = task[x].req
    BY <1>1, <2>3 DEF Clean, Busy, BusyTask
  <2> QED BY <1>1, <2>1, <2>2, <2>3 DEF Tame, Written
<1> QED BY <1>1, <1>2

\* An operation that waits for its answer, or before another attempt.
LEMMA OnlyTheAttempt ==
  ASSUME TasksAreSound, NEW c \in Clients, Busy(c), NEW phase \in {"waiting", "pause"}, NEW n
  PROVE  LET t == [task[c] EXCEPT !.phase = phase, !.attempt = n]
         IN  /\ IsTask(t) /\ BusyTask(t)
             /\ t.op = task[c].op /\ t.doc = task[c].doc
             /\ t.req = task[c].req /\ t.clean = task[c].clean
<1> DEFINE o == task[c]
           t == [o EXCEPT !.phase = phase, !.attempt = n]
<1>1. IsTask(o) /\ BusyTask(o)
  BY DEF TasksAreSound, Busy, BusyTask
<1>2. o = [op |-> o.op, phase |-> o.phase, attempt |-> o.attempt, req |-> o.req,
           doc |-> o.doc, rest |-> o.rest, clean |-> o.clean]
  BY <1>1 DEF IsTask, HasFields
<1>t. t = [o EXCEPT !.phase = phase, !.attempt = n]
  OBVIOUS
<1> HIDE DEF o, t
<1>3. t = [op |-> o.op, phase |-> phase, attempt |-> n, req |-> o.req,
           doc |-> o.doc, rest |-> o.rest, clean |-> o.clean]
  BY <1>2, <1>t
<1>4. BusyTask(t)
  BY <1>3 DEF BusyTask
<1>5. IsTask(t)
  BY <1>1, <1>3 DEF IsTask, HasFields
<1> QED BY <1>3, <1>4, <1>5 DEF t, o

LEMMA AfterErrorIsTame ==
  ASSUME TasksAreSound, NEW c \in Clients, Busy(c), NEW existed \in BOOLEAN,
         task' = AfterError(c, existed), UNCHANGED <<points, fate>>,
         late' = late \/ late' = late \cup {task[c].req}
  PROVE  TasksAreSound' /\ \A d \in Docs : Tame(d)
<1>1. CASE LastAttempt(c)
  <2>1. PICK phase \in {"returned", "raised"} : task' = Ended(c, phase)
    BY <1>1 DEF AfterError
  <2>2. PICK t : task' = [task EXCEPT ![c] = t] /\ ~BusyTask(t) /\ IsTask(t)
    BY <2>1, EndedIsOver
  <2> QED BY <2>2, TameWithoutPoints
<1>2. CASE ~LastAttempt(c)
  <2> DEFINE t == [task[c] EXCEPT !.phase = "pause", !.attempt = task[c].attempt + 1]
  <2>1. task' = [task EXCEPT ![c] = t]
    BY <1>2 DEF AfterError, SentAgain, TasksAreSound
  <2>2. /\ IsTask(t) /\ BusyTask(t) /\ t.op = task[c].op /\ t.doc = task[c].doc
        /\ t.req = task[c].req /\ t.clean = task[c].clean
    BY OnlyTheAttempt
  <2> HIDE DEF t
  <2> QED BY <2>1, <2>2, TameWithoutPoints DEF Busy, BusyTask
<1> QED BY <1>1, <1>2

LEMMA FailuresAreTame ==
  ASSUME TasksAreSound, NEW c \in Clients, Refuse(c) \/ Fail(c) \/ Wake(c) \/ CancelOperation(c)
  PROVE  TasksAreSound' /\ \A d \in Docs : Tame(d)
<1>1. CASE Refuse(c)
  <2>1. (task[c].req.kind = "create") \in BOOLEAN
    OBVIOUS
  <2> QED BY <1>1, <2>1, AfterErrorIsTame DEF Refuse, Busy
<1>2. CASE Fail(c)
  BY <1>2, AfterErrorIsTame DEF Fail, Busy, Unheeded
<1>3. CASE Wake(c)
  <2> DEFINE t == [task[c] EXCEPT !.phase = "waiting", !.attempt = task[c].attempt]
  <2>1. Busy(c) /\ task' = [task EXCEPT ![c] = [task[c] EXCEPT !.phase = "waiting"]]
    BY <1>3 DEF Wake, Busy, TasksAreSound
  <2>2. [task[c] EXCEPT !.phase = "waiting"] = t
    BY <2>1 DEF TasksAreSound, IsTask, Busy, BusyTask
  <2>3. /\ IsTask(t) /\ BusyTask(t) /\ t.op = task[c].op /\ t.doc = task[c].doc
        /\ t.req = task[c].req /\ t.clean = task[c].clean
    BY <2>1, OnlyTheAttempt
  <2> HIDE DEF t
  <2> QED BY <1>3, <2>1, <2>2, <2>3, TameWithoutPoints DEF Wake, Busy, BusyTask
<1>4. CASE CancelOperation(c)
  <2>1. Busy(c) /\ task' = [task EXCEPT ![c] = Idle] /\ UNCHANGED <<points, fate>>
        /\ (late' = late \/ late' = late \cup {task[c].req})
    BY <1>4 DEF CancelOperation, Unheeded
  <2>2. ~BusyTask(Idle) /\ IsTask(Idle)
    BY DEF BusyTask, Idle, IsTask
  <2> QED BY <2>1, <2>2, TameWithoutPoints
<1> QED BY <1>1, <1>2, <1>3, <1>4

\* The requests that a restart leaves behind were in hand.
LEMMA RestartIsTame ==
  ASSUME TasksAreSound, RestartStore
  PROVE  TasksAreSound' /\ \A d \in Docs : Tame(d)
<1>1. /\ task' = [c \in Clients |-> Idle] /\ UNCHANGED <<points, fate>>
      /\ \A r \in late' : r \in late \/ \E c \in Clients : Busy(c) /\ r = task[c].req
  BY DEF RestartStore, Busy
<1>2. \A c \in Clients : ~BusyTask(task'[c]) /\ IsTask(task'[c])
  BY <1>1 DEF BusyTask, Idle, IsTask
<1>3. TasksAreSound'
  BY <1>1, <1>2 DEF TasksAreSound
<1>4. ASSUME NEW d \in Docs PROVE Tame(d)
  <2>1. OnItsWay(d)' => Written(d)
    <3>1. ASSUME NEW r \in late', Writes(r, d) PROVE Written(d)
      BY <1>1, <3>1, OwnRequest DEF OnItsWay, Written
    <3> QED BY <3>1 DEF OnItsWay, Writes
  <2>2. ~InHand(d)' /\ \A c \in Clients : ~Clean(c, d)'
    BY <1>2 DEF InHand, Clean, Busy, BusyTask
  <2>3. PointsOf(d)' = PointsOf(d) /\ fate'[d] = fate[d]
    BY <1>1 DEF PointsOf
  <2> QED BY <2>1, <2>2, <2>3 DEF Tame, Written
<1> QED BY <1>3, <1>4

\* What a request does to the points of a document it does not write.
LEMMA EffectOnOthers ==
  ASSUME TasksAreSound, NEW r, Effect(r)
  PROVE  /\ fate' = [d \in Docs |-> fate'[d]]
         /\ \A d \in Docs : fate'[d] = "gone" => fate[d] = "gone"
         /\ \A d : ~Writes(r, d) => PointsOf(d)' \subseteq PointsOf(d)
<1>1. ASSUME NEW ids, Lose(ids)
      PROVE  /\ fate' = [d \in Docs |-> fate'[d]]
             /\ \A d \in Docs : fate'[d] = "gone" => fate[d] = "gone"
             /\ \A d : PointsOf(d)' \subseteq PointsOf(d)
  BY <1>1 DEF Lose, PointsOf
<1>2. CASE r.kind = "upsert" /\ points' = Merged(r.new) /\ UNCHANGED <<exists, fate>>
  <2>1. \A d : ~Writes(r, d) => PointsOf(d)' \subseteq PointsOf(d)
    BY <1>2 DEF Writes, PointsOf, Merged
  <2> QED BY <1>2, <2>1 DEF TasksAreSound
<1>3. CASE UNCHANGED <<points, fate>>
  BY <1>3 DEF TasksAreSound, PointsOf
<1> QED BY <1>1, <1>2, <1>3 DEF Effect

\* One operation goes on, not with a deletion, and points change.
LEMMA TameWithPoints ==
  ASSUME TasksAreSound, NEW c \in Clients, NEW t, task' = [task EXCEPT ![c] = t],
         IsTask(t), fate' = [d \in Docs |-> fate'[d]], late' = late,
         BusyTask(t) /\ t.op = "upsert" =>
           BusyTask(task[c]) /\ task[c].op = "upsert" /\ task[c].doc = t.doc,
         ~(BusyTask(t) /\ t.req.kind = "delete"),
         \A d \in Docs : ~Written(d) => PointsOf(d)' \subseteq PointsOf(d),
         \A d \in Docs : fate'[d] = "gone" =>
           \/ fate[d] = "gone"
           \/ \E x \in Clients : Clean(x, d) /\ PointsOf(d)' \subseteq PointsOf(d) \ task[x].req.ids
  PROVE  TasksAreSound' /\ \A d \in Docs : Tame(d)
<1>1. /\ TasksAreSound'
      /\ task'[c] = t /\ \A x \in Clients \ {c} : task'[x] = task[x]
      /\ \A d : InHand(d)' => InHand(d)
  BY TaskGoesOn
<1>2. ASSUME NEW d \in Docs PROVE Tame(d)
  <2>1. OnItsWay(d)' => Written(d)
    BY DEF OnItsWay, Written
  <2>2. ASSUME NEW x \in Clients, Clean(x, d)'
        PROVE  Clean(x, d) /\ task'[x].req = task[x].req
    BY <1>1, <2>2 DEF Clean, Busy, BusyTask
  <2> QED BY <1>1, <2>1, <2>2 DEF Tame, Written
<1> QED BY <1>1, <1>2

LEMMA CollectionAnsweredIsTame ==
  ASSUME TasksAreSound, NEW c \in Clients, CollectionAnswered(c)
  PROVE  TasksAreSound' /\ \A d \in Docs : Tame(d)
<1>1. PICK t : task' = [task EXCEPT ![c] = t] /\ ~BusyTask(t) /\ IsTask(t)
  BY EndedIsOver DEF CollectionAnswered
<1>2. task[c].req.kind # "upsert"
  BY DEF CollectionAnswered, TasksAreSound, IsTask, BusyTask
<1>3. \A d : ~Writes(task[c].req, d)
  BY <1>2 DEF Writes
<1>4. Effect(task[c].req) /\ late' = late
  BY DEF CollectionAnswered
<1> QED BY <1>1, <1>3, <1>4, EffectOnOthers, TameWithPoints

LEMMA DeleteAnsweredIsTame ==
  ASSUME TasksAreSound, NEW c \in Clients, DeleteAnswered(c)
  PROVE  TasksAreSound' /\ \A d \in Docs : Tame(d)
<1>1. PICK t : task' = [task EXCEPT ![c] = t] /\ ~BusyTask(t) /\ IsTask(t)
  BY EndedIsOver DEF DeleteAnswered
<1>2. \A d : PointsOf(d)' \subseteq PointsOf(d) \ task[c].req.ids
  BY DEF DeleteAnswered, PointsOf
<1>3. fate' = [d \in Docs |-> fate'[d]]
  BY DEF DeleteAnswered, TasksAreSound
<1>4. ASSUME NEW d \in Docs, fate'[d] = "gone", fate[d] # "gone"
      PROVE  Clean(c, d)
  BY <1>4 DEF DeleteAnswered, TasksAreSound, Clean, Busy
<1>5. late' = late
  BY DEF DeleteAnswered
<1> QED BY <1>1, <1>2, <1>3, <1>4, <1>5, TameWithPoints

Following(o, r, rest) ==
  [o EXCEPT !.phase = "pause", !.attempt = 1, !.req = r, !.rest = rest]

LEMMA FollowingHasFields ==
  ASSUME NEW o, HasFields(o), NEW r, NEW rest
  PROVE  LET t == Following(o, r, rest)
         IN  /\ HasFields(t)
             /\ t.op = o.op /\ t.phase = "pause" /\ t.attempt = 1 /\ t.req = r
             /\ t.doc = o.doc /\ t.rest = rest /\ t.clean = o.clean
<1>1. ASSUME NEW phase, NEW n, NEW t,
             t = [o EXCEPT !.phase = phase, !.attempt = n, !.req = r, !.rest = rest]
      PROVE  t = [op |-> o.op, phase |-> phase, attempt |-> n, req |-> r, doc |-> o.doc,
                  rest |-> rest, clean |-> o.clean]
  BY <1>1 DEF HasFields
<1> DEFINE t == Following(o, r, rest)
<1>2. t = [o EXCEPT !.phase = "pause", !.attempt = 1, !.req = r, !.rest = rest]
  BY DEF Following
<1> HIDE DEF t
<1>3. t = [op |-> o.op, phase |-> "pause", attempt |-> 1, req |-> r, doc |-> o.doc,
           rest |-> rest, clean |-> o.clean]
  BY <1>1, <1>2
<1>4. /\ HasFields(t)
      /\ t.op = o.op /\ t.phase = "pause" /\ t.attempt = 1 /\ t.req = r
      /\ t.doc = o.doc /\ t.rest = rest /\ t.clean = o.clean
  BY <1>3 DEF HasFields
<1> QED BY <1>4 DEF t

LEMMA UpsertAnsweredIsTame ==
  ASSUME TasksAreSound, NEW c \in Clients, UpsertAnswered(c)
  PROVE  TasksAreSound' /\ \A d \in Docs : Tame(d)
<1> DEFINE o == task[c]
<1>1. Busy(c) /\ BusyTask(o) /\ IsTask(o) /\ o.op = "upsert" /\ late' = late
  BY DEF UpsertAnswered, Busy, BusyTask, TasksAreSound
<1>2. /\ o.req.kind = "upsert" /\ BatchOf(o.req.new, o.doc)
      /\ \E S : o.rest \in Seq(S)
      /\ \A i \in DOMAIN o.rest : BatchOf(o.rest[i], o.doc)
  BY <1>1 DEF IsTask
<1>3. ASSUME NEW d \in Docs, ~Written(d) PROVE PointsOf(d)' \subseteq PointsOf(d)
  <2>1. ~Writes(o.req, d)
    BY <1>1, <1>3, OwnRequest DEF Written
  <2>2. points' = Merged(o.req.new)
    BY DEF UpsertAnswered
  <2> QED BY <1>2, <2>1, <2>2 DEF Writes, PointsOf, Merged
<1>4. /\ fate' = [d \in Docs |-> fate'[d]]
      /\ \A d \in Docs : fate'[d] = "gone" => fate[d] = "gone"
  <2>1. CASE UNCHANGED fate
    BY <2>1 DEF TasksAreSound
  <2>2. CASE fate' = [fate EXCEPT ![o.doc] = IF @ = "none" THEN "stored" ELSE @]
    BY <2>2 DEF TasksAreSound
  <2> QED BY <2>1, <2>2 DEF UpsertAnswered
<1>5. CASE o.rest = <<>>
  <2>1. PICK t : task' = [task EXCEPT ![c] = t] /\ ~BusyTask(t) /\ IsTask(t)
    BY <1>5, EndedIsOver DEF UpsertAnswered
  <2> QED BY <1>1, <1>3, <1>4, <2>1, TameWithPoints
<1>6. CASE o.rest # <<>>
  <2> DEFINE t == Following(o, Upsert(Head(o.rest)), Tail(o.rest))
  <2>1. task' = [task EXCEPT ![c] = t]
    BY <1>6 DEF UpsertAnswered, TasksAreSound, Following
  <2>f. /\ HasFields(t)
        /\ t.op = "upsert" /\ t.req = Upsert(Head(o.rest)) /\ t.doc = o.doc
        /\ t.rest = Tail(o.rest)
    BY <1>1, FollowingHasFields DEF IsTask
  <2>2. IsTask(t)
    <3>1. PICK S : o.rest \in Seq(S)
      BY <1>2
    <3>2. 1 \in DOMAIN o.rest /\ Head(o.rest) = o.rest[1]
      BY <1>6, <3>1
    <3>3. BatchOf(Head(o.rest), o.doc)
      BY <1>2, <3>2
    <3>4. Tail(o.rest) \in Seq(S)
      BY <1>6, <3>1
    <3>5. ASSUME NEW i \in DOMAIN Tail(o.rest) PROVE BatchOf(Tail(o.rest)[i], o.doc)
      <4>1. i + 1 \in DOMAIN o.rest /\ Tail(o.rest)[i] = o.rest[i + 1]
        BY <1>6, <3>1, <3>5
      <4> QED BY <1>2, <4>1
    <3>6. Upsert(Head(o.rest)).kind = "upsert" /\ Upsert(Head(o.rest)).new = Head(o.rest)
      BY DEF Upsert
    <3> HIDE DEF o, t
    <3> QED BY <2>f, <3>3, <3>4, <3>5, <3>6 DEF IsTask
  <2>3. t.req.kind = "upsert"
    BY <2>f DEF Upsert
  <2> HIDE DEF t
  <2> QED BY <1>1, <1>3, <1>4, <2>1, <2>f, <2>2, <2>3, TameWithPoints
<1> QED BY <1>5, <1>6

Narrowed(o, r, clean) == [o EXCEPT !.req = r, !.attempt = 1, !.clean = clean]

LEMMA NarrowedHasFields ==
  ASSUME NEW o, HasFields(o), NEW r, NEW clean \in BOOLEAN
  PROVE  LET t == Narrowed(o, r, clean)
         IN  /\ HasFields(t)
             /\ t.op = o.op /\ t.phase = o.phase /\ t.attempt = 1 /\ t.req = r
             /\ t.doc = o.doc /\ t.rest = o.rest /\ t.clean = clean
<1>1. ASSUME NEW n, NEW b, NEW t, t = [o EXCEPT !.req = r, !.attempt = n, !.clean = b]
      PROVE  t = [op |-> o.op, phase |-> o.phase, attempt |-> n, req |-> r, doc |-> o.doc,
                  rest |-> o.rest, clean |-> b]
  BY <1>1 DEF HasFields
<1> DEFINE t == Narrowed(o, r, clean)
<1>2. t = [o EXCEPT !.req = r, !.attempt = 1, !.clean = clean]
  BY DEF Narrowed
<1> HIDE DEF t
<1>3. t = [op |-> o.op, phase |-> o.phase, attempt |-> 1, req |-> r, doc |-> o.doc,
           rest |-> o.rest, clean |-> clean]
  BY <1>1, <1>2
<1>4. /\ HasFields(t)
      /\ t.op = o.op /\ t.phase = o.phase /\ t.attempt = 1 /\ t.req = r
      /\ t.doc = o.doc /\ t.rest = o.rest /\ t.clean = clean
  BY <1>3 DEF HasFields
<1> QED BY <1>4 DEF t

\* A search that found everything while nobody wrote is the only new clean deletion.
LEMMA SearchAnsweredIsTame ==
  ASSUME TasksAreSound, NEW c \in Clients, SearchAnswered(c)
  PROVE  TasksAreSound' /\ \A d \in Docs : Tame(d)
<1> DEFINE o == task[c]
<1>1. /\ Busy(c) /\ BusyTask(o) /\ IsTask(o) /\ o.op = "delete"
      /\ UNCHANGED <<points, late, fate>>
  BY DEF SearchAnswered, Busy, BusyTask, TasksAreSound, IsTask
<1>2. CASE task' = Ended(c, "returned")
  <2>1. PICK t : task' = [task EXCEPT ![c] = t] /\ ~BusyTask(t) /\ IsTask(t)
    BY <1>2, EndedIsOver
  <2> QED BY <1>1, <2>1, TameWithoutPoints
<1>3. ASSUME NEW ids, ids # {},
             task' = [task EXCEPT ![c].req = Delete(ids), ![c].attempt = 1,
                      ![c].clean = (ids = PointsOf(o.doc) /\ Quiet(o.doc))]
      PROVE  TasksAreSound' /\ \A d \in Docs : Tame(d)
  <2> DEFINE b == (ids = PointsOf(o.doc) /\ Quiet(o.doc))
             t == Narrowed(o, Delete(ids), b)
  <2>1. task' = [task EXCEPT ![c] = t]
    BY <1>3 DEF TasksAreSound, Narrowed
  <2>2. /\ HasFields(t)
        /\ t.op = "delete" /\ t.req = Delete(ids) /\ t.doc = o.doc /\ t.clean = b
    <3>1. b \in BOOLEAN
      OBVIOUS
    <3> HIDE DEF b
    <3> QED BY <1>1, <3>1, NarrowedHasFields DEF IsTask
  <2>3. IsTask(t)
    <3>1. Delete(ids).kind = "delete"
      BY DEF Delete
    <3> HIDE DEF t
    <3> QED BY <2>2, <3>1 DEF IsTask
  <2>4. fate' = [d \in Docs |-> fate'[d]]
    BY <1>1 DEF TasksAreSound
  <2> HIDE DEF t
  <2>5. /\ TasksAreSound'
        /\ task'[c] = t /\ \A x \in Clients \ {c} : task'[x] = task[x]
        /\ \A d : InHand(d)' => InHand(d)
    <3>1. t.op # "upsert"
      BY <2>2
    <3> QED BY <2>1, <2>3, <2>4, <3>1, TaskGoesOn
  <2>6. ASSUME NEW d \in Docs PROVE Tame(d)
    <3>1. Written(d)' => Written(d)
      BY <1>1, <2>5 DEF Written, OnItsWay
    <3>2. PointsOf(d)' = PointsOf(d) /\ fate'[d] = fate[d]
      BY <1>1 DEF PointsOf
    <3>3. ASSUME NEW x \in Clients \ {c}, Clean(x, d)'
          PROVE  Clean(x, d) /\ task'[x].req = task[x].req
      BY <2>5, <3>3 DEF Clean, Busy
    <3>4. ASSUME Clean(c, d)'
          PROVE  /\ PointsOf(d) \subseteq task'[c].req.ids /\ PointsOf(d) # {}
                 /\ ~Written(d)
      <4>1. t.clean /\ t.doc = d
        BY <2>5, <3>4 DEF Clean
      <4>2. b
        BY <2>2, <4>1, Zenon
      <4>3. ids = PointsOf(d) /\ Quiet(d)
        BY <2>2, <4>1, <4>2
      <4>4. t.req.ids = ids
        BY <2>2 DEF Delete
      <4> QED BY <1>3, <2>5, <4>3, <4>4 DEF Quiet, Written, InHand, OnItsWay
    <3> QED BY <1>1, <2>5, <3>1, <3>2, <3>3, <3>4 DEF Tame
  <2> QED BY <2>5, <2>6
<1>4. \E ids : \/ ids = {} /\ task' = Ended(c, "returned")
               \/ /\ ids # {}
                  /\ task' = [task EXCEPT ![c].req = Delete(ids), ![c].attempt = 1,
                              ![c].clean = (ids = PointsOf(o.doc) /\ Quiet(o.doc))]
  BY DEF SearchAnswered
<1> QED BY <1>2, <1>3, <1>4

LEMMA LateIsTame ==
  ASSUME TasksAreSound, LateSteps
  PROVE  TasksAreSound' /\ \A d \in Docs : Tame(d)
<1>1. PICK r \in late : LateEffect(r) \/ LateLoss(r)
  BY DEF LateSteps
<1>2. task' = task /\ late' = late \ {r}
  BY <1>1 DEF LateEffect, LateLoss
<1>3. /\ fate' = [d \in Docs |-> fate'[d]]
      /\ \A d \in Docs : fate'[d] = "gone" => fate[d] = "gone"
      /\ \A d : ~Writes(r, d) => PointsOf(d)' \subseteq PointsOf(d)
  <2>1. CASE Effect(r)
    BY <2>1, EffectOnOthers
  <2>2. CASE UNCHANGED <<points, fate>>
    BY <2>2 DEF TasksAreSound, PointsOf
  <2> QED BY <1>1, <2>1, <2>2 DEF LateEffect, LateLoss
<1>4. TasksAreSound'
  BY <1>2, <1>3 DEF TasksAreSound
<1>5. ASSUME NEW d \in Docs PROVE Tame(d)
  <2>1. Written(d)' => Written(d)
    BY <1>2 DEF Written, InHand, OnItsWay, Busy
  <2>2. ~Written(d) => PointsOf(d)' \subseteq PointsOf(d)
    BY <1>3 DEF Written, OnItsWay
  <2>3. ASSUME NEW x \in Clients, Clean(x, d)'
        PROVE  Clean(x, d) /\ task'[x].req = task[x].req
    BY <1>2, <2>3 DEF Clean, Busy
  <2> QED BY <1>3, <2>1, <2>2, <2>3 DEF Tame
<1> QED BY <1>4, <1>5

\* Nothing happens in the store.
LEMMA StutterIsTame ==
  ASSUME TasksAreSound, UNCHANGED storeVars
  PROVE  TasksAreSound' /\ \A d \in Docs : Tame(d)
<1>1. UNCHANGED <<points, task, late, fate>>
  BY DEF storeVars
<1>2. TasksAreSound'
  BY <1>1 DEF TasksAreSound
<1>3. ASSUME NEW d \in Docs PROVE Tame(d)
  <2>1. /\ Written(d)' = Written(d) /\ PointsOf(d)' = PointsOf(d)
        /\ \A x \in Clients : Clean(x, d)' = Clean(x, d)
    BY <1>1 DEF Written, InHand, OnItsWay, Busy, PointsOf, Clean
  <2> QED BY <1>1, <2>1 DEF Tame
<1> QED BY <1>2, <1>3

LEMMA SendingHasFields ==
  ASSUME NEW op, NEW r, NEW doc, NEW rest
  PROVE  LET t == Sending(op, r, doc, rest)
         IN  /\ HasFields(t)
             /\ t.op = op /\ t.phase = "waiting" /\ t.attempt = 1 /\ t.req = r
             /\ t.doc = doc /\ t.rest = rest /\ ~t.clean
<1> DEFINE t == Sending(op, r, doc, rest)
<1>1. t = [op |-> op, phase |-> "waiting", attempt |-> 1, req |-> r, doc |-> doc,
           rest |-> rest, clean |-> FALSE]
  BY DEF Sending
<1> HIDE DEF t
<1>2. /\ HasFields(t)
      /\ t.op = op /\ t.phase = "waiting" /\ t.attempt = 1 /\ t.req = r
      /\ t.doc = doc /\ t.rest = rest /\ ~t.clean
  BY <1>1 DEF HasFields
<1> QED BY <1>2 DEF t

LEMMA StartsAreTame ==
  ASSUME TasksAreSound, NEW c \in Clients,
         StartCreate(c) \/ StartDrop(c) \/ \E d : StartDelete(c, d)
  PROVE  TasksAreSound' /\ \A d \in Docs : Tame(d)
<1>1. UNCHANGED <<points, late, fate>>
  BY DEF StartCreate, StartDrop, StartDelete
<1>2. PICK t : /\ task' = [task EXCEPT ![c] = t] /\ HasFields(t) /\ ~t.clean
               /\ \/ t.op = "delete" /\ t.req.kind = "search"
                  \/ t.op = "create" /\ t.req.kind = "create"
                  \/ t.op = "drop" /\ t.req.kind = "drop"
  <2>1. CASE StartCreate(c)
    <3> DEFINE t == Sending("create", Create, "none", <<>>)
    <3>1. task' = [task EXCEPT ![c] = t]
      BY <2>1 DEF StartCreate
    <3>2. HasFields(t) /\ t.op = "create" /\ t.req = Create /\ ~t.clean
      BY SendingHasFields
    <3> HIDE DEF t
    <3>3. t.op = "create" /\ t.req.kind = "create"
      BY <3>2 DEF Create
    <3> QED BY <3>1, <3>2, <3>3, Zenon
  <2>2. CASE StartDrop(c)
    <3> DEFINE t == Sending("drop", Drop, "none", <<>>)
    <3>1. task' = [task EXCEPT ![c] = t]
      BY <2>2 DEF StartDrop
    <3>2. HasFields(t) /\ t.op = "drop" /\ t.req = Drop /\ ~t.clean
      BY SendingHasFields
    <3> HIDE DEF t
    <3>3. t.op = "drop" /\ t.req.kind = "drop"
      BY <3>2 DEF Drop
    <3> QED BY <3>1, <3>2, <3>3, Zenon
  <2>3. ASSUME NEW d, StartDelete(c, d)
        PROVE  \E t : /\ task' = [task EXCEPT ![c] = t] /\ HasFields(t) /\ ~t.clean
                      /\ t.op = "delete" /\ t.req.kind = "search"
    <3> DEFINE t == Sending("delete", Search(d), d, <<>>)
    <3>1. task' = [task EXCEPT ![c] = t]
      BY <2>3 DEF StartDelete
    <3>2. HasFields(t) /\ t.op = "delete" /\ t.req = Search(d) /\ ~t.clean
      BY SendingHasFields
    <3> HIDE DEF t
    <3>3. t.req.kind = "search"
      BY <3>2 DEF Search
    <3> QED BY <3>1, <3>2, <3>3, Zenon
  <2> QED BY <2>1, <2>2, <2>3
<1>3. IsTask(t) /\ t.op # "upsert" /\ t.req.kind # "delete"
  BY <1>2 DEF IsTask
<1>4. task' = [task EXCEPT ![c] = t]
  BY <1>2
<1>5. UNCHANGED <<points, fate>> /\ late' = late
  BY <1>1
<1> QED BY <1>3, <1>4, <1>5, TameWithoutPoints

-----------------------------------------------------------------------------
(* Upserts.                                                                 *)

LEMMA BatchesAreOwn ==
  ASSUME NEW d, NEW new, NEW S, NEW ids \in Seq(S),
         \A j \in DOMAIN ids : ids[j][1] = d
  PROVE  LET batches == IF ids = <<>> THEN <<Empty>> ELSE Batches(new, ids)
         IN  /\ \E T : batches \in Seq(T)
             /\ batches # <<>>
             /\ \A i \in DOMAIN batches : BatchOf(batches[i], d)
<1>1. CASE ids = <<>>
  <2>1. BatchOf(Empty, d)
    BY DEF Empty, BatchOf
  <2>2. /\ <<Empty>> \in Seq({Empty}) /\ <<Empty>> # <<>>
        /\ DOMAIN <<Empty>> = {1} /\ <<Empty>>[1] = Empty
    OBVIOUS
  <2> QED BY <1>1, <2>1, <2>2
<1>2. CASE ids # <<>>
  <2> DEFINE n == (Len(ids) + BatchSize - 1) \div BatchSize
             At(b) == {ids[i] : i \in {j \in DOMAIN ids : (j - 1) \div BatchSize = b - 1}}
             Batch(b) == [id \in At(b) |-> new[id]]
             batches == [b \in 1..n |-> Batch(b)]
  <2>1. batches = Batches(new, ids)
    BY DEF Batches
  <2>2. n \in Nat /\ n >= 1
    <3>1. Len(ids) \in Nat /\ Len(ids) >= 1
      BY <1>2
    <3> DEFINE x == Len(ids) + BatchSize - 1
    <3>2. x \in Nat /\ BatchSize \in Nat \ {0} /\ x >= BatchSize
      BY <3>1, BatchSizeAssumption
    <3>3. \A a \in Nat, b \in Nat \ {0} : a >= b => a \div b \in Nat /\ a \div b >= 1
      OBVIOUS
    <3> HIDE DEF x
    <3>4. x \div BatchSize \in Nat /\ x \div BatchSize >= 1
      BY <3>2, <3>3
    <3> QED BY <3>4 DEF x
  <2>3. \A b : BatchOf(Batch(b), d)
    BY DEF BatchOf
  <2> DEFINE T == {Batch(b) : b \in 1..n}
  <2> HIDE DEF n, Batch
  <2>t. batches \in [1..n -> T]
    BY Zenon
  <2>n. \A b \in 1..n : batches[b] = Batch(b)
    OBVIOUS
  <2> HIDE DEF T, batches
  <2>4. batches \in Seq(T) /\ Len(batches) = n
    BY <2>2, <2>t
  <2>5. \A i \in DOMAIN batches : BatchOf(batches[i], d)
    BY <2>3, <2>t, <2>n
  <2>6. batches # <<>>
    BY <2>2, <2>4
  <2> QED BY <1>2, <2>1, <2>4, <2>5, <2>6
<1> QED BY <1>1, <1>2

\* Only the document of a new upsert gets a new writer.
LEMMA UpsertStarts ==
  ASSUME TasksAreSound, NEW c \in Clients, NEW d, NEW new, NEW S, NEW ids \in Seq(S),
         \A j \in DOMAIN ids : ids[j][1] = d,
         StartUpsert(c, d, new, ids)
  PROVE  /\ TasksAreSound'
         /\ \A x \in Docs \ {d} : Tame(x)
         /\ UNCHANGED <<points, late, fate>>
         /\ \A x \in Clients : Clean(x, d)' => Clean(x, d)
<1> DEFINE batches == IF ids = <<>> THEN <<Empty>> ELSE Batches(new, ids)
<1>1. PICK T : /\ batches \in Seq(T) /\ batches # <<>>
               /\ \A i \in DOMAIN batches : BatchOf(batches[i], d)
  BY BatchesAreOwn
<1> DEFINE first == Upsert(Head(batches))
           rest == Tail(batches)
           t == Sending("upsert", first, d, rest)
<1>2. task' = [task EXCEPT ![c] = t] /\ UNCHANGED <<points, late, fate>>
  BY DEF StartUpsert
<1> HIDE DEF batches
<1> HIDE DEF first, rest
<1>3. /\ HasFields(t) /\ t.op = "upsert" /\ t.doc = d /\ t.req = first /\ t.rest = rest
  BY SendingHasFields
<1> HIDE DEF t
<1>4. t.req.kind = "upsert" /\ t.req.new = Head(batches)
  BY <1>3 DEF Upsert, first
<1>5. IsTask(t)
  <2>1. BatchOf(Head(batches), d)
    BY <1>1
  <2>2. Tail(batches) \in Seq(T)
    BY <1>1
  <2>3. ASSUME NEW i \in DOMAIN Tail(batches) PROVE BatchOf(Tail(batches)[i], d)
    <3>1. i + 1 \in DOMAIN batches /\ Tail(batches)[i] = batches[i + 1]
      BY <1>1, <2>3
    <3> QED BY <1>1, <3>1
  <2> QED BY <1>3, <1>4, <2>1, <2>2, <2>3 DEF IsTask, rest
<1>6. task'[c] = t /\ \A x \in Clients \ {c} : task'[x] = task[x]
  BY <1>2 DEF TasksAreSound
<1>7. TasksAreSound'
  <2>1. \A x \in Clients : IsTask(task'[x])
    BY <1>5, <1>6 DEF TasksAreSound
  <2>2. task' = [x \in Clients |-> task'[x]] /\ fate' = [x \in Docs |-> fate'[x]]
    BY <1>2 DEF TasksAreSound
  <2> QED BY <2>1, <2>2 DEF TasksAreSound
<1>8. ASSUME NEW x \in Clients, NEW e, Clean(x, e)'
      PROVE  Clean(x, e) /\ task'[x].req = task[x].req
  BY <1>4, <1>6, <1>8 DEF Clean, Busy
<1>9. ASSUME NEW e \in Docs \ {d} PROVE Tame(e)
  <2>1. InHand(e)' => InHand(e)
    BY <1>3, <1>6 DEF InHand, Busy
  <2>2. OnItsWay(e)' = OnItsWay(e) /\ PointsOf(e)' = PointsOf(e) /\ fate'[e] = fate[e]
    BY <1>2 DEF OnItsWay, PointsOf
  <2> QED BY <1>8, <2>1, <2>2 DEF Tame, Written
<1> QED BY <1>2, <1>7, <1>8, <1>9

-----------------------------------------------------------------------------
(* Ingestion: every document is written by one task, once.                  *)

Working(c, d) == emb[c].phase # "idle" /\ job[c].doc = d
FiniteChunks(source) == IsFiniteSet(DOMAIN ChunksOf(source.kind, source.text))

IsDirectory(j) ==
  /\ j = [kind |-> j.kind, doc |-> j.doc, left |-> j.left, count |-> j.count, docs |-> j.docs]
  /\ j.left \in Seq(Texts \cup {<<>>})

\* Vectors are made for the document of a job, whose id is in use.
JobsAreSound ==
  /\ emb = [c \in Ingesters |-> emb[c]]
  /\ job = [c \in Ingesters |-> job[c]]
  /\ \A c \in Ingesters : emb[c].phase # "idle" => Active(c) /\ job[c].doc \in DOMAIN sources
  /\ \A c \in Ingesters : job[c].kind = "policies" => IsDirectory(job[c])
  /\ DOMAIN sources \subseteq Docs
  /\ \A d \in DOMAIN sources : FiniteChunks(sources[d])

\* Nobody writes d, or ever will.
Silent(d) ==
  d \in DOMAIN sources /\ ~Written(d) /\ \A c \in Ingesters : ~Working(c, d)

\* The strengthening of GoneStaysGone, for one document.
WrittenOnce(d) ==
  /\ d \notin DOMAIN sources \/ (\E c \in Ingesters : Working(c, d)) =>
       ~Written(d) /\ PointsOf(d) = {}
  /\ \A c, x \in Ingesters : Working(c, d) /\ Working(x, d) => c = x
  /\ fate[d] = "gone" => Silent(d) /\ PointsOf(d) = {}
  /\ \A c \in Clients : Clean(c, d) => Silent(d) /\ PointsOf(d) \subseteq task[c].req.ids

IInv == TasksAreSound /\ JobsAreSound /\ \A d \in Docs : WrittenOnce(d)

LEMMA SilentStaysSilent ==
  ASSUME NEW d \in Docs, Silent(d), Tame(d),
         d \in DOMAIN sources => d \in DOMAIN sources',
         \A c \in Ingesters : Working(c, d)' => Working(c, d)
  PROVE  Silent(d)' /\ PointsOf(d)' \subseteq PointsOf(d)
BY DEF Silent, Tame

LEMMA TameKeepsWrittenOnce ==
  ASSUME NEW d \in Docs, WrittenOnce(d), Tame(d),
         d \in DOMAIN sources' <=> d \in DOMAIN sources,
         \A c \in Ingesters : Working(c, d)' => Working(c, d)
  PROVE  WrittenOnce(d)'
<1>1. (d \notin DOMAIN sources \/ (\E c \in Ingesters : Working(c, d)) =>
        ~Written(d) /\ PointsOf(d) = {})'
  BY DEF WrittenOnce, Tame
<1>2. (\A c, x \in Ingesters : Working(c, d) /\ Working(x, d) => c = x)'
  BY DEF WrittenOnce
<1>3. ASSUME fate'[d] = "gone" PROVE Silent(d)' /\ PointsOf(d)' = {}
  <2>1. CASE fate[d] = "gone"
    <3>1. Silent(d) /\ PointsOf(d) = {}
      BY <2>1 DEF WrittenOnce
    <3> QED BY <3>1, SilentStaysSilent
  <2>2. CASE fate[d] # "gone"
    <3>1. PICK c \in Clients : Clean(c, d) /\ PointsOf(d)' \subseteq PointsOf(d) \ task[c].req.ids
      BY <1>3, <2>2 DEF Tame
    <3>2. Silent(d) /\ PointsOf(d) \subseteq task[c].req.ids
      BY <3>1 DEF WrittenOnce
    <3> QED BY <3>1, <3>2, SilentStaysSilent
  <2> QED BY <2>1, <2>2
<1>4. ASSUME NEW c \in Clients, Clean(c, d)'
      PROVE  Silent(d)' /\ PointsOf(d)' \subseteq task'[c].req.ids
  <2>1. CASE Clean(c, d) /\ task'[c].req = task[c].req
    <3>1. Silent(d) /\ PointsOf(d) \subseteq task[c].req.ids
      BY <2>1 DEF WrittenOnce
    <3> QED BY <2>1, <3>1, SilentStaysSilent
  <2>2. CASE PointsOf(d) \subseteq task'[c].req.ids /\ PointsOf(d) # {} /\ ~Written(d)
    <3>1. Silent(d)
      BY <2>2 DEF WrittenOnce, Silent
    <3> QED BY <2>2, <3>1, SilentStaysSilent
  <2> QED BY <1>4, <2>1, <2>2 DEF Tame
<1> QED BY <1>1, <1>2, <1>3, <1>4 DEF WrittenOnce

\* Steps that begin no document.
LEMMA OldDocumentsKeepIInv ==
  ASSUME IInv, TasksAreSound', \A d \in Docs : Tame(d), UNCHANGED sources,
         emb' = [c \in Ingesters |-> emb'[c]],
         job' = [c \in Ingesters |-> job'[c]],
         \A c \in Ingesters : emb'[c].phase # "idle" =>
           emb[c].phase # "idle" /\ job'[c] = job[c],
         \A c \in Ingesters : job'[c].kind = "policies" => IsDirectory(job'[c])
  PROVE  IInv'
<1>1. JobsAreSound'
  BY DEF IInv, JobsAreSound, Active
<1>2. \A d \in Docs : WrittenOnce(d)'
  BY TameKeepsWrittenOnce DEF IInv, Working
<1> QED BY <1>1, <1>2 DEF IInv

\* Steps of the embedding service.
LEMMA EmbeddingGoesOn ==
  ASSUME JobsAreSound, NEW c \in Ingesters, EmbedSteps(c) \/ EmbedFaults(c)
  PROVE  /\ emb' = [x \in Ingesters |-> emb'[x]]
         /\ \A x \in Ingesters : emb'[x].phase # "idle" => emb[x].phase # "idle"
<1>1. \E v : emb' = [emb EXCEPT ![c] = v]
  BY DEF EmbedSteps, EmbedFaults, Lookup, LookupWithoutRedis, Found, ProviderAnswers,
         ProviderAnswersShort, Answer, ProviderFails, CacheNext, CacheNextWithoutRedis,
         CacheTo, CachingEnds
<1>2. emb[c].phase # "idle"
  BY DEF EmbedSteps, EmbedFaults, Lookup, LookupWithoutRedis, ProviderAnswers,
         ProviderAnswersShort, ProviderFails, CacheNext, CacheNextWithoutRedis,
         Caching, CachingEnds
<1> QED BY <1>1, <1>2 DEF JobsAreSound

LEMMA InitHasIInv ==
  ASSUME Init PROVE IInv
<1>1. TasksAreSound
  BY DEF Init, StoreInit, TasksAreSound, IsTask, BusyTask, Idle
<1>2. JobsAreSound
  BY ClientsAssumption DEF Init, EmbInit, EmbIdle, JobsAreSound, NoJob
<1>3. ASSUME NEW d \in Docs PROVE WrittenOnce(d)
  <2>1. /\ \A c \in Ingesters : ~Working(c, d)
        /\ fate[d] # "gone" /\ PointsOf(d) = {} /\ ~Written(d)
        /\ \A c \in Clients : ~Clean(c, d)
    BY ClientsAssumption DEF Init, EmbInit, EmbIdle, StoreInit, Idle, Empty, Working,
                             PointsOf, Written, InHand, OnItsWay, Clean, Busy
  <2> QED BY <2>1 DEF WrittenOnce
<1> QED BY <1>1, <1>2, <1>3 DEF IInv

LEMMA ChunksAreFinite ==
  ASSUME NEW kind, NEW text, HasText(kind, text)
  PROVE  IsFiniteSet(DOMAIN ChunksOf(kind, text))
<1>1. PICK S : ChunksOf(kind, text) \in Seq(S)
  BY ChunksAreWhole
<1>2. DOMAIN ChunksOf(kind, text) = 1..Len(ChunksOf(kind, text)) /\ Len(ChunksOf(kind, text)) \in Nat
  BY <1>1, LenProperties
<1> QED BY <1>2, FS_Interval

\* The points of a document have its id, and there are finitely many.
LEMMA PairedIsOwn ==
  ASSUME NEW d, NEW chunks, NEW vectors, IsFiniteSet(DOMAIN chunks)
  PROVE  LET ids == Paired(d, chunks, vectors).ids
         IN  (\E S : ids \in Seq(S)) /\ \A j \in DOMAIN ids : ids[j][1] = d
<1> DEFINE n == Cardinality(DOMAIN chunks \cap DOMAIN vectors)
           ids == [i \in 1..n |-> <<d, i - 1>>]
<1>1. Paired(d, chunks, vectors).ids = ids
  BY DEF Paired
<1>2. n \in Nat
  BY FS_Subset, FS_CardinalityType
<1> HIDE DEF n
<1>3. \A j \in DOMAIN ids : ids[j][1] = d
  OBVIOUS
<1>4. ids \in Seq({<<d, i - 1>> : i \in 1..n})
  BY <1>2
<1> HIDE DEF ids
<1> QED BY <1>1, <1>3, <1>4

LEMMA FreshIsUnused == ASSUME Unused # {} PROVE Fresh \in Docs /\ Fresh \notin DOMAIN sources
BY DEF Fresh, Unused

\* A document that is embedded is new.
LEMMA EmbedKeepsIInv ==
  ASSUME IInv, NEW c \in Ingesters, NEW d, NEW kind, NEW text, Embed(c, d, kind, text),
         HasText(kind, text),
         UNCHANGED storeVars,
         NEW j, job' = [job EXCEPT ![c] = j], j.doc = d, j # NoJob,
         j.kind = "policies" => IsDirectory(j)
  PROVE  IInv'
<1>1. d \in Docs /\ d \notin DOMAIN sources
  BY FreshIsUnused DEF Embed
<1>2. /\ DOMAIN sources' = DOMAIN sources \cup {d}
      /\ sources'[d] = [kind |-> kind, text |-> text]
      /\ \A x \in DOMAIN sources : sources'[x] = sources[x]
  BY <1>1 DEF Embed
<1>3. \E v : emb' = [emb EXCEPT ![c] = v]
  BY DEF Embed, StartEmbed
<1>4. /\ TasksAreSound'
      /\ \A x \in Docs : Tame(x)
  BY StutterIsTame DEF IInv
<1>5. /\ job'[c] = j /\ \A x \in Ingesters \ {c} : job'[x] = job[x] /\ emb'[x] = emb[x]
  BY <1>3 DEF IInv, JobsAreSound
<1>6. JobsAreSound'
  <2>1. /\ emb' = [x \in Ingesters |-> emb'[x]]
        /\ job' = [x \in Ingesters |-> job'[x]]
    BY <1>3 DEF IInv, JobsAreSound
  <2>2. FiniteChunks(sources'[d])
    BY <1>2, ChunksAreFinite DEF FiniteChunks
  <2>3. \A x \in DOMAIN sources' : FiniteChunks(sources'[x])
    BY <1>2, <2>2 DEF IInv, JobsAreSound
  <2>4. \A x \in Ingesters : emb'[x].phase # "idle" =>
          job'[x] # NoJob /\ job'[x].doc \in DOMAIN sources'
    BY <1>2, <1>5 DEF IInv, JobsAreSound, Active
  <2>5. \A x \in Ingesters : job'[x].kind = "policies" => IsDirectory(job'[x])
    BY <1>5 DEF IInv, JobsAreSound
  <2>6. DOMAIN sources' \subseteq Docs
    BY <1>1, <1>2 DEF IInv, JobsAreSound
  <2> QED BY <2>1, <2>3, <2>4, <2>5, <2>6 DEF JobsAreSound, Active
<1>7. ASSUME NEW x \in Docs, x # d PROVE WrittenOnce(x)'
  <2>1. x \in DOMAIN sources' <=> x \in DOMAIN sources
    BY <1>2, <1>7
  <2>2. \A y \in Ingesters : Working(y, x)' => Working(y, x)
    BY <1>5, <1>7 DEF Working
  <2> QED BY <1>4, <2>1, <2>2, TameKeepsWrittenOnce DEF IInv
<1>8. WrittenOnce(d)'
  <2>1. ~Written(d) /\ PointsOf(d) = {} /\ fate[d] # "gone" /\ \A x \in Clients : ~Clean(x, d)
    BY <1>1 DEF IInv, WrittenOnce, Silent
  <2>2. /\ ~Written(d)' /\ PointsOf(d)' = {} /\ fate'[d] # "gone"
        /\ \A x \in Clients : ~Clean(x, d)'
    BY <2>1 DEF storeVars, Written, InHand, OnItsWay, PointsOf, Clean, Busy
  <2>3. \A x \in Ingesters \ {c} : ~Working(x, d)'
    BY <1>1, <1>5 DEF IInv, JobsAreSound, Working
  <2> QED BY <2>2, <2>3 DEF WrittenOnce
<1> QED BY <1>4, <1>6, <1>7, <1>8 DEF IInv

\* A job goes on, or ends, and its vectors are gone or never were.
LEMMA JobChanges ==
  ASSUME IInv, TasksAreSound', \A d \in Docs : Tame(d), UNCHANGED sources,
         NEW c \in Ingesters, NEW j, job' = [job EXCEPT ![c] = j],
         j.kind = "policies" => IsDirectory(j),
         \/ emb' = [emb EXCEPT ![c] = EmbIdle]
         \/ emb' = emb /\ emb[c].phase = "idle"
  PROVE  IInv'
<1>1. /\ emb' = [x \in Ingesters |-> emb'[x]]
      /\ job' = [x \in Ingesters |-> job'[x]]
  BY DEF IInv, JobsAreSound
<1>2. \A x \in Ingesters : emb'[x].phase # "idle" =>
        emb[x].phase # "idle" /\ job'[x] = job[x]
  BY DEF IInv, JobsAreSound, EmbIdle
<1>3. \A x \in Ingesters : job'[x].kind = "policies" => IsDirectory(job'[x])
  BY DEF IInv, JobsAreSound
<1> QED BY <1>1, <1>2, <1>3, OldDocumentsKeepIInv

\* A document without an id of its own has no vectors.
LEMMA NoDocNoVectors ==
  ASSUME IInv, NEW c \in Ingesters, job[c] = NoJob \/ job[c].doc = NoDoc
  PROVE  emb[c].phase = "idle"
BY DocsAssumption DEF IInv, JobsAreSound, Active

LEMMA StartTextKeepsIInv ==
  ASSUME IInv, NEW c \in Ingesters, StartText(c)
  PROVE  IInv'
<1>1. PICK d \in Docs, kind \in {"text", "faqs"} :
        \E text \in IF kind = "faqs" THEN Faqs ELSE Texts :
          /\ Embed(c, d, kind, text)
          /\ job' = [job EXCEPT ![c] = [kind |-> kind, doc |-> d]]
  BY DEF StartText
<1>2. PICK text \in IF kind = "faqs" THEN Faqs ELSE Texts : Embed(c, d, kind, text)
  BY <1>1
<1> DEFINE j == [kind |-> kind, doc |-> d]
<1>3. job' = [job EXCEPT ![c] = j]
  BY <1>1
<1>4. j.doc = d /\ j.kind = kind /\ j # NoJob
  BY DEF NoJob
<1> HIDE DEF j
<1>5. UNCHANGED storeVars
  BY DEF StartText
<1>6. HasText(kind, text)
  BY DEF HasText
<1>7. j.kind = "policies" => IsDirectory(j)
  BY <1>4
<1> QED BY <1>2, <1>3, <1>4, <1>5, <1>6, <1>7, EmbedKeepsIInv

LEMMA DirectoryKeepsIInv ==
  ASSUME IInv, NEW c \in Ingesters, StartDirectory(c) \/ DirectoryEnds(c)
  PROVE  IInv'
<1>1. /\ UNCHANGED <<storeVars, sources>> /\ emb' = emb
      /\ TasksAreSound' /\ \A d \in Docs : Tame(d)
  BY StutterIsTame DEF IInv, StartDirectory, DirectoryEnds, embVars
<1>2. CASE StartDirectory(c)
  <2>n. PICK n \in 1..MaxFiles : \E files \in [1..n -> Texts \cup {<<>>}] :
          job' = [job EXCEPT ![c] = [kind |-> "policies", doc |-> NoDoc, left |-> files,
                                     count |-> 0, docs |-> {}]]
    BY <1>2 DEF StartDirectory
  <2>1. PICK files \in [1..n -> Texts \cup {<<>>}] :
          job' = [job EXCEPT ![c] = [kind |-> "policies", doc |-> NoDoc, left |-> files,
                                     count |-> 0, docs |-> {}]]
    BY <2>n
  <2> DEFINE j == [kind |-> "policies", doc |-> NoDoc, left |-> files, count |-> 0, docs |-> {}]
  <2>2. IsDirectory(j)
    BY MaxFilesAssumption DEF IsDirectory
  <2>3. emb[c].phase = "idle"
    BY <1>2, NoDocNoVectors DEF StartDirectory, Active
  <2>4. job' = [job EXCEPT ![c] = j]
    BY <2>1
  <2> HIDE DEF j
  <2> QED BY <1>1, <2>2, <2>3, <2>4, JobChanges
<1>3. CASE DirectoryEnds(c)
  <2>1. emb[c].phase = "idle" /\ job' = [job EXCEPT ![c] = NoJob]
    BY <1>3, NoDocNoVectors DEF DirectoryEnds
  <2>2. NoJob.kind # "policies"
    BY DEF NoJob
  <2> QED BY <1>1, <2>1, <2>2, JobChanges
<1> QED BY <1>2, <1>3

LEMMA NextFileKeepsIInv ==
  ASSUME IInv, NEW c \in Ingesters, NextFile(c)
  PROVE  IInv'
<1> DEFINE o == job[c]
           text == Head(o.left)
           left == Tail(o.left)
           j == [o EXCEPT !.left = left]
<1>1. o.kind = "policies" /\ IsDirectory(o) /\ o.doc = NoDoc /\ o.left # <<>>
  BY DEF NextFile, IInv, JobsAreSound
<1>2. \/ job' = [job EXCEPT ![c] = j] /\ UNCHANGED <<embVars, sources>>
      \/ \E d \in Docs :
           /\ Embed(c, d, "text", text)
           /\ job' = [job EXCEPT ![c] = [j EXCEPT !.doc = d, !.docs = @ \cup {d}]]
  BY DEF NextFile
<1>3. UNCHANGED storeVars
  BY DEF NextFile
<1> HIDE DEF o
<1>4. text \in Texts \cup {<<>>} /\ left \in Seq(Texts \cup {<<>>})
  BY <1>1 DEF IsDirectory
<1>5. j = [o EXCEPT !.left = left]
  OBVIOUS
<1> HIDE DEF text, left, j
<1>6. IsDirectory(j) /\ j.kind = "policies"
  BY <1>1, <1>4, <1>5 DEF IsDirectory
<1>7. CASE job' = [job EXCEPT ![c] = j] /\ UNCHANGED <<embVars, sources>>
  <2>1. emb' = emb /\ emb[c].phase = "idle"
    BY <1>1, <1>7, NoDocNoVectors DEF embVars, o
  <2>2. TasksAreSound' /\ \A d \in Docs : Tame(d)
    BY <1>3, StutterIsTame DEF IInv
  <2> QED BY <1>6, <1>7, <2>1, <2>2, JobChanges
<1>8. ASSUME NEW d \in Docs, Embed(c, d, "text", text),
             job' = [job EXCEPT ![c] = [j EXCEPT !.doc = d, !.docs = @ \cup {d}]]
      PROVE  IInv'
  <2> DEFINE docs == j.docs \cup {d}
             k == [j EXCEPT !.doc = d, !.docs = docs]
  <2>1. job' = [job EXCEPT ![c] = k]
    BY <1>8
  <2>2. k = [j EXCEPT !.doc = d, !.docs = docs]
    OBVIOUS
  <2> HIDE DEF docs, k
  <2>3. IsDirectory(k) /\ k.kind = "policies" /\ k.doc = d
    BY <1>6, <2>2 DEF IsDirectory
  <2>4. k # NoJob
    BY <2>3 DEF NoJob
  <2>5. HasText("text", text)
    BY <1>4 DEF HasText
  <2> QED BY <1>3, <1>8, <2>1, <2>3, <2>4, <2>5, EmbedKeepsIInv
<1> QED BY <1>2, <1>7, <1>8

\* An upsert of a document that nobody wrote, and nobody else will.
LEMMA UpsertKeepsWrittenOnce ==
  ASSUME IInv, NEW e \in Docs, e \notin DOMAIN sources \/ (\E c \in Ingesters : Working(c, e)),
         UNCHANGED <<points, late, fate>>,
         \A x \in Clients : Clean(x, e)' => Clean(x, e),
         e \in DOMAIN sources', \A x \in Ingesters : ~Working(x, e)'
  PROVE  WrittenOnce(e)'
<1>1. fate[e] # "gone" /\ \A x \in Clients : ~Clean(x, e)
  BY DEF IInv, WrittenOnce, Silent
<1> QED BY <1>1 DEF WrittenOnce

LEMMA StorePointsKeepsIInv ==
  ASSUME IInv, NEW c \in Ingesters, StorePoints(c)
  PROVE  IInv'
<1>0. PICK e : e = job[c].doc
  OBVIOUS
<1> DEFINE p == Paired(e, ChunksOf(sources[e].kind, sources[e].text), emb[c].vectors)
<1>1. /\ StartUpsert(c, e, p.new, p.ids)
      /\ emb' = [emb EXCEPT ![c] = EmbIdle] /\ UNCHANGED <<job, sources>>
      /\ emb[c].phase # "idle"
  BY <1>0 DEF StorePoints
<1>2. e \in DOMAIN sources /\ e \in Docs /\ Working(c, e) /\ FiniteChunks(sources[e])
  BY <1>0, <1>1 DEF IInv, JobsAreSound, Working
<1>3. (\E S : p.ids \in Seq(S)) /\ \A j \in DOMAIN p.ids : p.ids[j][1] = e
  BY <1>2, PairedIsOwn DEF FiniteChunks
<1> HIDE DEF p
<1>4. PICK new, ids : /\ (\E S : ids \in Seq(S)) /\ \A j \in DOMAIN ids : ids[j][1] = e
                      /\ StartUpsert(c, e, new, ids)
  BY <1>1, <1>3
<1>5. /\ TasksAreSound'
      /\ \A x \in Docs \ {e} : Tame(x)
      /\ UNCHANGED <<points, late, fate>>
      /\ \A x \in Clients : Clean(x, e)' => Clean(x, e)
  BY <1>4, ClientsAssumption, UpsertStarts DEF IInv
<1>6. /\ emb' = [x \in Ingesters |-> emb'[x]]
      /\ emb'[c].phase = "idle" /\ \A x \in Ingesters \ {c} : emb'[x] = emb[x]
  BY <1>1 DEF IInv, JobsAreSound, EmbIdle
<1>7. JobsAreSound'
  BY <1>1, <1>6 DEF IInv, JobsAreSound, Active
<1>8. \A x \in Ingesters, d \in Docs : Working(x, d)' => Working(x, d) /\ x # c
  BY <1>1, <1>6 DEF Working
<1>9. ASSUME NEW d \in Docs PROVE WrittenOnce(d)'
  <2>1. CASE d = e
    <3>1. \A x \in Ingesters : ~Working(x, e)'
      BY <1>2, <1>8 DEF IInv, WrittenOnce
    <3> QED BY <1>1, <1>2, <1>5, <2>1, <3>1, UpsertKeepsWrittenOnce
  <2>2. CASE d # e
    BY <1>1, <1>5, <1>8, <2>2, TameKeepsWrittenOnce DEF IInv
  <2> QED BY <2>1, <2>2
<1> QED BY <1>5, <1>7, <1>9 DEF IInv

LEMMA StartDocumentKeepsIInv ==
  ASSUME IInv, NEW c \in Ingesters, StartDocument(c)
  PROVE  IInv'
<1>e. PICK e : e = Fresh
  OBVIOUS
<1> DEFINE j == [kind |-> "document", doc |-> e]
<1>0. PICK text \in Texts \cup {<<>>} :
        /\ sources' = [x \in DOMAIN sources \cup {e} |->
                        IF x = e THEN [kind |-> "document", text |-> text] ELSE sources[x]]
        /\ job' = [job EXCEPT ![c] = j]
        /\ LET chunks == ChunksOf("document", text)
               p == Paired(e, chunks, [i \in DOMAIN chunks |-> Zero])
           IN  StartUpsert(c, e, p.new, p.ids)
  BY <1>e DEF StartDocument
<1>1. /\ Unused # {} /\ emb' = emb /\ job[c] = NoJob
  BY DEF StartDocument, embVars, Active
<1>2. e \in Docs /\ e \notin DOMAIN sources
  BY <1>e, <1>1, FreshIsUnused
<1>3. /\ DOMAIN sources' = DOMAIN sources \cup {e}
      /\ sources'[e] = [kind |-> "document", text |-> text]
      /\ \A x \in DOMAIN sources : sources'[x] = sources[x]
  BY <1>0, <1>2
<1> DEFINE chunks == ChunksOf("document", text)
           p == Paired(e, chunks, [i \in DOMAIN chunks |-> Zero])
<1>4. IsFiniteSet(DOMAIN chunks)
  BY ChunksAreFinite DEF HasText
<1>5. FiniteChunks(sources'[e])
  BY <1>3, <1>4 DEF FiniteChunks
<1>6. StartUpsert(c, e, p.new, p.ids)
  BY <1>0
<1> HIDE DEF chunks
<1>7. (\E S : p.ids \in Seq(S)) /\ \A i \in DOMAIN p.ids : p.ids[i][1] = e
  BY <1>4, PairedIsOwn
<1> HIDE DEF p
<1>p. PICK new, ids : /\ (\E S : ids \in Seq(S)) /\ \A i \in DOMAIN ids : ids[i][1] = e
                      /\ StartUpsert(c, e, new, ids)
  BY <1>6, <1>7
<1>8. /\ TasksAreSound'
      /\ \A x \in Docs \ {e} : Tame(x)
      /\ UNCHANGED <<points, late, fate>>
      /\ \A x \in Clients : Clean(x, e)' => Clean(x, e)
  BY <1>p, ClientsAssumption, UpsertStarts DEF IInv
<1>9. emb[c].phase = "idle"
  BY <1>1, NoDocNoVectors
<1>10. job'[c] = j /\ j.kind # "policies" /\ \A x \in Ingesters \ {c} : job'[x] = job[x]
  BY <1>0 DEF IInv, JobsAreSound
<1>11. JobsAreSound'
  <2>1. emb' = [x \in Ingesters |-> emb'[x]] /\ job' = [x \in Ingesters |-> job'[x]]
    BY <1>0, <1>1 DEF IInv, JobsAreSound
  <2>2. \A x \in Ingesters : emb'[x].phase # "idle" =>
          job'[x] # NoJob /\ job'[x].doc \in DOMAIN sources'
    BY <1>1, <1>3, <1>9, <1>10 DEF IInv, JobsAreSound, Active
  <2>3. \A x \in Ingesters : job'[x].kind = "policies" => IsDirectory(job'[x])
    BY <1>10 DEF IInv, JobsAreSound
  <2>4. DOMAIN sources' \subseteq Docs
    BY <1>2, <1>3 DEF IInv, JobsAreSound
  <2>5. \A d \in DOMAIN sources' : FiniteChunks(sources'[d])
    BY <1>3, <1>5 DEF IInv, JobsAreSound
  <2> QED BY <2>1, <2>2, <2>3, <2>4, <2>5 DEF JobsAreSound, Active
<1>12. \A x \in Ingesters : \A d : Working(x, d)' => Working(x, d)
  BY <1>1, <1>9, <1>10 DEF Working
<1>13. ASSUME NEW d \in Docs PROVE WrittenOnce(d)'
  <2>1. CASE d = e
    <3>1. \A x \in Ingesters : ~Working(x, e)
      BY <1>2 DEF IInv, JobsAreSound, Working
    <3> QED BY <1>2, <1>3, <1>8, <1>12, <2>1, <3>1, UpsertKeepsWrittenOnce
  <2>2. CASE d # e
    <3>1. d \in DOMAIN sources' <=> d \in DOMAIN sources
      BY <1>3, <2>2
    <3> QED BY <1>8, <1>12, <2>2, <3>1, TameKeepsWrittenOnce DEF IInv
  <2> QED BY <2>1, <2>2
<1> QED BY <1>8, <1>11, <1>13 DEF IInv

LEMMA DocumentEndsKeepsIInv ==
  ASSUME IInv, NEW c \in Ingesters, DocumentEnds(c)
  PROVE  IInv'
<1>1. /\ task' = [task EXCEPT ![c] = Idle] /\ UNCHANGED <<points, late, fate, sources>>
      /\ emb' = [emb EXCEPT ![c] = EmbIdle] /\ c \in Clients
  BY ClientsAssumption DEF DocumentEnds
<1>2. TasksAreSound' /\ \A d \in Docs : Tame(d)
  <2>1. ~BusyTask(Idle) /\ IsTask(Idle)
    BY DEF BusyTask, Idle, IsTask
  <2> QED BY <1>1, <2>1, TameWithoutPoints DEF IInv
<1> DEFINE o == job[c]
           After(n) == [o EXCEPT !.doc = NoDoc, !.count = n]
<1>n. PICK n : job' = [job EXCEPT ![c] = IF o.kind = "policies" THEN After(n) ELSE NoJob]
  BY DEF DocumentEnds
<1> DEFINE k == After(n)
           j == IF o.kind = "policies" THEN k ELSE NoJob
<1>3. job' = [job EXCEPT ![c] = j]
  BY <1>n
<1>4. o.kind = "policies" => IsDirectory(o)
  BY DEF IInv, JobsAreSound
<1>5. k = [o EXCEPT !.doc = NoDoc, !.count = n]
  OBVIOUS
<1> HIDE DEF o, k
<1>6. j.kind = "policies" => IsDirectory(j)
  BY <1>4, <1>5 DEF IsDirectory, NoJob
<1> HIDE DEF j
<1> QED BY <1>1, <1>2, <1>3, <1>6, JobChanges

LEMMA CancelJobKeepsIInv ==
  ASSUME IInv, NEW c \in Ingesters, CancelJob(c)
  PROVE  IInv'
<1>1. /\ job' = [job EXCEPT ![c] = NoJob] /\ emb' = [emb EXCEPT ![c] = EmbIdle]
      /\ UNCHANGED sources
  BY DEF CancelJob
<1>2. TasksAreSound' /\ \A d \in Docs : Tame(d)
  BY ClientsAssumption, FailuresAreTame, StutterIsTame DEF IInv, CancelJob
<1>3. NoJob.kind # "policies"
  BY DEF NoJob
<1> QED BY <1>1, <1>2, <1>3, JobChanges

LEMMA RestartKeepsIInv ==
  ASSUME IInv, Restart
  PROVE  IInv'
<1>1. TasksAreSound' /\ \A d \in Docs : Tame(d)
  BY RestartIsTame DEF IInv, Restart
<1>2. /\ emb' = [c \in Ingesters |-> EmbIdle] /\ job' = [c \in Ingesters |-> NoJob]
      /\ UNCHANGED sources
  BY ClientsAssumption DEF Restart, RestartEmbeddings
<1> QED BY <1>1, <1>2, OldDocumentsKeepIInv DEF EmbIdle, NoJob

\* Steps of the store, or of the embedding service, between those of the jobs.
LEMMA ServicesKeepIInv ==
  ASSUME IInv, TasksAreSound', \A d \in Docs : Tame(d), UNCHANGED <<job, sources>>,
         emb' = emb \/ \E c \in Ingesters : EmbedSteps(c) \/ EmbedFaults(c)
  PROVE  IInv'
<1>1. /\ emb' = [x \in Ingesters |-> emb'[x]]
      /\ \A x \in Ingesters : emb'[x].phase # "idle" => emb[x].phase # "idle"
  BY EmbeddingGoesOn DEF IInv, JobsAreSound
<1> QED BY <1>1, OldDocumentsKeepIInv DEF IInv, JobsAreSound

LEMMA ProgressIsTame ==
  ASSUME TasksAreSound, NEW c \in Clients, Progress(c)
  PROVE  TasksAreSound' /\ \A d \in Docs : Tame(d)
BY FailuresAreTame, UpsertAnsweredIsTame, SearchAnsweredIsTame, DeleteAnsweredIsTame,
   CollectionAnsweredIsTame DEF Progress

LEMMA FaultKeepsIInv ==
  ASSUME IInv, Fault
  PROVE  IInv'
<1>1. ASSUME NEW c \in Clients, Fail(c), UNCHANGED <<embVars, job, sources>> PROVE IInv'
  BY <1>1, FailuresAreTame, ServicesKeepIInv DEF IInv, embVars
<1>2. ASSUME NEW c \in Ingesters, EmbedFaults(c), UNCHANGED <<storeVars, job, sources>>
      PROVE  IInv'
  BY <1>2, StutterIsTame, ServicesKeepIInv DEF IInv
<1>3. CASE CacheSteps /\ UNCHANGED <<storeVars, job, sources>>
  <2>1. emb' = emb
    BY <1>3 DEF CacheSteps, Invalidate, ClearCache, RedisLoses
  <2> QED BY <1>3, <2>1, StutterIsTame, ServicesKeepIInv DEF IInv
<1>4. ASSUME NEW c \in Admins, CancelOperation(c), UNCHANGED <<embVars, job, sources>>
      PROVE  IInv'
  BY <1>4, ClientsAssumption, FailuresAreTame, ServicesKeepIInv DEF IInv, embVars
<1> QED BY <1>1, <1>2, <1>3, <1>4, CancelJobKeepsIInv, RestartKeepsIInv DEF Fault

LEMMA NextKeepsIInv ==
  ASSUME IInv, [Next]_vars
  PROVE  IInv'
<1>1. ASSUME NEW c \in Ingesters, EmbStep(c) PROVE IInv'
  BY <1>1, StutterIsTame, ServicesKeepIInv DEF IInv, EmbStep
<1>2. ASSUME NEW c \in Clients, StoreStep(c) PROVE IInv'
  BY <1>2, ProgressIsTame, ServicesKeepIInv DEF IInv, StoreStep, embVars
<1>3. ASSUME NEW c \in Admins, Administer(c) PROVE IInv'
  <2>1. /\ c \in Clients
        /\ \/ StartCreate(c)
           \/ StartDrop(c)
           \/ \E d : StartDelete(c, d)
        /\ UNCHANGED <<embVars, job, sources>>
    BY <1>3, ClientsAssumption DEF Administer
  <2> QED BY <2>1, StartsAreTame, ServicesKeepIInv DEF IInv, embVars
<1>4. CASE LateSteps /\ UNCHANGED <<embVars, job, sources, disturbances>>
  BY <1>4, LateIsTame, ServicesKeepIInv DEF IInv, embVars
<1>5. CASE UNCHANGED vars
  BY <1>5, StutterIsTame, ServicesKeepIInv DEF IInv, vars, embVars
<1>6. ASSUME NEW c \in Ingesters, JobStep(c) PROVE IInv'
  BY <1>1, <1>2, <1>6, ClientsAssumption, StorePointsKeepsIInv, DocumentEndsKeepsIInv,
     NextFileKeepsIInv, DirectoryKeepsIInv DEF JobStep
<1> QED BY <1>2, <1>3, <1>4, <1>5, <1>6, ClientsAssumption, FaultKeepsIInv,
           StartTextKeepsIInv, StartDocumentKeepsIInv, DirectoryKeepsIInv DEF Next

\* A document that delete_by_document() deleted as a whole while nobody was
\* writing it never comes back (vectorstore.py, ingest/__init__.py): ids are
\* never used twice, and only the upsert of a document writes its points.
THEOREM DeletedForGood == Spec => []GoneStaysGone
<1>1. Init => IInv
  BY InitHasIInv
<1>2. IInv /\ [Next]_vars => IInv'
  BY NextKeepsIInv
<1>3. IInv => GoneStaysGone
  BY DEF IInv, WrittenOnce, GoneStaysGone
<1> QED BY <1>1, <1>2, <1>3, PTL DEF Spec

-----------------------------------------------------------------------------
(* Operations come to an end.                                               *)

\* Attempts are counted, and the batches that follow are a sequence.
Tried(t) == BusyTask(t) => t.attempt \in 1..MaxAttempts /\ \E S : t.rest \in Seq(S)

\* What a step makes of the operation of a client.
StepOf(t, u) ==
  \/ u = t
  \/ ~BusyTask(u) /\ u.phase \in Phases
  \/ ~BusyTask(t) /\ BusyTask(u) /\ Tried(u)
  \/ t.phase = "waiting" /\ t.attempt # MaxAttempts
     /\ u = [t EXCEPT !.phase = "pause", !.attempt = t.attempt + 1]
  \/ t.phase = "pause" /\ u = [t EXCEPT !.phase = "waiting"]
  \/ t.phase = "waiting" /\ t.req.kind = "upsert" /\ t.rest # <<>>
     /\ u = Following(t, Upsert(Head(t.rest)), Tail(t.rest))
  \/ t.phase = "waiting" /\ t.req.kind = "search"
     /\ \E ids : \E clean \in BOOLEAN : u = Narrowed(t, Delete(ids), clean)

LEMMA AttemptHasFields ==
  ASSUME NEW o, HasFields(o), NEW phase, NEW n
  PROVE  LET t == [o EXCEPT !.phase = phase, !.attempt = n]
         IN  /\ t.op = o.op /\ t.phase = phase /\ t.attempt = n /\ t.req = o.req
             /\ t.doc = o.doc /\ t.rest = o.rest /\ t.clean = o.clean
BY DEF HasFields

\* A request less, whatever follows, is nearer to the end.
LEMMA FewerRequests ==
  ASSUME NEW m \in Nat \ {0}, NEW r \in Nat, NEW a \in 1..m, NEW p \in {0, 1}
  PROVE  2 * (m + 1) * r + 2 * (m - 1) + p < 2 * (m + 1) * (r + 1) + 2 * (m - a)
<1>1. PICK x \in Int : x = 2 * (m + 1) * r
  OBVIOUS
<1>2. 2 * (m + 1) * (r + 1) = x + 2 * (m + 1)
  BY <1>1
<1> QED BY <1>1, <1>2

LEMMA StepsComeNearer ==
  ASSUME NEW t, NEW u, IsTask(t), Tried(t), StepOf(t, u)
  PROVE  /\ Tried(u)
         /\ t.phase \in Phases => u.phase \in Phases
         /\ BusyTask(t) /\ BusyTask(u) => u = t \/ Remaining(u) < Remaining(t)
<1>0. {"waiting", "pause"} \subseteq Phases
  BY DEF Phases
<1>1. CASE \/ u = t \/ (~BusyTask(u) /\ u.phase \in Phases)
           \/ (~BusyTask(t) /\ BusyTask(u) /\ Tried(u))
  BY <1>0, <1>1 DEF Tried, BusyTask
<1>2. CASE BusyTask(t)
  <2>1. HasFields(t) /\ t.attempt \in 1..MaxAttempts
    BY <1>2 DEF IsTask, Tried
  <2>s. PICK S : t.rest \in Seq(S)
    BY <1>2 DEF Tried
  <2>m. PICK m \in Nat \ {0} : m = MaxAttempts
    BY MaxAttemptsAssumption
  <2>a. PICK a \in 1..m : a = t.attempt
    BY <2>1, <2>m
  <2>r. PICK r \in Nat : r = Len(t.rest)
    BY <2>s
  <2>2. CASE t.phase = "waiting" /\ t.attempt # MaxAttempts
             /\ u = [t EXCEPT !.phase = "pause", !.attempt = t.attempt + 1]
    <3>1. /\ u.phase = "pause" /\ u.attempt = a + 1 /\ u.req = t.req /\ u.rest = t.rest
      BY <2>1, <2>2, <2>a, AttemptHasFields
    <3>2. a + 1 \in 1..m
      BY <2>2, <2>a, <2>m
    <3>3. Tried(u)
      BY <2>m, <2>s, <3>1, <3>2 DEF Tried
    <3>4. PICK q \in Int : q = 2 * (m + 1) * (r + (IF t.req.kind = "search" THEN 1 ELSE 0))
      OBVIOUS
    <3>5. Remaining(t) = q + 2 * (m - a) + 0
      BY <2>2, <2>m, <2>a, <2>r, <3>4 DEF Remaining
    <3>6. Remaining(u) = q + 2 * (m - (a + 1)) + 1
      BY <2>m, <2>r, <3>1, <3>4 DEF Remaining
    <3>7. q + 2 * (m - (a + 1)) + 1 < q + 2 * (m - a) + 0
      OBVIOUS
    <3> QED BY <1>0, <3>1, <3>3, <3>5, <3>6, <3>7
  <2>3. CASE t.phase = "pause" /\ u = [t EXCEPT !.phase = "waiting"]
    <3>0. u = [t EXCEPT !.phase = "waiting", !.attempt = a]
      BY <2>1, <2>3, <2>a DEF HasFields
    <3>1. /\ u.phase = "waiting" /\ u.attempt = a /\ u.req = t.req /\ u.rest = t.rest
      BY <2>1, <3>0, AttemptHasFields
    <3>3. Tried(u)
      BY <2>m, <2>s, <3>1 DEF Tried
    <3>4. PICK q \in Int : q = 2 * (m + 1) * (r + (IF t.req.kind = "search" THEN 1 ELSE 0))
      OBVIOUS
    <3>5. Remaining(t) = q + 2 * (m - a) + 1
      BY <2>3, <2>m, <2>a, <2>r, <3>4 DEF Remaining
    <3>6. Remaining(u) = q + 2 * (m - a) + 0
      BY <2>m, <2>r, <3>1, <3>4 DEF Remaining
    <3>7. q + 2 * (m - a) + 0 < q + 2 * (m - a) + 1
      OBVIOUS
    <3> QED BY <1>0, <3>1, <3>3, <3>5, <3>6, <3>7
  <2>4. CASE t.phase = "waiting" /\ t.req.kind = "upsert" /\ t.rest # <<>>
             /\ u = Following(t, Upsert(Head(t.rest)), Tail(t.rest))
    <3>1. u.phase = "pause" /\ u.attempt = 1 /\ u.req = Upsert(Head(t.rest)) /\ u.rest = Tail(t.rest)
      BY <2>1, <2>4, FollowingHasFields
    <3>2. Tail(t.rest) \in Seq(S) /\ Len(Tail(t.rest)) = r - 1 /\ r - 1 \in Nat
      BY <2>4, <2>r, <2>s
    <3>k. u.req.kind = "upsert"
      BY <3>1 DEF Upsert
    <3>3. Tried(u)
      BY <2>m, <3>1, <3>2 DEF Tried
    <3>4. PICK l \in Nat : l = r - 1
      BY <3>2
    <3>5. Remaining(t) = 2 * (m + 1) * (l + 1) + 2 * (m - a)
      <4>1. Remaining(t) = 2 * (m + 1) * (r + 0) + 2 * (m - a) + 0
        BY <2>4, <2>m, <2>a, <2>r DEF Remaining
      <4> QED BY <3>4, <4>1
    <3>6. Remaining(u) = 2 * (m + 1) * l + 2 * (m - 1) + 1
      <4>1. Remaining(u) = 2 * (m + 1) * (l + 0) + 2 * (m - 1) + 1
        BY <2>m, <3>1, <3>2, <3>4, <3>k DEF Remaining
      <4> QED BY <4>1
    <3>7. 2 * (m + 1) * l + 2 * (m - 1) + 1 < 2 * (m + 1) * (l + 1) + 2 * (m - a)
      BY FewerRequests
    <3> QED BY <1>0, <3>1, <3>3, <3>5, <3>6, <3>7
  <2>5. CASE t.phase = "waiting" /\ t.req.kind = "search"
             /\ \E ids : \E clean \in BOOLEAN : u = Narrowed(t, Delete(ids), clean)
    <3>0. PICK ids : \E clean \in BOOLEAN : u = Narrowed(t, Delete(ids), clean)
      BY <2>5
    <3>p. PICK clean \in BOOLEAN : u = Narrowed(t, Delete(ids), clean)
      BY <3>0
    <3>1. u.phase = "waiting" /\ u.attempt = 1 /\ u.req = Delete(ids) /\ u.rest = t.rest
      BY <2>1, <2>5, <3>p, NarrowedHasFields
    <3>k. u.req.kind = "delete"
      BY <3>1 DEF Delete
    <3>3. Tried(u)
      BY <2>m, <2>s, <3>1 DEF Tried
    <3>5. Remaining(t) = 2 * (m + 1) * (r + 1) + 2 * (m - a)
      <4>1. Remaining(t) = 2 * (m + 1) * (r + 1) + 2 * (m - a) + 0
        BY <2>5, <2>m, <2>a, <2>r DEF Remaining
      <4> QED BY <4>1
    <3>6. Remaining(u) = 2 * (m + 1) * r + 2 * (m - 1) + 0
      <4>1. Remaining(u) = 2 * (m + 1) * (r + 0) + 2 * (m - 1) + 0
        BY <2>m, <2>r, <3>1, <3>k DEF Remaining
      <4> QED BY <4>1
    <3>7. 2 * (m + 1) * r + 2 * (m - 1) + 0 < 2 * (m + 1) * (r + 1) + 2 * (m - a)
      BY FewerRequests
    <3> QED BY <1>0, <3>1, <3>3, <3>5, <3>6, <3>7
  <2> QED BY <1>1, <1>2, <2>2, <2>3, <2>4, <2>5 DEF StepOf
<1>3. CASE ~BusyTask(t)
  <2>1. t.phase # "waiting" /\ t.phase # "pause"
    BY <1>3 DEF BusyTask
  <2> QED BY <1>1, <2>1 DEF StepOf
<1> QED BY <1>2, <1>3

LEMMA OneSteps ==
  ASSUME TasksAreSound, NEW c \in Clients, NEW t, task' = [task EXCEPT ![c] = t],
         StepOf(task[c], t)
  PROVE  \A x \in Clients : StepOf(task[x], task'[x])
<1>1. task'[c] = t /\ \A x \in Clients \ {c} : task'[x] = task[x]
  BY DEF TasksAreSound
<1>2. \A x \in Clients \ {c} : StepOf(task[x], task'[x])
  BY <1>1 DEF StepOf
<1> QED BY <1>1, <1>2

LEMMA EndSteps ==
  ASSUME TasksAreSound, NEW c \in Clients,
         \/ task' = Ended(c, "returned") \/ task' = Ended(c, "raised")
         \/ task' = [task EXCEPT ![c] = Idle]
  PROVE  \A x \in Clients : StepOf(task[x], task'[x])
<1>1. \E t : task' = [task EXCEPT ![c] = t] /\ ~BusyTask(t) /\ t.phase \in Phases
  <2>1. ~BusyTask(Idle) /\ Idle.phase \in Phases
    BY DEF BusyTask, Idle, Phases
  <2>2. CASE task' = [task EXCEPT ![c] = Idle]
    BY <2>1, <2>2
  <2>3. ASSUME NEW phase \in {"returned", "raised"}, task' = Ended(c, phase)
        PROVE  \E t : task' = [task EXCEPT ![c] = t] /\ ~BusyTask(t) /\ t.phase \in Phases
    <3>1. PICK o : o = task[c]
      OBVIOUS
    <3>2. PICK t : t = IF o.op = "upsert" THEN [op |-> o.op, phase |-> phase] ELSE Idle
      OBVIOUS
    <3>3. ~BusyTask(t) /\ t.phase \in Phases
      BY <2>1, <3>2 DEF BusyTask, Phases
    <3>4. task' = [task EXCEPT ![c] = t]
      BY <2>3, <3>1, <3>2 DEF Ended, TasksAreSound
    <3> QED BY <3>3, <3>4
  <2> QED BY <2>2, <2>3
<1>2. PICK t : task' = [task EXCEPT ![c] = t] /\ ~BusyTask(t) /\ t.phase \in Phases
  BY <1>1
<1>3. StepOf(task[c], t)
  BY <1>2 DEF StepOf
<1> QED BY <1>2, <1>3, OneSteps

LEMMA StartSteps ==
  ASSUME TasksAreSound, NEW c \in Clients, Free(c),
         NEW op, NEW r, NEW doc, NEW rest, \E S : rest \in Seq(S),
         task' = [task EXCEPT ![c] = Sending(op, r, doc, rest)]
  PROVE  \A x \in Clients : StepOf(task[x], task'[x])
<1> DEFINE t == Sending(op, r, doc, rest)
<1>1. t.phase = "waiting" /\ t.attempt = 1 /\ t.rest = rest
  BY SendingHasFields
<1>2. task' = [task EXCEPT ![c] = t]
  OBVIOUS
<1> HIDE DEF t
<1>3. BusyTask(t) /\ Tried(t)
  BY <1>1, MaxAttemptsAssumption DEF BusyTask, Tried
<1>4. ~BusyTask(task[c])
  BY DEF Free, Busy, BusyTask
<1>5. StepOf(task[c], t)
  BY <1>3, <1>4 DEF StepOf
<1> QED BY <1>2, <1>5, OneSteps

LEMMA StoreSteps ==
  ASSUME TasksAreSound, NEW c \in Clients,
         Progress(c) \/ Fail(c) \/ CancelOperation(c)
  PROVE  \A x \in Clients : StepOf(task[x], task'[x])
<1>1. ASSUME NEW existed \in BOOLEAN, task' = AfterError(c, existed), task[c].phase = "waiting"
      PROVE  \A x \in Clients : StepOf(task[x], task'[x])
  <2>1. CASE LastAttempt(c)
    <3>1. task' = Ended(c, "returned") \/ task' = Ended(c, "raised")
      BY <1>1, <2>1 DEF AfterError
    <3> QED BY <3>1, EndSteps
  <2>2. CASE ~LastAttempt(c)
    <3> DEFINE t == [task[c] EXCEPT !.phase = "pause", !.attempt = task[c].attempt + 1]
    <3>1. task' = [task EXCEPT ![c] = t]
      BY <1>1, <2>2 DEF AfterError, SentAgain, TasksAreSound
    <3>2. StepOf(task[c], t)
      BY <1>1, <2>2 DEF StepOf, LastAttempt
    <3> HIDE DEF t
    <3> QED BY <3>1, <3>2, OneSteps
  <2> QED BY <2>1, <2>2
<1>2. CASE Refuse(c)
  <2>1. (task[c].req.kind = "create") \in BOOLEAN
    OBVIOUS
  <2> QED BY <1>1, <1>2, <2>1 DEF Refuse
<1>3. CASE Fail(c)
  BY <1>1, <1>3 DEF Fail
<1>4. CASE Wake(c)
  <2> DEFINE t == [task[c] EXCEPT !.phase = "waiting"]
  <2>1. task' = [task EXCEPT ![c] = t]
    BY <1>4 DEF Wake, TasksAreSound
  <2>2. StepOf(task[c], t)
    BY <1>4 DEF StepOf, Wake
  <2> HIDE DEF t
  <2> QED BY <2>1, <2>2, OneSteps
<1>5. CASE CancelOperation(c)
  BY <1>5, EndSteps DEF CancelOperation
<1>6. CASE DeleteAnswered(c) \/ CollectionAnswered(c)
  BY <1>6, EndSteps DEF DeleteAnswered, CollectionAnswered
<1>7. CASE UpsertAnswered(c)
  <2>0. task[c].phase = "waiting" /\ IsTask(task[c]) /\ BusyTask(task[c]) /\ task[c].op = "upsert"
    BY <1>7 DEF UpsertAnswered, TasksAreSound, BusyTask
  <2>k. task[c].req.kind = "upsert"
    BY <2>0 DEF IsTask
  <2>1. CASE task[c].rest = <<>>
    <3>1. task' = Ended(c, "returned")
      BY <1>7, <2>1 DEF UpsertAnswered
    <3> QED BY <3>1, EndSteps
  <2>2. CASE task[c].rest # <<>>
    <3> DEFINE t == Following(task[c], Upsert(Head(task[c].rest)), Tail(task[c].rest))
    <3>1. task' = [task EXCEPT ![c] = t]
      BY <1>7, <2>2 DEF UpsertAnswered, TasksAreSound, Following
    <3>2. StepOf(task[c], t)
      BY <2>0, <2>2, <2>k DEF StepOf
    <3> HIDE DEF t
    <3> QED BY <3>1, <3>2, OneSteps
  <2> QED BY <2>1, <2>2
<1>8. CASE SearchAnswered(c)
  <2>1. PICK ids : \/ task' = Ended(c, "returned")
                   \/ task' = [task EXCEPT ![c].req = Delete(ids), ![c].attempt = 1,
                                ![c].clean = (ids = PointsOf(task[c].doc) /\ Quiet(task[c].doc))]
    BY <1>8 DEF SearchAnswered
  <2>2. CASE task' = Ended(c, "returned")
    BY <2>2, EndSteps
  <2>3. CASE task' = [task EXCEPT ![c].req = Delete(ids), ![c].attempt = 1,
                      ![c].clean = (ids = PointsOf(task[c].doc) /\ Quiet(task[c].doc))]
    <3> DEFINE b == (ids = PointsOf(task[c].doc) /\ Quiet(task[c].doc))
               t == Narrowed(task[c], Delete(ids), b)
    <3>1. task' = [task EXCEPT ![c] = t]
      BY <2>3 DEF TasksAreSound, Narrowed
    <3>2. b \in BOOLEAN
      OBVIOUS
    <3> HIDE DEF b
    <3>3. StepOf(task[c], t)
      BY <1>8, <3>2 DEF StepOf, SearchAnswered
    <3> HIDE DEF t
    <3> QED BY <3>1, <3>3, OneSteps
  <2> QED BY <2>1, <2>2, <2>3
<1> QED BY <1>2, <1>3, <1>4, <1>5, <1>6, <1>7, <1>8 DEF Progress

\* The upserts of the model: the points of one document, in a sequence.
LEMMA UpsertsAreOwn ==
  ASSUME IInv, NEW c \in Ingesters, StorePoints(c) \/ StartDocument(c)
  PROVE  \E d, new, ids : /\ (\E S : ids \in Seq(S)) /\ \A j \in DOMAIN ids : ids[j][1] = d
                          /\ StartUpsert(c, d, new, ids)
<1>1. CASE StorePoints(c)
  <2>0. PICK e : e = job[c].doc
    OBVIOUS
  <2> DEFINE p == Paired(e, ChunksOf(sources[e].kind, sources[e].text), emb[c].vectors)
  <2>1. StartUpsert(c, e, p.new, p.ids) /\ emb[c].phase # "idle"
    BY <1>1, <2>0 DEF StorePoints
  <2>2. FiniteChunks(sources[e])
    BY <2>0, <2>1 DEF IInv, JobsAreSound
  <2>3. (\E S : p.ids \in Seq(S)) /\ \A j \in DOMAIN p.ids : p.ids[j][1] = e
    BY <2>2, PairedIsOwn DEF FiniteChunks
  <2> HIDE DEF p
  <2> QED BY <2>1, <2>3
<1>2. CASE StartDocument(c)
  <2>e. PICK e : e = Fresh
    OBVIOUS
  <2>1. PICK text \in Texts \cup {<<>>} :
          LET chunks == ChunksOf("document", text)
              p == Paired(e, chunks, [i \in DOMAIN chunks |-> Zero])
          IN  StartUpsert(c, e, p.new, p.ids)
    BY <1>2, <2>e DEF StartDocument
  <2> DEFINE chunks == ChunksOf("document", text)
             p == Paired(e, chunks, [i \in DOMAIN chunks |-> Zero])
  <2>2. IsFiniteSet(DOMAIN chunks)
    BY ChunksAreFinite DEF HasText
  <2>3. StartUpsert(c, e, p.new, p.ids)
    BY <2>1
  <2> HIDE DEF chunks
  <2>4. (\E S : p.ids \in Seq(S)) /\ \A i \in DOMAIN p.ids : p.ids[i][1] = e
    BY <2>2, PairedIsOwn
  <2> HIDE DEF p
  <2> QED BY <2>3, <2>4
<1> QED BY <1>1, <1>2

LEMMA UpsertSteps ==
  ASSUME TasksAreSound, NEW c \in Clients, NEW d, NEW new, NEW ids, \E S : ids \in Seq(S),
         \A j \in DOMAIN ids : ids[j][1] = d, StartUpsert(c, d, new, ids)
  PROVE  \A x \in Clients : StepOf(task[x], task'[x])
<1> DEFINE batches == IF ids = <<>> THEN <<Empty>> ELSE Batches(new, ids)
<1>1. PICK T : batches \in Seq(T) /\ batches # <<>>
  BY BatchesAreOwn
<1>2. Free(c) /\ task' = [task EXCEPT ![c] =
                 Sending("upsert", Upsert(Head(batches)), d, Tail(batches))]
  BY DEF StartUpsert
<1> HIDE DEF batches
<1>3. Tail(batches) \in Seq(T)
  BY <1>1
<1> QED BY <1>2, <1>3, StartSteps

LEMMA NextSteps ==
  ASSUME IInv, [Next]_vars
  PROVE  \A x \in Clients : StepOf(task[x], task'[x])
<1>s. TasksAreSound
  BY DEF IInv
<1>0. task' = task => \A x \in Clients : StepOf(task[x], task'[x])
  BY DEF StepOf
<1>1. ASSUME NEW c \in Ingesters, JobStep(c) PROVE \A x \in Clients : StepOf(task[x], task'[x])
  <2>1. CASE EmbStep(c)
    BY <1>0, <2>1 DEF EmbStep, storeVars
  <2>2. CASE StoreStep(c)
    BY <1>s, <2>2, ClientsAssumption, StoreSteps DEF StoreStep
  <2>3. CASE StorePoints(c)
    BY <1>s, <2>3, ClientsAssumption, UpsertsAreOwn, UpsertSteps
  <2>4. CASE DocumentEnds(c)
    BY <1>s, <2>4, ClientsAssumption, EndSteps DEF DocumentEnds
  <2>5. CASE NextFile(c) \/ DirectoryEnds(c)
    BY <1>0, <2>5 DEF NextFile, DirectoryEnds, storeVars
  <2> QED BY <1>1, <2>1, <2>2, <2>3, <2>4, <2>5 DEF JobStep
<1>2. ASSUME NEW c \in Ingesters, StartText(c) \/ StartDocument(c) \/ StartDirectory(c)
      PROVE  \A x \in Clients : StepOf(task[x], task'[x])
  <2>1. CASE StartText(c) \/ StartDirectory(c)
    BY <1>0, <2>1 DEF StartText, StartDirectory, storeVars
  <2>2. CASE StartDocument(c)
    BY <1>s, <2>2, ClientsAssumption, UpsertsAreOwn, UpsertSteps, ZenonT(60)
  <2> QED BY <1>2, <2>1, <2>2
<1>3. ASSUME NEW c \in Admins, Administer(c) \/ StoreStep(c)
      PROVE  \A x \in Clients : StepOf(task[x], task'[x])
  <2>0. c \in Clients /\ <<>> \in Seq({})
    BY ClientsAssumption
  <2>1. CASE StoreStep(c)
    BY <1>s, <2>0, <2>1, StoreSteps DEF StoreStep
  <2>2. CASE Administer(c)
    <3>1. CASE StartCreate(c) \/ StartDrop(c)
      BY <1>s, <2>0, <3>1, StartSteps DEF StartCreate, StartDrop
    <3>2. ASSUME NEW d, StartDelete(c, d) PROVE \A x \in Clients : StepOf(task[x], task'[x])
      BY <1>s, <2>0, <3>2, StartSteps DEF StartDelete
    <3> QED BY <2>2, <3>1, <3>2 DEF Administer
  <2> QED BY <1>3, <2>1, <2>2
<1>4. CASE LateSteps /\ UNCHANGED <<embVars, job, sources, disturbances>>
  BY <1>0, <1>4 DEF LateSteps, LateEffect, LateLoss
<1>5. CASE Fault
  <2>1. ASSUME NEW c \in Clients, Fail(c) PROVE \A x \in Clients : StepOf(task[x], task'[x])
    BY <1>s, <2>1, StoreSteps
  <2>2. CASE UNCHANGED storeVars
    BY <1>0, <2>2 DEF storeVars
  <2>3. ASSUME NEW c \in Ingesters, CancelJob(c) PROVE \A x \in Clients : StepOf(task[x], task'[x])
    <3>1. CASE CancelOperation(c)
      BY <1>s, <3>1, ClientsAssumption, StoreSteps
    <3> QED BY <2>2, <2>3, <3>1 DEF CancelJob
  <2>4. ASSUME NEW c \in Admins, CancelOperation(c)
        PROVE  \A x \in Clients : StepOf(task[x], task'[x])
    BY <1>s, <2>4, ClientsAssumption, StoreSteps
  <2>5. CASE Restart
    <3>1. \A x \in Clients : ~BusyTask(task'[x]) /\ task'[x].phase \in Phases
      BY <2>5 DEF Restart, RestartStore, BusyTask, Idle, Phases
    <3> QED BY <3>1 DEF StepOf
  <2> QED BY <1>5, <2>1, <2>2, <2>3, <2>4, <2>5 DEF Fault
<1>6. CASE UNCHANGED vars
  BY <1>0, <1>6 DEF vars, storeVars
<1> QED BY <1>1, <1>2, <1>3, <1>4, <1>5, <1>6 DEF Next

\* No operation on the store can go on for ever (_run_with_retry, upsert,
\* delete_by_document): every answer, error and pause of one that is not over
\* brings it nearer to its end.
THEOREM RetriesEnd == Spec => RetriesRunOut
<1> DEFINE Tries == \A c \in Clients : Tried(task[c])
           Nearer == \A c \in Clients : Busy(c) /\ task'[c].phase \in {"waiting", "pause"} =>
                       task'[c] = task[c] \/ Remaining(task'[c]) < Remaining(task[c])
<1>1. Init => IInv /\ Tries
  <2>1. Init => Tries
    BY DEF Init, StoreInit, Tried, BusyTask, Idle
  <2> QED BY <2>1, InitHasIInv
<1>2. ASSUME IInv, Tries, [Next]_vars PROVE IInv' /\ Tries' /\ Nearer
  <2>1. IInv'
    BY <1>2, NextKeepsIInv
  <2>2. ASSUME NEW c \in Clients
        PROVE  /\ Tried(task'[c])
               /\ BusyTask(task[c]) /\ BusyTask(task'[c]) =>
                    task'[c] = task[c] \/ Remaining(task'[c]) < Remaining(task[c])
    <3>1. StepOf(task[c], task'[c]) /\ Tried(task[c]) /\ IsTask(task[c])
      BY <1>2, NextSteps DEF IInv, TasksAreSound
    <3> QED BY <3>1, StepsComeNearer
  <2> QED BY <2>1, <2>2 DEF Busy, BusyTask
<1>3. IInv /\ Tries /\ [Next]_vars => IInv' /\ Tries'
  BY <1>2
<1>4. IInv /\ Tries /\ [Next]_vars => [Nearer]_vars
  BY <1>2
<1> HIDE DEF Tries, Nearer
<1>5. Spec => [][Nearer]_vars
  BY <1>1, <1>3, <1>4, PTL DEF Spec
<1> QED BY <1>5 DEF RetriesRunOut, Nearer

-----------------------------------------------------------------------------
(* The embedding service: vectors stay with their texts.                    *)

IsSeq(s) == \E S : s \in Seq(S)

LEMMA SeqHasLength ==
  ASSUME NEW s, IsSeq(s)
  PROVE  Len(s) \in Nat /\ DOMAIN s = 1..Len(s) /\ s = [i \in 1..Len(s) |-> s[i]]
BY DEF IsSeq

LEMMA SeqFromFunction ==
  ASSUME NEW s, NEW n \in Nat, s = [i \in 1..n |-> s[i]]
  PROVE  IsSeq(s) /\ Len(s) = n /\ DOMAIN s = 1..n
<1>1. s \in [1..n -> {s[i] : i \in 1..n}]
  OBVIOUS
<1>2. s \in Seq({s[i] : i \in 1..n}) /\ Len(s) = n
  BY <1>1
<1> QED BY <1>2 DEF IsSeq

\* Which of the texts were not found.
LEMMA MissingLists ==
  ASSUME NEW found, IsSeq(found)
  PROVE  LET missing == Missing(found)
         IN  /\ \E n \in Nat : DOMAIN missing = 1..n
             /\ IsSeq(missing)
             /\ \A j \in DOMAIN missing : missing[j] \in DOMAIN found /\ found[missing[j]] = None
             /\ \A i \in DOMAIN found : found[i] = None => \E j \in DOMAIN missing : missing[j] = i
             /\ \A j, k \in DOMAIN missing : missing[j] = missing[k] => j = k
<1>1. PICK n \in Nat : DOMAIN found = 1..n
  BY SeqHasLength
<1> DEFINE S == {i \in DOMAIN found : found[i] = None}
<1>2. S \in SUBSET (1..n)
  BY <1>1
<1>3. Missing(found) = Ascending(S)
  BY DEF Missing
<1>4. \A i \in S : i \in DOMAIN found /\ found[i] = None
  OBVIOUS
<1>5. \A i \in DOMAIN found : found[i] = None => i \in S
  OBVIOUS
<1> HIDE DEF S
<1>6. /\ Cardinality(S) \in Nat
      /\ Ascending(S) \in [1..Cardinality(S) -> S]
      /\ \A i \in S : \E j \in 1..Cardinality(S) : Ascending(S)[j] = i
      /\ \A j, k \in 1..Cardinality(S) : Ascending(S)[j] = Ascending(S)[k] => j = k
  BY <1>2, AscendingLists
<1>7. PICK m \in Nat : m = Cardinality(S)
  BY <1>6
<1>8. PICK a : a = Ascending(S)
  OBVIOUS
<1>9. /\ a \in [1..m -> S]
      /\ \A i \in S : \E j \in 1..m : a[j] = i
      /\ \A j, k \in 1..m : a[j] = a[k] => j = k
  BY <1>6, <1>7, <1>8
<1>10. IsSeq(a) /\ DOMAIN a = 1..m
  <2>1. a \in Seq(S)
    BY <1>9
  <2> QED BY <1>9, <2>1 DEF IsSeq
<1> QED BY <1>3, <1>4, <1>5, <1>8, <1>9, <1>10

\* One vector for each of the texts, made of it.
VectorsFor(vectors, texts) ==
  /\ vectors = [i \in DOMAIN texts |-> vectors[i]]
  /\ \A i \in DOMAIN texts : vectors[i] # None /\ vectors[i].of = texts[i]

\* What the look-ups found: a vector of the text, or nothing.
FoundFor(found, texts) ==
  /\ IsSeq(found)
  /\ \A i \in DOMAIN found : found[i] = None \/ found[i].of = texts[i]

\* What a provider has answered so far.
AnsweredFor(got, asked, by) ==
  /\ IsSeq(got) /\ Len(got) <= Len(asked)
  /\ \A j \in DOMAIN got : got[j] # None /\ got[j].of = asked[j] /\ got[j].by = by

AskedOf(texts, found) == [j \in DOMAIN Missing(found) |-> texts[Missing(found)[j]]]

LEMMA AskedIsSeq ==
  ASSUME NEW texts, NEW found, IsSeq(found)
  PROVE  /\ IsSeq(AskedOf(texts, found)) /\ DOMAIN AskedOf(texts, found) = DOMAIN Missing(found)
         /\ \A j \in DOMAIN Missing(found) : AskedOf(texts, found)[j] = texts[Missing(found)[j]]
         /\ AskedOf(texts, found) = <<>> <=> Missing(found) = <<>>
<1>1. PICK missing : missing = Missing(found)
  OBVIOUS
<1>2. PICK n \in Nat : DOMAIN missing = 1..n /\ IsSeq(missing)
  BY <1>1, MissingLists
<1>3. PICK asked : asked = AskedOf(texts, found)
  OBVIOUS
<1>4. asked = [j \in 1..n |-> texts[missing[j]]]
  BY <1>1, <1>2, <1>3 DEF AskedOf
<1>5. asked = [j \in 1..n |-> asked[j]]
  BY <1>4
<1>6. IsSeq(asked) /\ Len(asked) = n /\ DOMAIN asked = 1..n
  BY <1>5, SeqFromFunction
<1>7. Len(missing) = n
  BY <1>2, SeqHasLength
<1>8. asked = <<>> <=> missing = <<>>
  BY <1>2, <1>6, <1>7 DEF IsSeq
<1> QED BY <1>1, <1>2, <1>3, <1>4, <1>6, <1>8

\* Nothing is missing: the look-ups found every vector.
LEMMA FoundAll ==
  ASSUME NEW texts, NEW found, FoundFor(found, texts), DOMAIN found = DOMAIN texts,
         Missing(found) = <<>>
  PROVE  VectorsFor(found, texts)
<1>1. \A i \in DOMAIN found : found[i] # None
  BY MissingLists DEF FoundFor
<1>2. found = [i \in DOMAIN texts |-> found[i]]
  BY SeqHasLength DEF FoundFor
<1> QED BY <1>1, <1>2 DEF FoundFor, VectorsFor

\* All missing ones were answered: the vectors are complete, and in place.
LEMMA FilledIsFull ==
  ASSUME NEW texts, NEW found, NEW got, NEW by,
         FoundFor(found, texts), DOMAIN found = DOMAIN texts,
         AnsweredFor(got, AskedOf(texts, found), by), Len(got) = Len(AskedOf(texts, found))
  PROVE  VectorsFor(Filled(found, got), texts)
<1>1. PICK missing : missing = Missing(found)
  OBVIOUS
<1>2. /\ \A j \in DOMAIN missing : missing[j] \in DOMAIN found /\ found[missing[j]] = None
      /\ \A i \in DOMAIN found : found[i] = None => \E j \in DOMAIN missing : missing[j] = i
      /\ \A j, k \in DOMAIN missing : missing[j] = missing[k] => j = k
  BY <1>1, MissingLists DEF FoundFor
<1>3. PICK asked : asked = AskedOf(texts, found)
  OBVIOUS
<1>4. /\ IsSeq(asked) /\ DOMAIN asked = DOMAIN missing
      /\ \A j \in DOMAIN missing : asked[j] = texts[missing[j]]
  BY <1>1, <1>3, AskedIsSeq DEF FoundFor
<1>5. DOMAIN got = DOMAIN missing
  BY <1>3, <1>4, SeqHasLength DEF AnsweredFor
<1>6. \A j \in DOMAIN missing : got[j] # None /\ got[j].of = texts[missing[j]]
  BY <1>3, <1>4, <1>5 DEF AnsweredFor
<1> DEFINE item(i) == IF \E j \in DOMAIN missing \cap DOMAIN got : missing[j] = i
                      THEN got[CHOOSE j \in DOMAIN missing : missing[j] = i] ELSE found[i]
<1>7. Filled(found, got) = [i \in DOMAIN texts |-> item(i)]
  BY <1>1 DEF Filled
<1>8. ASSUME NEW i \in DOMAIN texts PROVE item(i) # None /\ item(i).of = texts[i]
  <2>1. CASE \E j \in DOMAIN missing : missing[j] = i
    <3>1. PICK j \in DOMAIN missing : missing[j] = i
      BY <2>1
    <3>2. (CHOOSE k \in DOMAIN missing : missing[k] = i) = j
      BY <1>2, <3>1
    <3>3. item(i) = got[j]
      BY <1>5, <2>1, <3>2
    <3> QED BY <1>6, <3>1, <3>3
  <2>2. CASE ~\E j \in DOMAIN missing : missing[j] = i
    <3>1. item(i) = found[i] /\ found[i] # None
      BY <1>2, <2>2
    <3> QED BY <3>1 DEF FoundFor
  <2> QED BY <2>1, <2>2
<1>9. PICK vectors : vectors = Filled(found, got)
  OBVIOUS
<1> HIDE DEF item
<1>10. VectorsFor(vectors, texts)
  BY <1>7, <1>8, <1>9 DEF VectorsFor
<1> QED BY <1>9, <1>10

\* Where every vector is there, none is left out.
LEMMA PresentIsAll ==
  ASSUME NEW texts, IsSeq(texts), NEW vectors, VectorsFor(vectors, texts)
  PROVE  Present(vectors) = vectors
<1>1. PICK n \in Nat : DOMAIN texts = 1..n
  BY SeqHasLength
<1>2. vectors = [i \in 1..n |-> vectors[i]] /\ \A i \in 1..n : vectors[i] # None
  BY <1>1 DEF VectorsFor
<1>3. DOMAIN vectors = 1..n
  BY <1>2
<1>4. {i \in DOMAIN vectors : vectors[i] # None} = 1..n
  BY <1>2, <1>3
<1>5. Ascending({i \in DOMAIN vectors : vectors[i] # None}) = [j \in 1..n |-> j]
  BY <1>4, AscendingAll
<1>6. Present(vectors) = [j \in 1..n |-> vectors[j]]
  <2> DEFINE kept == [j \in 1..n |-> j]
  <2>1. Present(vectors) = [j \in DOMAIN kept |-> vectors[kept[j]]]
    BY <1>5 DEF Present
  <2>2. DOMAIN kept = 1..n /\ \A j \in 1..n : kept[j] = j
    OBVIOUS
  <2> HIDE DEF kept
  <2>3. [j \in DOMAIN kept |-> vectors[kept[j]]] = [j \in 1..n |-> vectors[j]]
    BY <2>2
  <2> QED BY <2>1, <2>3
<1> QED BY <1>2, <1>6

LEMMA VectorIsSomething ==
  ASSUME NEW text
  PROVE  /\ VectorOf(text) # None
         /\ VectorOf(text).of = text /\ VectorOf(text).by = ProviderName(settings)
<1>1. DOMAIN VectorOf(text) = {"of", "by", "model"} /\ DOMAIN None = {"of"}
  BY DEF VectorOf, None
<1>2. "by" \notin {"of"}
  OBVIOUS
<1>3. VectorOf(text) # None
  BY <1>1, <1>2
<1> QED BY <1>3 DEF VectorOf

\* The texts of a request are the next ones of those asked for.
LEMMA RequestIs ==
  ASSUME NEW e, NEW asked, IsSeq(asked), Asked(e) = asked, e.sent \in Nat, e.sent < Len(asked)
  PROVE  \E l \in Nat \ {0} :
           /\ e.sent + l <= Len(asked)
           /\ IsSeq(Request(e)) /\ Len(Request(e)) = l /\ DOMAIN Request(e) = 1..l
           /\ \A i \in 1..l : Request(e)[i] = asked[e.sent + i]
<1>1. PICK S : asked \in Seq(S)
  BY DEF IsSeq
<1>2. PICK s \in Nat, m \in Nat, b \in Nat \ {0} : s = e.sent /\ m = Len(asked) /\ b = EmbedBatch /\ s < m
  BY <1>1, EmbedBatchAssumption
<1>3. PICK x \in Nat : x = (IF s + b < m THEN s + b ELSE m)
  OBVIOUS
<1>4. x > s /\ x <= m
  BY <1>2, <1>3
<1>5. Request(e) = SubSeq(asked, s + 1, x)
  BY <1>2, <1>3 DEF Request
<1>6. PICK r : r = SubSeq(asked, s + 1, x)
  OBVIOUS
<1>7. r \in Seq(S) /\ Len(r) = x - s /\ \A i \in 1..(x - s) : r[i] = asked[s + i]
  <2>1. \A i \in (s + 1)..x : asked[i] \in S
    BY <1>1, <1>2, <1>4
  <2>i. PICK a \in Int : a = s + 1
    OBVIOUS
  <2>2. /\ r \in Seq(S)
        /\ Len(r) = IF a <= x THEN x - a + 1 ELSE 0
        /\ \A i \in 1..(x - a + 1) : r[i] = asked[a + i - 1]
    <3>1. /\ SubSeq(asked, a, x) \in Seq(S)
          /\ Len(SubSeq(asked, a, x)) = IF a <= x THEN x - a + 1 ELSE 0
          /\ \A i \in 1..(x - a + 1) : SubSeq(asked, a, x)[i] = asked[a + i - 1]
      BY <2>1, <2>i, SubSeqProperties
    <3> QED BY <1>6, <2>i, <3>1
  <2>3. x - a + 1 = x - s /\ a <= x
    BY <1>4, <2>i
  <2>4. \A i \in 1..(x - s) : a + i - 1 = s + i
    BY <2>i
  <2> QED BY <2>2, <2>3, <2>4
<1>8. x - s \in Nat \ {0} /\ s + (x - s) <= m
  BY <1>4
<1>9. DOMAIN r = 1..(x - s) /\ IsSeq(r)
  BY <1>7 DEF IsSeq
<1> QED BY <1>2, <1>5, <1>6, <1>7, <1>8, <1>9, ZenonT(60)

\* texts and vectors of them go on with asked after n of it.
GoesOn(texts, new, asked, n, l) ==
  /\ \A i \in 1..l : texts[i] = asked[n + i]
  /\ new = [i \in 1..l |-> VectorOf(texts[i])]

\* The next answers.
LEMMA AnswersGrow ==
  ASSUME NEW asked, IsSeq(asked), NEW got, AnsweredFor(got, asked, ProviderName(settings)),
         NEW l \in Nat, Len(got) + l <= Len(asked),
         NEW texts, NEW new, GoesOn(texts, new, asked, Len(got), l)
  PROVE  /\ AnsweredFor(got \o new, asked, ProviderName(settings))
         /\ Len(got \o new) = Len(got) + l
<1>1. PICK n \in Nat : n = Len(got) /\ DOMAIN got = 1..n
  BY SeqHasLength DEF AnsweredFor
<1>2. /\ \A i \in 1..l : texts[i] = asked[n + i]
      /\ new = [i \in 1..l |-> VectorOf(texts[i])]
  BY <1>1 DEF GoesOn
<1>3. /\ \A i \in 1..l : new[i] # None /\ new[i].of = asked[n + i]
                          /\ new[i].by = ProviderName(settings)
      /\ new = [i \in 1..l |-> new[i]]
  BY <1>2, VectorIsSomething
<1>4. IsSeq(new) /\ Len(new) = l
  BY <1>3, SeqFromFunction
<1>5. PICK S, T : got \in Seq(S) /\ new \in Seq(T)
  BY <1>4 DEF AnsweredFor, IsSeq
<1>6. got \in Seq(S \cup T) /\ new \in Seq(S \cup T)
  BY <1>5
<1>7. PICK more : more = got \o new
  OBVIOUS
<1>8. /\ more \in Seq(S \cup T) /\ Len(more) = n + l
      /\ \A i \in 1..(n + l) : more[i] = IF i <= n THEN got[i] ELSE new[i - n]
  BY <1>1, <1>4, <1>6, <1>7, ConcatProperties, ZenonT(60)
<1>9. ASSUME NEW i \in 1..(n + l)
      PROVE  more[i] # None /\ more[i].of = asked[i] /\ more[i].by = ProviderName(settings)
  <2>1. CASE i <= n
    <3>1. i \in DOMAIN got /\ more[i] = got[i]
      BY <1>1, <1>8, <2>1
    <3> QED BY <3>1 DEF AnsweredFor
  <2>2. CASE ~(i <= n)
    <3>1. PICK k \in 1..l : k = i - n /\ n + k = i
      BY <2>2
    <3>2. more[i] = new[k]
      BY <1>8, <2>2, <3>1
    <3> QED BY <1>3, <3>1, <3>2
  <2> QED BY <2>1, <2>2
<1>10. IsSeq(more) /\ DOMAIN more = 1..(n + l)
  BY <1>8 DEF IsSeq
<1>11. AnsweredFor(more, asked, ProviderName(settings))
  BY <1>1, <1>8, <1>9, <1>10 DEF AnsweredFor
<1> QED BY <1>1, <1>7, <1>8, <1>11

\* A batch of texts of which every vector found, answered or kept is in place.
InPlace(e, texts, by) ==
  /\ e.phase = "lookup" =>
       /\ e = [phase |-> "lookup", found |-> e.found, texts |-> texts]
       /\ FoundFor(e.found, texts) /\ Len(e.found) < Len(texts)
  /\ e.phase = "calling" =>
       /\ e = [phase |-> "calling", texts |-> texts, found |-> e.found, got |-> e.got,
               sent |-> Len(e.got)]
       /\ FoundFor(e.found, texts) /\ DOMAIN e.found = DOMAIN texts
       /\ AnsweredFor(e.got, AskedOf(texts, e.found), by)
       /\ Len(e.got) < Len(AskedOf(texts, e.found))
  /\ e.phase = "caching" =>
       /\ e = [phase |-> "caching", texts |-> e.texts, got |-> e.got, stored |-> e.stored,
               vectors |-> e.vectors]
       /\ AnsweredFor(e.got, e.texts, by) /\ e.stored \in Nat
       /\ VectorsFor(e.vectors, texts)
  /\ e.phase = "embedded" => VectorsFor(e.vectors, texts)

LEMMA FoundInPlace ==
  ASSUME NEW texts, IsSeq(texts), NEW by, NEW c \in Ingesters, NEW v,
         emb = [x \in Ingesters |-> emb[x]],
         emb[c].phase = "lookup", InPlace(emb[c], texts, by), Found(c, v),
         v = None \/ v.of = texts[Len(emb[c].found) + 1]
  PROVE  InPlace(emb'[c], texts, by) /\ \A x \in Ingesters \ {c} : emb'[x] = emb[x]
<1>1. PICK found : found = emb[c].found
  OBVIOUS
<1>2. /\ emb[c] = [phase |-> "lookup", found |-> found, texts |-> texts]
      /\ FoundFor(found, texts) /\ Len(found) < Len(texts)
  BY <1>1 DEF InPlace
<1>3. PICK S : found \in Seq(S)
  BY <1>2 DEF FoundFor, IsSeq
<1>4. PICK n \in Nat : n = Len(found) /\ DOMAIN found = 1..n
  BY <1>3
<1>5. PICK m \in Nat : m = Len(texts) /\ DOMAIN texts = 1..m /\ n < m
  BY <1>2, <1>4, SeqHasLength
<1>6. PICK more : more = Append(found, v)
  OBVIOUS
<1>7. /\ IsSeq(more) /\ Len(more) = n + 1 /\ DOMAIN more = 1..(n + 1)
      /\ \A i \in 1..n : more[i] = found[i] 
      /\ more[n + 1] = v
  <2>1. found \in Seq(S \cup {v})
    BY <1>3
  <2>2. /\ more \in Seq(S \cup {v}) /\ Len(more) = n + 1
        /\ \A i \in 1..n : more[i] = found[i]
        /\ more[n + 1] = v
    BY <1>4, <1>6, <2>1, AppendProperties
  <2> QED BY <2>2 DEF IsSeq
<1>8. FoundFor(more, texts)
  <2>1. ASSUME NEW i \in 1..(n + 1) PROVE more[i] = None \/ more[i].of = texts[i]
    <3>1. CASE i = n + 1
      BY <1>1, <1>4, <1>7, <3>1
    <3>2. CASE i # n + 1
      <4>1. i \in 1..n
        BY <3>2
      <4> QED BY <1>2, <1>4, <1>7, <4>1 DEF FoundFor
    <3> QED BY <3>1, <3>2
  <2> QED BY <1>7, <2>1 DEF FoundFor
<1> DEFINE e == [phase |-> "lookup", found |-> more, texts |-> texts]
           last == IF Len(more) < Len(texts) THEN e
                   ELSE IF Missing(more) = <<>> THEN [phase |-> "embedded", vectors |-> more]
                   ELSE [phase |-> "calling", texts |-> texts, found |-> more,
                         got |-> <<>>, sent |-> 0]
<1>9. emb' = [emb EXCEPT ![c] = last]
  <2>1. [emb[c] EXCEPT !.found = Append(emb[c].found, v)] = e
    <3>1. PICK o : o = emb[c]
      OBVIOUS
    <3>2. o = [phase |-> "lookup", found |-> found, texts |-> texts]
      BY <1>2, <3>1
    <3>3. [o EXCEPT !.found = more] = e
      BY <3>2
    <3>4. Append(o.found, v) = more
      BY <1>1, <1>6, <3>1
    <3> HIDE DEF e
    <3> QED BY <3>1, <3>3, <3>4
  <2>2. e.found = more /\ e.texts = texts
    OBVIOUS
  <2> HIDE DEF e
  <2> QED BY <2>1, <2>2 DEF Found
<1>10. CASE n + 1 < m
  <2>1. last = e
    BY <1>5, <1>7, <1>10
  <2>2. InPlace(e, texts, by)
    BY <1>5, <1>7, <1>8, <1>10 DEF InPlace
  <2> HIDE DEF last, e
  <2> QED BY <1>9, <2>1, <2>2
<1>11. CASE ~(n + 1 < m) /\ Missing(more) = <<>>
  <2> DEFINE f == [phase |-> "embedded", vectors |-> more]
  <2>1. last = f
    BY <1>5, <1>7, <1>11
  <2>2. DOMAIN more = DOMAIN texts
    BY <1>5, <1>7, <1>11
  <2>3. VectorsFor(more, texts)
    BY <1>8, <1>11, <2>2, FoundAll
  <2>4. InPlace(f, texts, by)
    BY <2>3 DEF InPlace
  <2> HIDE DEF last, f
  <2> QED BY <1>9, <2>1, <2>4
<1>12. CASE ~(n + 1 < m) /\ Missing(more) # <<>>
  <2> DEFINE f == [phase |-> "calling", texts |-> texts, found |-> more, got |-> <<>>, sent |-> 0]
  <2>1. last = f
    BY <1>5, <1>7, <1>12
  <2>2. DOMAIN more = DOMAIN texts
    BY <1>5, <1>7, <1>12
  <2>3. PICK asked : asked = AskedOf(texts, more)
    OBVIOUS
  <2>4. IsSeq(asked) /\ asked # <<>>
    BY <1>7, <1>12, <2>3, AskedIsSeq
  <2>5. 0 < Len(asked) /\ 0 <= Len(asked)
    BY <2>4 DEF IsSeq
  <2>6. IsSeq(<<>>) /\ Len(<<>>) = 0 /\ DOMAIN <<>> = {}
    BY EmptySeq DEF IsSeq
  <2>7. AnsweredFor(<<>>, asked, by)
    BY <2>5, <2>6 DEF AnsweredFor
  <2>8. InPlace(f, texts, by)
    BY <1>8, <2>2, <2>3, <2>5, <2>6, <2>7 DEF InPlace
  <2> HIDE DEF last, f
  <2> QED BY <1>9, <2>1, <2>8
<1> QED BY <1>9, <1>10, <1>11, <1>12

\* A provider answers with all vectors of a request.
LEMMA AnswerInPlace ==
  ASSUME NEW texts, IsSeq(texts), NEW c \in Ingesters,
         emb = [x \in Ingesters |-> emb[x]],
         emb[c].phase = "calling", InPlace(emb[c], texts, ProviderName(settings)),
         Answer(c, DOMAIN Request(emb[c]))
  PROVE  /\ InPlace(emb'[c], texts, ProviderName(settings))
         /\ \A x \in Ingesters \ {c} : emb'[x] = emb[x]
<1>1. PICK e : e = emb[c]
  OBVIOUS
<1>2. PICK found, got, by : found = e.found /\ got = e.got /\ by = ProviderName(settings)
  OBVIOUS
<1>3. PICK asked : asked = AskedOf(texts, found)
  OBVIOUS
<1>4. /\ e = [phase |-> "calling", texts |-> texts, found |-> found, got |-> got, sent |-> Len(got)]
      /\ FoundFor(found, texts) /\ DOMAIN found = DOMAIN texts
      /\ AnsweredFor(got, asked, by) /\ Len(got) < Len(asked)
  BY <1>1, <1>2, <1>3 DEF InPlace
<1>5. IsSeq(asked) /\ DOMAIN asked = DOMAIN Missing(found)
  BY <1>3, <1>4, AskedIsSeq DEF FoundFor
<1>6. PICK s \in Nat, m \in Nat : s = Len(got) /\ e.sent = s /\ m = Len(asked) /\ s < m
  BY <1>4, <1>5, SeqHasLength DEF AnsweredFor
<1>7. Asked(e) = asked
  <2>1. e.texts = texts /\ e.found = found
    BY <1>4
  <2> QED BY <1>3, <2>1 DEF Asked, AskedOf
<1>8. PICK l \in Nat \ {0} :
        /\ e.sent + l <= Len(asked)
        /\ IsSeq(Request(e)) /\ Len(Request(e)) = l /\ DOMAIN Request(e) = 1..l
        /\ \A i \in 1..l : Request(e)[i] = asked[e.sent + i]
  BY <1>5, <1>6, <1>7, RequestIs, SMTT(30)
<1>9. PICK request : request = Request(e)
  OBVIOUS
<1> DEFINE at == Ascending(1..l)
           new == [i \in DOMAIN at |-> VectorOf(request[at[i]])]
<1>10. new = [i \in 1..l |-> VectorOf(request[i])]
  <2>1. at = [j \in 1..l |-> j]
    BY AscendingAll
  <2>2. DOMAIN at = 1..l /\ \A i \in 1..l : at[i] = i
    BY <2>1
  <2> HIDE DEF at
  <2> QED BY <2>2
<1>11. PICK more : more = got \o new
  OBVIOUS
<1>12. AnsweredFor(more, asked, by) /\ Len(more) = s + l
  <2>1. \A i \in 1..l : request[i] = asked[Len(got) + i]
    BY <1>6, <1>8, <1>9
  <2>2. Len(got) + l <= Len(asked)
    BY <1>6, <1>8
  <2>3. PICK batch : batch = [i \in 1..l |-> VectorOf(request[i])]
    OBVIOUS
  <2>4. AnsweredFor(got, asked, ProviderName(settings))
    BY <1>2, <1>4
  <2>5. /\ AnsweredFor(got \o batch, asked, ProviderName(settings))
        /\ Len(got \o batch) = Len(got) + l
    <3>1. GoesOn(request, batch, asked, Len(got), l)
      BY <2>1, <2>3 DEF GoesOn
    <3> QED BY <1>5, <2>2, <2>4, <3>1, AnswersGrow
  <2>6. batch = new
    BY <1>10, <2>3
  <2> HIDE DEF new
  <2> QED BY <1>2, <1>6, <1>11, <2>5, <2>6
<1> DEFINE next == IF e.sent + Len(Request(e)) < Len(Asked(e))
                   THEN [e EXCEPT !.got = more, !.sent = e.sent + Len(Request(e))]
                   ELSE [phase |-> "caching", texts |-> Cacheable(e), got |-> more, stored |-> 0,
                         vectors |-> Present(Filled(e.found, more))]
<1>13. emb' = [emb EXCEPT ![c] = next]
  <2>1. emb' = [emb EXCEPT ![c] =
          IF emb[c].sent + Len(Request(emb[c])) < Len(Asked(emb[c]))
          THEN [emb[c] EXCEPT !.got = emb[c].got \o
                                [i \in DOMAIN Ascending(DOMAIN Request(emb[c])) |->
                                  VectorOf(Request(emb[c])[Ascending(DOMAIN Request(emb[c]))[i]])],
                              !.sent = emb[c].sent + Len(Request(emb[c]))]
          ELSE [phase |-> "caching", texts |-> Cacheable(emb[c]),
                got |-> emb[c].got \o
                          [i \in DOMAIN Ascending(DOMAIN Request(emb[c])) |->
                            VectorOf(Request(emb[c])[Ascending(DOMAIN Request(emb[c]))[i]])],
                stored |-> 0,
                vectors |-> Present(Filled(emb[c].found,
                              emb[c].got \o
                                [i \in DOMAIN Ascending(DOMAIN Request(emb[c])) |->
                                  VectorOf(Request(emb[c])[Ascending(DOMAIN Request(emb[c]))[i]])]))]]
    BY DEF Answer
  <2>2. emb[c].got \o
          [i \in DOMAIN Ascending(DOMAIN Request(emb[c])) |->
            VectorOf(Request(emb[c])[Ascending(DOMAIN Request(emb[c]))[i]])] = more
    BY <1>1, <1>2, <1>8, <1>9, <1>11
  <2> HIDE DEF new, at
  <2> QED BY <1>1, <2>1, <2>2
<1> HIDE DEF new, at
<1>14. CASE s + l < m
  <2> DEFINE f == [phase |-> "calling", texts |-> texts, found |-> found, got |-> more, sent |-> s + l]
  <2>1. next = f
    <3>1. next = [e EXCEPT !.got = more, !.sent = s + l]
      BY <1>6, <1>7, <1>8, <1>14
    <3> HIDE DEF next
    <3> QED BY <1>4, <3>1
  <2>2. InPlace(f, texts, by)
    BY <1>3, <1>4, <1>6, <1>12, <1>14 DEF InPlace
  <2> HIDE DEF next, f
  <2> QED BY <1>2, <1>13, <2>1, <2>2
<1>15. CASE ~(s + l < m)
  <2>1. PICK vectors : vectors = Filled(found, more)
    OBVIOUS
  <2>2. Len(more) = Len(asked)
    BY <1>6, <1>8, <1>12, <1>15
  <2>3. VectorsFor(vectors, texts)
    BY <1>3, <1>4, <1>12, <2>1, <2>2, FilledIsFull
  <2>4. Present(vectors) = vectors
    BY <2>3, PresentIsAll
  <2> DEFINE f == [phase |-> "caching", texts |-> asked, got |-> more, stored |-> 0, vectors |-> vectors]
  <2>5. next = f
    BY <1>2, <1>6, <1>7, <1>8, <1>15, <2>1, <2>4 DEF Cacheable
  <2>6. InPlace(f, texts, by)
    BY <1>12, <2>3 DEF InPlace
  <2> HIDE DEF next, f
  <2> QED BY <1>2, <1>13, <2>5, <2>6
<1> QED BY <1>14, <1>15

SourcesAreSound == \A d \in DOMAIN sources : HasText(sources[d].kind, sources[d].text)

\* The texts that are embedded of a document.
TextsOf(d) ==
  LET chunks == ChunksOf(sources[d].kind, sources[d].text)
  IN  [i \in DOMAIN chunks |-> Norm(chunks[i])]

\* Until a provider answers short, every batch and every cached vector is in place.
VectorsAreInPlace ==
  ~short =>
    /\ CachedUnderItsText
    /\ \A c \in Ingesters : emb[c].phase # "idle" =>
         InPlace(emb[c], TextsOf(job[c].doc), ProviderName(settings))

EInv == SourcesAreSound /\ VectorsAreInPlace

SourcesStay ==
  /\ DOMAIN sources \subseteq DOMAIN sources'
  /\ \A d \in DOMAIN sources : sources'[d] = sources[d]

LEMMA TextsAreSeq ==
  ASSUME SourcesAreSound, NEW d \in DOMAIN sources
  PROVE  IsSeq(TextsOf(d))
<1>1. PICK kind, text : kind = sources[d].kind /\ text = sources[d].text
  OBVIOUS
<1>2. HasText(kind, text)
  BY <1>1 DEF SourcesAreSound
<1>3. PICK chunks : chunks = ChunksOf(kind, text)
  OBVIOUS
<1>4. IsSeq(chunks)
  BY <1>2, <1>3, ChunksAreWhole DEF IsSeq
<1>5. PICK n \in Nat : DOMAIN chunks = 1..n
  BY <1>4, SeqHasLength
<1>6. PICK texts : texts = TextsOf(d)
  OBVIOUS
<1>7. texts = [i \in 1..n |-> Norm(chunks[i])]
  BY <1>1, <1>3, <1>5, <1>6 DEF TextsOf
<1>8. texts = [i \in 1..n |-> texts[i]]
  BY <1>7
<1>9. IsSeq(texts)
  BY <1>8, SeqFromFunction
<1> QED BY <1>6, <1>9

LEMMA TextsStay ==
  ASSUME SourcesStay, NEW d \in DOMAIN sources
  PROVE  TextsOf(d)' = TextsOf(d)
<1>1. sources'[d] = sources[d]
  BY DEF SourcesStay
<1> QED BY <1>1 DEF TextsOf

LEMMA InPlaceStays ==
  ASSUME IInv, VectorsAreInPlace, SourcesStay, ~short' => ~short,
         ~short' => CachedUnderItsText',
         \A c \in Ingesters :
           \/ emb'[c].phase = "idle"
           \/ emb'[c] = emb[c] /\ job'[c] = job[c] /\ settings' = settings
           \/ ~short' => InPlace(emb'[c], TextsOf(job[c].doc)', ProviderName(settings)')
  PROVE  VectorsAreInPlace'
<1>1. SUFFICES ASSUME ~short' PROVE VectorsAreInPlace'
  BY DEF VectorsAreInPlace
<1>2. ASSUME NEW c \in Ingesters, emb'[c].phase # "idle"
      PROVE  InPlace(emb'[c], TextsOf(job[c].doc)', ProviderName(settings)')
  <2>1. CASE emb'[c] = emb[c] /\ job'[c] = job[c] /\ settings' = settings
    <3>1. emb[c].phase # "idle" /\ job[c].doc \in DOMAIN sources
      BY <1>2, <2>1 DEF IInv, JobsAreSound
    <3>2. InPlace(emb[c], TextsOf(job[c].doc), ProviderName(settings))
      BY <1>1, <3>1 DEF VectorsAreInPlace
    <3>3. PICK d \in DOMAIN sources : d = job[c].doc
      BY <3>1
    <3>4. TextsOf(d)' = TextsOf(d)
      BY TextsStay
    <3>5. TextsOf(job[c].doc)' = TextsOf(job[c].doc)
      BY <2>1, <3>3, <3>4
    <3>6. ProviderName(settings)' = ProviderName(settings)
      BY <2>1
    <3> QED BY <2>1, <3>2, <3>5, <3>6
  <2> QED BY <1>1, <1>2, <2>1
<1> QED BY <1>1, <1>2 DEF VectorsAreInPlace

\* Nothing of the embedding service changes but what a batch is dropped.
LEMMA DroppedStays ==
  ASSUME IInv, VectorsAreInPlace, SourcesStay, UNCHANGED <<settings, redis, memory, short>>,
         \A c \in Ingesters : emb'[c].phase = "idle" \/ (emb'[c] = emb[c] /\ job'[c] = job[c])
  PROVE  VectorsAreInPlace'
<1>1. ~short => CachedUnderItsText'
  BY DEF VectorsAreInPlace, CachedUnderItsText
<1> QED BY <1>1, InPlaceStays

\* The cache gives vectors of the text that was asked for.
LEMMA CacheIsRight ==
  ASSUME CachedUnderItsText, ~short, NEW text
  PROVE  /\ Cached(KeyOf(text)) = None \/ Cached(KeyOf(text)).of = text
         /\ Remembered(KeyOf(text)) = None \/ Remembered(KeyOf(text)).of = text
<1>1. KeyOf(text)[2] = text
  BY DEF KeyOf
<1>2. Remembered(KeyOf(text)) = None \/ Remembered(KeyOf(text)).of = text
  BY <1>1 DEF Remembered, CachedUnderItsText
<1>3. KeyOf(text) \in DOMAIN redis => redis[KeyOf(text)].of = text
  BY <1>1 DEF CachedUnderItsText
<1> QED BY <1>2, <1>3 DEF Cached

\* A vector is cached under its text.
LEMMA PutIsRight ==
  ASSUME NEW f, NEW k, NEW v, v.of = k[2], v.by = k[1],
         \A x \in DOMAIN f : f[x].of = x[2] /\ f[x].by = x[1]
  PROVE  \A x \in DOMAIN Put(f, k, v) : Put(f, k, v)[x].of = x[2] /\ Put(f, k, v)[x].by = x[1]
BY DEF Put

LEMMA EmbedKeepsVectors ==
  ASSUME IInv, EInv, NEW c \in Ingesters, EmbedSteps(c) \/ EmbedFaults(c),
         UNCHANGED <<job, sources>>
  PROVE  VectorsAreInPlace'
<1>0. SourcesStay /\ (~short' => ~short) /\ settings' = settings
  BY DEF SourcesStay, EmbedSteps, EmbedFaults, Lookup, LookupWithoutRedis, ProviderAnswers,
         ProviderAnswersShort, ProviderFails, CacheNext, CacheNextWithoutRedis, CachingEnds
<1>e. emb[c].phase # "idle" /\ emb = [x \in Ingesters |-> emb[x]]
  BY DEF IInv, JobsAreSound, EmbedSteps, EmbedFaults, Lookup, LookupWithoutRedis,
         ProviderAnswers, ProviderAnswersShort, ProviderFails, CacheNext, CacheNextWithoutRedis,
         Caching, CachingEnds
<1>1. PICK texts : texts = TextsOf(job[c].doc)
  OBVIOUS
<1>2. job[c].doc \in DOMAIN sources
  BY <1>e DEF IInv, JobsAreSound
<1>3. IsSeq(texts) /\ texts = TextsOf(job[c].doc)' /\ ProviderName(settings)' = ProviderName(settings)
  <2>1. PICK d \in DOMAIN sources : d = job[c].doc
    BY <1>2
  <2>2. TextsOf(d)' = TextsOf(d) /\ IsSeq(TextsOf(d))
    BY <1>0, TextsAreSeq, TextsStay DEF EInv
  <2>3. job'[c].doc = d
    BY <2>1
  <2> QED BY <1>0, <1>1, <2>1, <2>2, <2>3
<1>4. SUFFICES ASSUME ~short'
      PROVE  /\ CachedUnderItsText'
             /\ InPlace(emb'[c], texts, ProviderName(settings))
             /\ \A x \in Ingesters \ {c} : emb'[x] = emb[x]
  <2>1. ~short' => CachedUnderItsText'
    BY <1>4
  <2>2. CASE short'
    BY <2>2 DEF VectorsAreInPlace
  <2>3. CASE ~short'
    BY <1>0, <1>3, <1>4, <2>1, <2>3, InPlaceStays DEF EInv
  <2> QED BY <2>2, <2>3
<1>5. CachedUnderItsText /\ ~short /\ InPlace(emb[c], texts, ProviderName(settings))
  BY <1>0, <1>1, <1>4, <1>e DEF EInv, VectorsAreInPlace
<1>u. UNCHANGED <<redis, memory>> => CachedUnderItsText'
  BY <1>0, <1>4, <1>5 DEF CachedUnderItsText
<1>6. CASE Lookup(c) \/ LookupWithoutRedis(c)
  <2>1. emb[c].phase = "lookup" /\ UNCHANGED <<redis, memory>>
    BY <1>6 DEF Lookup, LookupWithoutRedis
  <2>2. PICK v : /\ Found(c, v)
                 /\ v = Cached(NextKey(c)) \/ v = Remembered(NextKey(c))
    BY <1>6 DEF Lookup, LookupWithoutRedis
  <2>3. emb[c].texts = texts
    BY <1>5, <2>1 DEF InPlace
  <2>4. NextKey(c) = KeyOf(texts[Len(emb[c].found) + 1])
    BY <2>3 DEF NextKey
  <2>5. v = None \/ v.of = texts[Len(emb[c].found) + 1]
    BY <1>5, <2>2, <2>4, CacheIsRight
  <2> QED BY <1>3, <1>5, <1>e, <1>u, <2>1, <2>2, <2>5, FoundInPlace
<1>7. CASE ProviderAnswers(c)
  BY <1>3, <1>5, <1>7, <1>e, <1>u, AnswerInPlace DEF ProviderAnswers
<1>8. CASE ProviderFails(c)
  <2>1. emb' = [emb EXCEPT ![c] = [phase |-> "failed"]] /\ UNCHANGED <<redis, memory>>
    BY <1>8 DEF ProviderFails
  <2>2. InPlace([phase |-> "failed"], texts, ProviderName(settings))
    BY DEF InPlace
  <2> QED BY <1>e, <1>u, <2>1, <2>2
<1>9. CASE CachingEnds(c)
  <2> DEFINE f == [phase |-> "embedded", vectors |-> emb[c].vectors]
  <2>1. emb' = [emb EXCEPT ![c] = f] /\ UNCHANGED <<redis, memory>> /\ emb[c].phase = "caching"
    BY <1>9 DEF CachingEnds
  <2>2. InPlace(f, texts, ProviderName(settings))
    BY <1>5, <2>1 DEF InPlace
  <2> HIDE DEF f
  <2> QED BY <1>e, <1>u, <2>1, <2>2
<1>10. CASE CacheNext(c) \/ CacheNextWithoutRedis(c)
  <2>1. PICK e, next : e = emb[c] /\ next = e.stored + 1
    OBVIOUS
  <2>2. e.phase = "caching" /\ e.stored < Len(e.got)
    BY <1>10, <2>1 DEF CacheNext, CacheNextWithoutRedis, Caching
  <2>3. /\ e = [phase |-> "caching", texts |-> e.texts, got |-> e.got, stored |-> e.stored,
               vectors |-> e.vectors]
        /\ AnsweredFor(e.got, e.texts, ProviderName(settings)) /\ e.stored \in Nat
        /\ VectorsFor(e.vectors, texts)
    BY <1>5, <2>1, <2>2 DEF InPlace
  <2>4. next \in DOMAIN e.got /\ next \in Nat
    BY <2>1, <2>2, <2>3, SeqHasLength DEF AnsweredFor
  <2>5. e.got[next].of = e.texts[next] /\ e.got[next].by = ProviderName(settings)
    BY <2>3, <2>4 DEF AnsweredFor
  <2>6. PICK k, v : k = KeyOf(e.texts[next]) /\ v = e.got[next]
    OBVIOUS
  <2>7. v.of = k[2] /\ v.by = k[1]
    BY <2>5, <2>6 DEF KeyOf
  <2> DEFINE f == [phase |-> "caching", texts |-> e.texts, got |-> e.got, stored |-> next,
                   vectors |-> e.vectors]
  <2>8. /\ emb' = [emb EXCEPT ![c].stored = next]
        /\ memory' = Put(memory, k, v)
        /\ redis' = redis \/ redis' = Put(redis, k, v)
    BY <1>10, <2>1, <2>6 DEF CacheNext, CacheNextWithoutRedis, CacheTo
  <2>9. emb' = [emb EXCEPT ![c] = f]
    <3>1. emb' = [emb EXCEPT ![c] = [e EXCEPT !.stored = next]]
      BY <1>e, <2>1, <2>8
    <3>2. [e EXCEPT !.stored = next] = f
      BY <2>3
    <3> HIDE DEF f
    <3> QED BY <3>1, <3>2
  <2>10. InPlace(f, texts, ProviderName(settings))
    BY <2>3, <2>4 DEF InPlace
  <2>11. CachedUnderItsText'
    <3>1. \A x \in DOMAIN memory' : memory'[x].of = x[2] /\ memory'[x].by = x[1]
      BY <1>5, <2>7, <2>8, PutIsRight DEF CachedUnderItsText
    <3>2. \A x \in DOMAIN redis' : redis'[x].of = x[2] /\ redis'[x].by = x[1]
      BY <1>5, <2>7, <2>8, PutIsRight DEF CachedUnderItsText
    <3> QED BY <3>1, <3>2 DEF CachedUnderItsText
  <2> HIDE DEF f
  <2> QED BY <1>e, <2>9, <2>10, <2>11
<1>11. CASE ProviderAnswersShort(c)
  BY <1>4, <1>11 DEF ProviderAnswersShort
<1> QED BY <1>6, <1>7, <1>8, <1>9, <1>10, <1>11 DEF EmbedSteps, EmbedFaults

LEMMA NewSource ==
  ASSUME SourcesAreSound, NEW d, d \notin DOMAIN sources, NEW kind, NEW text, HasText(kind, text),
         sources' = [x \in DOMAIN sources \cup {d} |->
                      IF x = d THEN [kind |-> kind, text |-> text] ELSE sources[x]]
  PROVE  /\ SourcesStay /\ SourcesAreSound'
         /\ d \in DOMAIN sources' /\ sources'[d] = [kind |-> kind, text |-> text]
<1>1. /\ DOMAIN sources' = DOMAIN sources \cup {d}
      /\ sources'[d] = [kind |-> kind, text |-> text]
      /\ \A x \in DOMAIN sources : sources'[x] = sources[x]
  OBVIOUS
<1>2. sources'[d].kind = kind /\ sources'[d].text = text
  BY <1>1
<1> QED BY <1>1, <1>2 DEF SourcesStay, SourcesAreSound

LEMMA SameSources ==
  ASSUME SourcesAreSound, UNCHANGED sources
  PROVE  SourcesStay /\ SourcesAreSound'
BY DEF SourcesStay, SourcesAreSound

\* The batch of a new document: nothing has been looked up yet.
LEMMA NewBatchIsInPlace ==
  ASSUME IInv, EInv, NEW c \in Ingesters, NEW d, NEW kind, NEW text, text # <<>>,
         Embed(c, d, kind, text), HasText(kind, text),
         NEW j, job' = [job EXCEPT ![c] = j], j.doc = d
  PROVE  EInv' /\ SourcesStay
<1>1. d \in Docs /\ d \notin DOMAIN sources
  BY FreshIsUnused DEF Embed
<1>2. /\ SourcesStay /\ SourcesAreSound'
      /\ d \in DOMAIN sources' /\ sources'[d] = [kind |-> kind, text |-> text]
  BY <1>1, NewSource DEF Embed, EInv
<1>3. PICK chunks : chunks = ChunksOf(kind, text)
  OBVIOUS
<1>4. PICK texts : texts = [i \in DOMAIN chunks |-> Norm(chunks[i])]
  OBVIOUS
<1>5. texts = TextsOf(d)'
  BY <1>2, <1>3, <1>4 DEF TextsOf
<1>6. Len(texts) > 0
  <2>1. IsSeq(chunks) /\ chunks # <<>>
    BY <1>3, ChunksAreWhole DEF IsSeq
  <2>2. PICK n \in Nat : n = Len(chunks) /\ DOMAIN chunks = 1..n
    BY <2>1, SeqHasLength
  <2>3. n # 0
    BY <2>1, <2>2 DEF IsSeq
  <2>4. texts = [i \in 1..n |-> texts[i]]
    BY <1>4, <2>2
  <2>5. Len(texts) = n
    BY <2>4, SeqFromFunction
  <2> QED BY <2>3, <2>5
<1> DEFINE f == [phase |-> "lookup", found |-> <<>>, texts |-> texts]
<1>7. emb' = [emb EXCEPT ![c] = f] /\ UNCHANGED <<settings, redis, memory, short>>
  BY <1>3, <1>4 DEF Embed, StartEmbed
<1>8. FoundFor(<<>>, texts) /\ Len(<<>>) = 0
  BY EmptySeq DEF FoundFor, IsSeq
<1>9. InPlace(f, texts, ProviderName(settings)')
  BY <1>6, <1>8 DEF InPlace
<1> HIDE DEF f
<1>10. /\ emb'[c] = f /\ job'[c].doc = d
       /\ \A x \in Ingesters \ {c} : emb'[x] = emb[x] /\ job'[x] = job[x]
  BY <1>7 DEF IInv, JobsAreSound
<1>11. InPlace(emb'[c], TextsOf(job[c].doc)', ProviderName(settings)')
  <2>1. TextsOf(job[c].doc)' = texts
    BY <1>5, <1>10
  <2> QED BY <1>9, <1>10, <2>1
<1>12. ~short' => CachedUnderItsText'
  BY <1>7 DEF EInv, VectorsAreInPlace, CachedUnderItsText
<1>13. VectorsAreInPlace'
  BY <1>2, <1>7, <1>10, <1>11, <1>12, InPlaceStays DEF EInv
<1> QED BY <1>2, <1>13 DEF EInv

LEMMA NextKeepsEInv ==
  ASSUME IInv, EInv, [Next]_vars
  PROVE  EInv' /\ SourcesStay /\ (~short' => ~short)
<1>f. emb = [x \in Ingesters |-> emb[x]] /\ job = [x \in Ingesters |-> job[x]]
  BY DEF IInv, JobsAreSound
\* No batch begins, and nothing is cached.
<1>d. ASSUME SourcesStay /\ SourcesAreSound', UNCHANGED <<settings, redis, memory, short>>,
             \A c \in Ingesters : emb'[c].phase = "idle" \/ (emb'[c] = emb[c] /\ job'[c] = job[c])
      PROVE  EInv' /\ SourcesStay /\ (~short' => ~short)
  <2>1. VectorsAreInPlace'
    BY <1>d, DroppedStays DEF EInv
  <2> QED BY <1>d, <2>1 DEF EInv
<1>s. UNCHANGED <<embVars, job, sources>> => EInv' /\ SourcesStay /\ (~short' => ~short)
  BY <1>d, SameSources DEF embVars, EInv
<1>e. EmbIdle.phase = "idle"
  BY DEF EmbIdle
<1>b. ASSUME NEW c \in Ingesters, NEW d, NEW kind, NEW text, text # <<>>,
             Embed(c, d, kind, text), HasText(kind, text),
             NEW j, job' = [job EXCEPT ![c] = j], j.doc = d
      PROVE  EInv' /\ SourcesStay /\ (~short' => ~short)
  BY <1>b, NewBatchIsInPlace DEF Embed
<1>g. ASSUME NEW c \in Ingesters, EmbedSteps(c) \/ EmbedFaults(c), UNCHANGED <<job, sources>>
      PROVE  EInv' /\ SourcesStay /\ (~short' => ~short)
  <2>1. VectorsAreInPlace'
    BY <1>g, EmbedKeepsVectors
  <2>2. ~short' => ~short
    BY <1>g DEF EmbedSteps, EmbedFaults, Lookup, LookupWithoutRedis, ProviderAnswers,
         ProviderAnswersShort, ProviderFails, CacheNext, CacheNextWithoutRedis, CachingEnds
  <2> QED BY <1>g, <2>1, <2>2, SameSources DEF EInv
<1>1. ASSUME NEW c \in Ingesters, StartText(c)
      PROVE  EInv' /\ SourcesStay /\ (~short' => ~short)
  <2>1. PICK d \in Docs, kind \in {"text", "faqs"} :
          \E text \in IF kind = "faqs" THEN Faqs ELSE Texts :
            /\ Embed(c, d, kind, text)
            /\ job' = [job EXCEPT ![c] = [kind |-> kind, doc |-> d]]
    BY <1>1 DEF StartText
  <2>2. PICK text \in IF kind = "faqs" THEN Faqs ELSE Texts : Embed(c, d, kind, text)
    BY <2>1
  <2> DEFINE j == [kind |-> kind, doc |-> d]
  <2>3. job' = [job EXCEPT ![c] = j] /\ j.doc = d
    BY <2>1
  <2> HIDE DEF j
  <2>4. HasText(kind, text) /\ text # <<>>
    BY TextsAssumption DEF HasText, IsText
  <2> QED BY <1>b, <2>2, <2>3, <2>4
<1>2. ASSUME NEW c \in Ingesters, StartDirectory(c) \/ DirectoryEnds(c)
      PROVE  EInv' /\ SourcesStay /\ (~short' => ~short)
  <2>1. UNCHANGED <<embVars, sources>> /\ \A x \in Ingesters \ {c} : job'[x] = job[x]
    BY <1>2, <1>f DEF StartDirectory, DirectoryEnds
  <2>2. emb[c].phase = "idle"
    BY <1>2, NoDocNoVectors DEF StartDirectory, DirectoryEnds, Active
  <2> QED BY <1>d, <2>1, <2>2, SameSources DEF embVars, EInv
<1>3. ASSUME NEW c \in Ingesters, StartDocument(c)
      PROVE  EInv' /\ SourcesStay /\ (~short' => ~short)
  <2>e. PICK e : e = Fresh
    OBVIOUS
  <2>0. PICK text \in Texts \cup {<<>>} :
          /\ sources' = [x \in DOMAIN sources \cup {e} |->
                          IF x = e THEN [kind |-> "document", text |-> text] ELSE sources[x]]
          /\ job' = [job EXCEPT ![c] = [kind |-> "document", doc |-> e]]
    BY <1>3, <2>e DEF StartDocument
  <2>1. /\ Unused # {} /\ UNCHANGED embVars /\ job[c] = NoJob
    BY <1>3 DEF StartDocument, Active
  <2>2. e \notin DOMAIN sources
    BY <2>e, <2>1, FreshIsUnused
  <2>3. HasText("document", text)
    BY DEF HasText
  <2>4. SourcesStay /\ SourcesAreSound'
    BY <2>0, <2>2, <2>3, NewSource DEF EInv
  <2>5. emb[c].phase = "idle" /\ \A x \in Ingesters \ {c} : job'[x] = job[x]
    BY <1>f, <2>0, <2>1, NoDocNoVectors
  <2> QED BY <1>d, <2>1, <2>4, <2>5 DEF embVars
<1>4. ASSUME NEW c \in Ingesters, NextFile(c)
      PROVE  EInv' /\ SourcesStay /\ (~short' => ~short)
  <2>0. /\ job[c].doc = NoDoc /\ IsDirectory(job[c]) /\ job[c].left # <<>>
    BY <1>4 DEF NextFile, IInv, JobsAreSound
  <2>1. PICK text, j : /\ text = Head(job[c].left) /\ j = [job[c] EXCEPT !.left = Tail(job[c].left)]
    OBVIOUS
  <2>2. \/ job' = [job EXCEPT ![c] = j] /\ UNCHANGED <<embVars, sources>>
        \/ text # <<>> /\ \E d \in Docs :
             /\ Embed(c, d, "text", text)
             /\ job' = [job EXCEPT ![c] = [j EXCEPT !.doc = d, !.docs = @ \cup {d}]]
    BY <1>4, <2>1 DEF NextFile
  <2>3. text \in Texts \cup {<<>>}
    BY <2>0, <2>1 DEF IsDirectory
  <2>4. CASE job' = [job EXCEPT ![c] = j] /\ UNCHANGED <<embVars, sources>>
    <3>1. emb[c].phase = "idle" /\ \A x \in Ingesters \ {c} : job'[x] = job[x]
      BY <1>f, <2>0, <2>4, NoDocNoVectors
    <3> QED BY <1>d, <2>4, <3>1, SameSources DEF embVars, EInv
  <2>5. ASSUME text # <<>>, NEW d \in Docs, Embed(c, d, "text", text),
               job' = [job EXCEPT ![c] = [j EXCEPT !.doc = d, !.docs = @ \cup {d}]]
        PROVE  EInv' /\ SourcesStay /\ (~short' => ~short)
    <3>0. PICK o : o = job[c]
      OBVIOUS
    <3>l. PICK left : left = Tail(o.left)
      OBVIOUS
    <3> DEFINE docs == j.docs \cup {d}
               k == [j EXCEPT !.doc = d, !.docs = docs]
    <3>1. job' = [job EXCEPT ![c] = k]
      BY <2>5
    <3>2. k = [j EXCEPT !.doc = d, !.docs = docs]
      OBVIOUS
    <3> HIDE DEF docs, k
    <3>3. k.doc = d
      <4>1. o = [kind |-> o.kind, doc |-> o.doc, left |-> o.left, count |-> o.count, docs |-> o.docs]
        BY <2>0, <3>0 DEF IsDirectory
      <4>2. j = [o EXCEPT !.left = left]
        BY <2>1, <3>0, <3>l
      <4> QED BY <3>2, <4>1, <4>2
    <3>4. HasText("text", text)
      BY <2>3 DEF HasText
    <3> QED BY <1>b, <2>5, <3>1, <3>3, <3>4
  <2> QED BY <2>2, <2>4, <2>5
<1>5. ASSUME NEW c \in Ingesters, StorePoints(c) \/ DocumentEnds(c) \/ CancelJob(c)
      PROVE  EInv' /\ SourcesStay /\ (~short' => ~short)
  <2>1. /\ emb' = [emb EXCEPT ![c] = EmbIdle] /\ UNCHANGED <<settings, redis, memory, short, sources>>
        /\ \A x \in Ingesters \ {c} : job'[x] = job[x]
    BY <1>5, <1>f DEF StorePoints, DocumentEnds, CancelJob
  <2>2. \A x \in Ingesters : emb'[x].phase = "idle" \/ (emb'[x] = emb[x] /\ job'[x] = job[x])
    BY <1>e, <1>f, <2>1
  <2> QED BY <1>d, <2>1, <2>2, SameSources DEF EInv
<1>6. ASSUME NEW c \in Ingesters, JobStep(c)
      PROVE  EInv' /\ SourcesStay /\ (~short' => ~short)
  BY <1>2, <1>4, <1>5, <1>6, <1>g, <1>s DEF JobStep, EmbStep, StoreStep
<1>7. ASSUME NEW c \in Admins, Administer(c) \/ StoreStep(c)
      PROVE  EInv' /\ SourcesStay /\ (~short' => ~short)
  BY <1>7, <1>s DEF Administer, StoreStep
<1>8. CASE Fault
  <2>1. ASSUME NEW c \in Ingesters, EmbedFaults(c), UNCHANGED <<storeVars, job, sources>>
        PROVE  EInv' /\ SourcesStay /\ (~short' => ~short)
    BY <1>g, <2>1
  <2>2. CASE CacheSteps /\ UNCHANGED <<storeVars, job, sources>>
    <3>1. UNCHANGED <<settings, emb, short>>
      BY <2>2 DEF CacheSteps, Invalidate, ClearCache, RedisLoses
    <3>2. ASSUME ~short' PROVE CachedUnderItsText'
      <4>1. CachedUnderItsText
        BY <3>1, <3>2 DEF EInv, VectorsAreInPlace
      <4>2. /\ \A k \in DOMAIN memory' : k \in DOMAIN memory /\ memory'[k] = memory[k]
            /\ \A k \in DOMAIN redis' : k \in DOMAIN redis /\ redis'[k] = redis[k]
        BY <2>2 DEF CacheSteps, Invalidate, ClearCache, RedisLoses, Lacking, NoCache
      <4> QED BY <3>1, <3>2, <4>1, <4>2 DEF CachedUnderItsText
    <3>3. VectorsAreInPlace'
      BY <2>2, <3>1, <3>2, SameSources, InPlaceStays DEF EInv
    <3> QED BY <2>2, <3>1, <3>3, SameSources DEF EInv
  <2>3. CASE Restart
    <3>1. /\ emb' = [c \in Ingesters |-> EmbIdle] /\ memory' = NoCache /\ UNCHANGED <<redis, short, sources>>
      BY <2>3, ClientsAssumption DEF Restart, RestartEmbeddings
    <3>2. ~short' => CachedUnderItsText'
      BY <3>1 DEF EInv, VectorsAreInPlace, CachedUnderItsText, NoCache
    <3>3. \A c \in Ingesters : emb'[c].phase = "idle"
      BY <1>e, <3>1
    <3>4. VectorsAreInPlace'
      BY <3>1, <3>2, <3>3, SameSources, InPlaceStays DEF EInv
    <3> QED BY <3>1, <3>4, SameSources DEF EInv
  <2> QED BY <1>5, <1>8, <1>s, <2>1, <2>2, <2>3 DEF Fault
<1>9. CASE LateSteps /\ UNCHANGED <<embVars, job, sources, disturbances>>
  BY <1>9, <1>s
<1>10. CASE UNCHANGED vars
  BY <1>10, <1>s DEF vars
<1> QED BY <1>1, <1>2, <1>3, <1>6, <1>7, <1>8, <1>9, <1>10 DEF Next

-----------------------------------------------------------------------------
(* The points of a document, in batches.                                    *)

\* The batch has the points a, ..., b - 1 of the document.
Span(new, d, a, b) == DOMAIN new = {<<d, i>> : i \in a..(b - 1)}

\* Every multiple of the size of a batch ends one, and so does the last point.
Cut(n, k) == IF k * BatchSize < n THEN k * BatchSize ELSE n

\* Batch number b, of the n points of a document, begins after the earlier
\* ones and ends where the next one begins.
LEMMA CutsAreMultiples ==
  ASSUME NEW n \in Nat \ {0}
  PROVE  LET l == (n + BatchSize - 1) \div BatchSize
         IN  /\ l \in Nat \ {0} /\ Cut(n, 0) = 0 /\ Cut(n, l) = n
             /\ \A k \in Nat : Cut(n, k) \in 0..n
             /\ \A b \in 1..l : \A i \in 0..(n - 1) :
                  i \div BatchSize = b - 1 <=> i \in Cut(n, b - 1)..(Cut(n, b) - 1)
<1>1. PICK s \in Nat \ {0} : s = BatchSize
  BY BatchSizeAssumption
<1>2. PICK x \in Int : x = n + s - 1
  OBVIOUS
<1>3. PICK l \in Int : l = x \div s
  BY <1>1, <1>2
<1>q. \A m \in Int, d \in Nat \ {0} : m \div d \in Int /\ d * (m \div d) <= m /\ m < d * (m \div d) + d
  OBVIOUS
<1>4. s * l <= x /\ x < s * l + s
  BY <1>1, <1>2, <1>3, <1>q
<1>5. s * l >= n /\ s * (l - 1) < n
  <2>1. PICK m \in Int : m = s * l
    OBVIOUS
  <2>2. s * (l - 1) = m - s
    BY <2>1
  <2> QED BY <1>2, <1>4, <2>1, <2>2
<1>6. l >= 1
  <2>1. l <= 0 => s * l <= 0
    OBVIOUS
  <2> QED BY <1>5, <2>1
<1>7. \A k \in Nat : Cut(n, k) = IF k * s < n THEN k * s ELSE n
  BY <1>1 DEF Cut
<1>8. Cut(n, 0) = 0 /\ Cut(n, l) = n
  <2>1. l * s = s * l /\ 0 * s = 0
    OBVIOUS
  <2> QED BY <1>5, <1>6, <1>7, <2>1
<1>9. ASSUME NEW k \in Nat PROVE Cut(n, k) \in 0..n
  <2>1. k * s \in Nat
    OBVIOUS
  <2> QED BY <1>7, <2>1
<1>10. ASSUME NEW b \in 1..l, NEW i \in 0..(n - 1)
       PROVE  i \div s = b - 1 <=> i \in Cut(n, b - 1)..(Cut(n, b) - 1)
  <2>1. PICK m \in Int : m = (b - 1) * s
    OBVIOUS
  <2>2. b * s = m + s
    BY <2>1
  <2>3. m < n
    <3>1. (b - 1) * s <= (l - 1) * s
      OBVIOUS
    <3>2. (l - 1) * s = s * (l - 1)
      OBVIOUS
    <3> QED BY <1>5, <2>1, <3>1, <3>2
  <2>4. Cut(n, b - 1) = m
    BY <1>7, <2>1, <2>3
  <2>5. Cut(n, b) = IF m + s < n THEN m + s ELSE n
    BY <1>7, <2>2
  <2>6. i \div s = b - 1 <=> m <= i /\ i < m + s
    <3>1. PICK q \in Int : q = i \div s
      OBVIOUS
    <3>2. PICK p \in Int : p = s * q /\ p <= i /\ i < p + s
      BY <1>q, <3>1
    <3>3. q = b - 1 => p = m
      BY <2>1, <3>2
    <3>4. q < b - 1 => p + s <= m
      <4>1. q + 1 <= b - 1 => s * (q + 1) <= s * (b - 1)
        OBVIOUS
      <4>2. s * (q + 1) = p + s
        BY <3>2
      <4>3. s * (b - 1) = m
        BY <2>1
      <4> QED BY <4>1, <4>2, <4>3
    <3>5. q > b - 1 => p >= m + s
      <4>1. q >= b => s * q >= s * b
        OBVIOUS
      <4>2. s * b = m + s
        BY <2>2
      <4> QED BY <3>2, <4>1, <4>2
    <3> QED BY <3>1, <3>2, <3>3, <3>4, <3>5
  <2> QED BY <2>3, <2>4, <2>5, <2>6
<1>11. \A b \in 1..l : \A i \in 0..(n - 1) :
         i \div BatchSize = b - 1 <=> i \in Cut(n, b - 1)..(Cut(n, b) - 1)
  BY <1>1, <1>10
<1> QED BY <1>1, <1>2, <1>3, <1>6, <1>8, <1>9, <1>11

\* upsert() sends the n points of a list in batches that follow one another.
Listed(new, ids, d, n) ==
  /\ ids = [i \in 1..n |-> <<d, i - 1>>]
  /\ Span(new, d, 0, n)

Consecutive(batches, new, d, n) ==
  \E l \in Nat \ {0} :
    /\ IsSeq(batches) /\ Len(batches) = l
    /\ \E cuts \in [0..l -> Nat] :
         /\ cuts[0] = 0 /\ cuts[l] = n
         /\ \A b \in 1..l : Span(batches[b], d, cuts[b - 1], cuts[b])
    /\ \A b \in 1..l : \A id \in DOMAIN batches[b] :
         id \in DOMAIN new /\ batches[b][id] = new[id]

LEMMA BatchesAreConsecutive ==
  ASSUME NEW d, NEW n \in Nat, NEW new, NEW ids, Listed(new, ids, d, n)
  PROVE  Consecutive(IF ids = <<>> THEN <<Empty>> ELSE Batches(new, ids), new, d, n)
<1>0. IsSeq(ids) /\ Len(ids) = n /\ DOMAIN ids = 1..n /\ \A i \in 1..n : ids[i] = <<d, i - 1>>
  <2>1. ids = [i \in 1..n |-> ids[i]] /\ \A i \in 1..n : ids[i] = <<d, i - 1>>
    BY DEF Listed
  <2> QED BY <2>1, SeqFromFunction
<1>1. CASE n = 0
  <2>1. ids = <<>>
    BY <1>0, <1>1 DEF IsSeq
  <2>2. IsSeq(<<Empty>>) /\ Len(<<Empty>>) = 1 /\ <<Empty>>[1] = Empty
    <3>1. <<Empty>> \in Seq({Empty})
      OBVIOUS
    <3> QED BY <3>1 DEF IsSeq
  <2> DEFINE cuts == [k \in 0..1 |-> 0]
  <2>3. cuts \in [0..1 -> Nat] /\ cuts[0] = 0 /\ cuts[1] = 0
    OBVIOUS
  <2> HIDE DEF cuts
  <2>4. DOMAIN Empty = {}
    BY DEF Empty
  <2>5. Span(Empty, d, 0, 0)
    BY <2>4 DEF Span
  <2> DEFINE batches == <<Empty>>
  <2>6. IsSeq(batches) /\ Len(batches) = 1 /\ batches[1] = Empty
    BY <2>2
  <2> HIDE DEF batches
  <2>7. Consecutive(batches, new, d, n)
    <3>1. ASSUME NEW b \in 1..1
          PROVE  Span(batches[b], d, cuts[b - 1], cuts[b]) /\ DOMAIN batches[b] = {}
      <4>1. b = 1 /\ b - 1 = 0
        OBVIOUS
      <4> QED BY <2>3, <2>4, <2>5, <2>6, <4>1
    <3>2. \A b \in 1..1 : Span(batches[b], d, cuts[b - 1], cuts[b])
      BY <3>1
    <3>3. \A b \in 1..1 : \A id \in DOMAIN batches[b] : id \in DOMAIN new /\ batches[b][id] = new[id]
      BY <3>1
    <3>4. PICK l \in Nat \ {0} : l = 1
      OBVIOUS
    <3> QED BY <1>1, <2>3, <2>6, <3>2, <3>3, <3>4 DEF Consecutive
  <2> QED BY <2>1, <2>7 DEF batches
<1>2. CASE n # 0
  <2> DEFINE At(b) == {ids[i] : i \in {j \in DOMAIN ids : (j - 1) \div BatchSize = b - 1}}
             Batch(b) == [id \in At(b) |-> new[id]]
  <2>l. PICK l \in Nat \ {0} :
          /\ l = (n + BatchSize - 1) \div BatchSize
          /\ Cut(n, 0) = 0 /\ Cut(n, l) = n
          /\ \A k \in Nat : Cut(n, k) \in 0..n
          /\ \A b \in 1..l : \A i \in 0..(n - 1) :
               i \div BatchSize = b - 1 <=> i \in Cut(n, b - 1)..(Cut(n, b) - 1)
    BY <1>2, CutsAreMultiples
  <2>1. PICK batches : batches = [b \in 1..l |-> Batch(b)]
    OBVIOUS
  <2>2. batches = Batches(new, ids)
    BY <1>0, <2>l, <2>1 DEF Batches
  <2>3. ids # <<>>
    BY <1>0, <1>2
  <2>4. IsSeq(batches) /\ Len(batches) = l /\ \A b \in 1..l : batches[b] = Batch(b)
    <3> HIDE DEF Batch
    <3>1. batches = [b \in 1..l |-> batches[b]] /\ \A b \in 1..l : batches[b] = Batch(b)
      BY <2>1
    <3> QED BY <3>1, SeqFromFunction
  <2>5. PICK cuts : cuts = [k \in 0..l |-> Cut(n, k)]
    OBVIOUS
  <2>6. /\ cuts \in [0..l -> Nat] /\ cuts[0] = 0 /\ cuts[l] = n
        /\ \A b \in 1..l : cuts[b - 1] = Cut(n, b - 1) /\ cuts[b] = Cut(n, b)
    BY <2>l, <2>5
  <2>7. ASSUME NEW b \in 1..l PROVE At(b) = {<<d, i>> : i \in Cut(n, b - 1)..(Cut(n, b) - 1)}
    <3>0. Cut(n, b - 1) \in 0..n /\ Cut(n, b) \in 0..n
      BY <2>l
    <3>1. ASSUME NEW i \in 1..n, (i - 1) \div BatchSize = b - 1
          PROVE  ids[i] \in {<<d, k>> : k \in Cut(n, b - 1)..(Cut(n, b) - 1)}
      <4>1. PICK k \in 0..(n - 1) : k = i - 1
        OBVIOUS
      <4>2. k \in Cut(n, b - 1)..(Cut(n, b) - 1)
        BY <2>l, <3>1, <4>1
      <4> QED BY <1>0, <4>1, <4>2
    <3>2. ASSUME NEW k \in Cut(n, b - 1)..(Cut(n, b) - 1)
          PROVE  <<d, k>> \in At(b)
      <4>1. k \in 0..(n - 1)
        BY <3>0
      <4>2. k \div BatchSize = b - 1
        BY <2>l, <4>1
      <4>3. PICK i \in 1..n : i - 1 = k
        BY <4>1
      <4> QED BY <1>0, <4>2, <4>3
    <3>3. \A y : y \in At(b) <=> \E i \in 1..n : (i - 1) \div BatchSize = b - 1 /\ y = ids[i]
      BY <1>0
    <3> HIDE DEF At
    <3> QED BY <3>1, <3>2, <3>3
  <2>8. ASSUME NEW b \in 1..l
        PROVE  /\ Span(batches[b], d, cuts[b - 1], cuts[b])
               /\ \A id \in DOMAIN batches[b] : id \in DOMAIN new /\ batches[b][id] = new[id]
    <3>1. batches[b] = Batch(b)
      BY <2>4
    <3>2. DOMAIN batches[b] = At(b) /\ \A id \in At(b) : batches[b][id] = new[id]
      BY <3>1
    <3>3. At(b) \subseteq DOMAIN new
      <4>1. \A k \in Cut(n, b - 1)..(Cut(n, b) - 1) : k \in 0..(n - 1)
        BY <2>l
      <4> HIDE DEF At
      <4> QED BY <2>7, <4>1 DEF Listed, Span
    <3> HIDE DEF At
    <3> QED BY <2>6, <2>7, <3>2, <3>3 DEF Span
  <2>9. Consecutive(batches, new, d, n)
    BY <2>4, <2>6, <2>8 DEF Consecutive
  <2> QED BY <2>2, <2>3, <2>9
<1> QED BY <1>1, <1>2

ChunksFor(d) == ChunksOf(sources[d].kind, sources[d].text)

\* The point of a chunk, at its place, with a vector of its own text.
GoodPoint(id, p) ==
  \E d \in DOMAIN sources : \E i \in Nat :
    /\ id = <<d, i>> /\ i + 1 \in DOMAIN ChunksFor(d) /\ p.content = ChunksFor(d)[i + 1]
    /\ ~short => p.vector.of = IF sources[d].kind = "document" THEN <<"zeros">>
                               ELSE Norm(p.content)
Good(new) == \A id \in DOMAIN new : GoodPoint(id, new[id])

\* The first n points of the document are in the collection.
Reached(d, n) == \A i \in 0..(n - 1) : <<d, i>> \in DOMAIN points
Untouched(d) == fate[d] \in {"none", "stored"}

\* Points of a document that, unless some were deleted, leave no gap.
Fits(new, d) ==
  /\ d \in DOMAIN sources /\ Good(new)
  /\ \E a, b \in Nat : Span(new, d, a, b) /\ (Untouched(d) => Reached(d, a))

\* Those that still have to be stored follow those that are, to the last one.
UploadGoesOn(t) ==
  /\ t.doc \in DOMAIN sources /\ IsSeq(t.rest)
  /\ Good(t.req.new) /\ \A k \in DOMAIN t.rest : Good(t.rest[k])
  /\ \E l \in Nat \ {0} :
       /\ l = Len(t.rest) + 1
       /\ \E cuts \in [0..l -> Nat] :
            /\ Span(t.req.new, t.doc, cuts[0], cuts[1])
            /\ \A k \in 1..(l - 1) : Span(t.rest[k], t.doc, cuts[k], cuts[k + 1])
            /\ ~short => cuts[l] = Len(ChunksFor(t.doc))
            /\ Untouched(t.doc) => Reached(t.doc, cuts[0])

PointsHold ==
  /\ Good(points)
  /\ \A d \in Docs : Untouched(d) =>
       \A i \in Nat : <<d, i>> \in DOMAIN points => Reached(d, i)
  /\ \A d \in Docs : fate[d] = "stored" =>
       d \in DOMAIN sources /\ (~short => Reached(d, Len(ChunksFor(d))))

LateHolds == \A r \in late : r.kind = "upsert" => \E d : Fits(r.new, d)

TaskHolds(t) ==
  BusyTask(t) =>
    /\ t.op = "upsert" => UploadGoesOn(t)
    /\ t.req.kind = "delete" => \A id \in t.req.ids : id[1] = t.doc

EmbeddedHold == \A c \in Ingesters : emb[c].phase # "idle" => sources[job[c].doc].kind # "document"

\* What no step does to a document that is untouched afterwards: it was so
\* before, and had no point that it has lost.
Calm ==
  /\ SourcesStay /\ (~short' => ~short)
  /\ \A d \in Docs : Untouched(d)' =>
       Untouched(d) /\ \A i \in Nat : <<d, i>> \in DOMAIN points => <<d, i>> \in DOMAIN points'

LEMMA GoodStays ==
  ASSUME SourcesStay, ~short' => ~short, NEW new, Good(new)
  PROVE  Good(new)'
<1>1. ASSUME NEW id \in DOMAIN new PROVE GoodPoint(id, new[id])'
  <2>0. PICK p : p = new[id]
    OBVIOUS
  <2>1. PICK d \in DOMAIN sources : \E i \in Nat :
          /\ id = <<d, i>> /\ i + 1 \in DOMAIN ChunksFor(d) /\ p.content = ChunksFor(d)[i + 1]
          /\ ~short => p.vector.of = IF sources[d].kind = "document" THEN <<"zeros">>
                                     ELSE Norm(p.content)
    BY <1>1, <2>0 DEF Good, GoodPoint
  <2>2. PICK i \in Nat :
          /\ id = <<d, i>> /\ i + 1 \in DOMAIN ChunksFor(d) /\ p.content = ChunksFor(d)[i + 1]
          /\ ~short => p.vector.of = IF sources[d].kind = "document" THEN <<"zeros">>
                                     ELSE Norm(p.content)
    BY <2>1
  <2>3. d \in DOMAIN sources' /\ sources'[d] = sources[d]
    BY DEF SourcesStay
  <2>4. ChunksFor(d)' = ChunksFor(d)
    BY <2>3 DEF ChunksFor
  <2>5. GoodPoint(id, p)'
    BY <2>2, <2>3, <2>4 DEF GoodPoint
  <2> QED BY <2>0, <2>5
<1> QED BY <1>1 DEF Good

LEMMA ReachedStays ==
  ASSUME Calm, NEW d \in Docs, NEW n \in Nat, Untouched(d) => Reached(d, n)
  PROVE  Untouched(d)' => Reached(d, n)'
BY DEF Calm, Reached

LEMMA FitsStays ==
  ASSUME IInv, Calm, NEW new, NEW d, Fits(new, d)
  PROVE  Fits(new, d)'
<1>1. PICK a, b \in Nat : Span(new, d, a, b) /\ (Untouched(d) => Reached(d, a))
  BY DEF Fits
<1>2. d \in Docs /\ d \in DOMAIN sources'
  BY DEF IInv, JobsAreSound, Fits, Calm, SourcesStay
<1>3. Untouched(d)' => Reached(d, a)'
  BY <1>1, <1>2, ReachedStays
<1>4. Good(new)'
  BY GoodStays DEF Calm, Fits
<1> QED BY <1>1, <1>2, <1>3, <1>4 DEF Fits

LEMMA UploadStays ==
  ASSUME IInv, Calm, NEW t, UploadGoesOn(t)
  PROVE  UploadGoesOn(t)'
<1>1. PICK l \in Nat \ {0} :
       /\ l = Len(t.rest) + 1
       /\ \E cuts \in [0..l -> Nat] :
            /\ Span(t.req.new, t.doc, cuts[0], cuts[1])
            /\ \A k \in 1..(l - 1) : Span(t.rest[k], t.doc, cuts[k], cuts[k + 1])
            /\ ~short => cuts[l] = Len(ChunksFor(t.doc))
            /\ Untouched(t.doc) => Reached(t.doc, cuts[0])
  BY DEF UploadGoesOn
<1>2. PICK cuts \in [0..l -> Nat] :
            /\ Span(t.req.new, t.doc, cuts[0], cuts[1])
            /\ \A k \in 1..(l - 1) : Span(t.rest[k], t.doc, cuts[k], cuts[k + 1])
            /\ ~short => cuts[l] = Len(ChunksFor(t.doc))
            /\ Untouched(t.doc) => Reached(t.doc, cuts[0])
  BY <1>1
<1>d. PICK d : d = t.doc
  OBVIOUS
<1>3. d \in Docs /\ d \in DOMAIN sources' /\ sources'[d] = sources[d]
  BY <1>d DEF IInv, JobsAreSound, UploadGoesOn, Calm, SourcesStay
<1>4. Untouched(d)' => Reached(d, cuts[0])'
  <2>1. cuts[0] \in Nat
    BY <1>1
  <2> QED BY <1>d, <1>2, <1>3, <2>1, ReachedStays
<1>5. ~short' => cuts[l] = Len(ChunksFor(d)')
  <2>1. ChunksFor(d)' = ChunksFor(d)
    BY <1>3 DEF ChunksFor
  <2> QED BY <1>2, <1>d, <2>1 DEF Calm
<1>6. Good(t.req.new)' /\ \A k \in DOMAIN t.rest : Good(t.rest[k])'
  BY GoodStays DEF Calm, UploadGoesOn
<1>7. IsSeq(t.rest) /\ t.doc \in DOMAIN sources'
  BY <1>d, <1>3 DEF UploadGoesOn
<1>8. \A k \in 1..(l - 1) : Span(t.rest[k], t.doc, cuts[k], cuts[k + 1])
  BY <1>2
<1>9. /\ Span(t.req.new, t.doc, cuts[0], cuts[1])
      /\ ~short' => cuts[l] = Len(ChunksFor(t.doc)')
      /\ Untouched(t.doc)' => Reached(t.doc, cuts[0])'
  BY <1>2, <1>d, <1>4, <1>5
<1> QED BY <1>1, <1>6, <1>7, <1>8, <1>9 DEF UploadGoesOn

\* A request of an operation fits, whether its task waits for it or not.
LEMMA RequestFits ==
  ASSUME NEW t, UploadGoesOn(t)
  PROVE  Fits(t.req.new, t.doc)
<1>1. PICK l \in Nat \ {0} : \E cuts \in [0..l -> Nat] :
            /\ Span(t.req.new, t.doc, cuts[0], cuts[1])
            /\ Untouched(t.doc) => Reached(t.doc, cuts[0])
  BY DEF UploadGoesOn
<1>2. PICK cuts \in [0..l -> Nat] :
            /\ Span(t.req.new, t.doc, cuts[0], cuts[1])
            /\ Untouched(t.doc) => Reached(t.doc, cuts[0])
  BY <1>1
<1>3. cuts[0] \in Nat /\ cuts[1] \in Nat
  BY <1>1
<1> QED BY <1>2, <1>3 DEF Fits, UploadGoesOn

LEMMA LateStays ==
  ASSUME IInv, LateHolds, Calm, \A c \in Clients : TaskHolds(task[c]),
         \A r \in late' : r \in late \/ \E c \in Clients : BusyTask(task[c]) /\ r = task[c].req
  PROVE  LateHolds'
<1>1. ASSUME NEW r \in late', r.kind = "upsert" PROVE \E d : Fits(r.new, d)'
  <2>1. CASE r \in late
    BY <1>1, <2>1, FitsStays DEF LateHolds
  <2>2. ASSUME NEW c \in Clients, BusyTask(task[c]), r = task[c].req
        PROVE  \E d : Fits(r.new, d)'
    <3>0. PICK t : t = task[c]
      OBVIOUS
    <3>1. BusyTask(t) /\ IsTask(t) /\ TaskHolds(t) /\ r = t.req
      BY <2>2, <3>0 DEF IInv, TasksAreSound
    <3>2. t.op = "upsert"
      BY <1>1, <3>1 DEF IsTask
    <3>3. Fits(t.req.new, t.doc)
      BY <3>1, <3>2, RequestFits DEF TaskHolds
    <3>4. Fits(t.req.new, t.doc)'
      BY <3>3, FitsStays
    <3> QED BY <3>1, <3>4
  <2> QED BY <1>1, <2>1, <2>2
<1> QED BY <1>1 DEF LateHolds

\* An operation that goes on with the same requests, or is over, or is no upsert.
LEMMA TaskStays ==
  ASSUME IInv, Calm, NEW t, NEW u, TaskHolds(t),
         BusyTask(u) =>
           \/ BusyTask(t) /\ u.op = t.op /\ u.req = t.req /\ u.doc = t.doc /\ u.rest = t.rest
           \/ u.op # "upsert" /\ (u.req.kind = "delete" => \A id \in u.req.ids : id[1] = u.doc)
           \/ u.req.kind # "delete" /\ UploadGoesOn(u)'
  PROVE  TaskHolds(u)'
<1>1. CASE BusyTask(t) /\ u.op = t.op /\ u.req = t.req /\ u.doc = t.doc /\ u.rest = t.rest
  <2>1. t.op = "upsert" => UploadGoesOn(u)
    <3>1. t.op = "upsert" => UploadGoesOn(t)
      BY <1>1 DEF TaskHolds
    <3>2. UploadGoesOn(t) => UploadGoesOn(u)
      BY <1>1 DEF UploadGoesOn
    <3> QED BY <3>1, <3>2
  <2>2. u.op = "upsert" => UploadGoesOn(u)'
    BY <1>1, <2>1, UploadStays
  <2>3. u.req.kind = "delete" => \A id \in u.req.ids : id[1] = u.doc
    BY <1>1 DEF TaskHolds
  <2> QED BY <2>2, <2>3 DEF TaskHolds
<1>2. CASE u.op # "upsert" /\ (u.req.kind = "delete" => \A id \in u.req.ids : id[1] = u.doc)
  BY <1>2 DEF TaskHolds
<1>3. CASE u.req.kind # "delete" /\ UploadGoesOn(u)'
  BY <1>3 DEF TaskHolds
<1> QED BY <1>1, <1>2, <1>3 DEF TaskHolds

LEMMA PointsStay ==
  ASSUME IInv, PointsHold, Calm,
         \A id \in DOMAIN points' : id \in DOMAIN points /\ points'[id] = points[id],
         \A d \in Docs : fate'[d] = "stored" => fate[d] = "stored"
  PROVE  PointsHold'
<1>1. Good(points)'
  <2>1. PICK old : old = points
    OBVIOUS
  <2>2. Good(old)'
    BY <2>1, GoodStays DEF Calm, PointsHold
  <2>3. \A id \in DOMAIN points' : id \in DOMAIN old /\ points'[id] = old[id]
    BY <2>1
  <2> QED BY <2>2, <2>3 DEF Good
<1>2. ASSUME NEW d \in Docs, Untouched(d)', NEW i \in Nat, <<d, i>> \in DOMAIN points'
      PROVE  Reached(d, i)'
  <2>1. Untouched(d) /\ <<d, i>> \in DOMAIN points
    BY <1>2 DEF Calm
  <2>2. Reached(d, i)
    BY <2>1 DEF PointsHold
  <2> QED BY <1>2, <2>2, ReachedStays
<1>3. ASSUME NEW d \in Docs, fate'[d] = "stored"
      PROVE  d \in DOMAIN sources' /\ (~short' => Reached(d, Len(ChunksFor(d)))')
  <2>1. d \in DOMAIN sources /\ (~short => Reached(d, Len(ChunksFor(d))))
    BY <1>3 DEF PointsHold
  <2>2. d \in DOMAIN sources' /\ sources'[d] = sources[d]
    BY <2>1 DEF Calm, SourcesStay
  <2>3. PICK n : n = Len(ChunksFor(d))
    OBVIOUS
  <2>4. Len(ChunksFor(d))' = n
    BY <2>2, <2>3 DEF ChunksFor
  <2>5. ~short' => Reached(d, n)'
    BY <1>3, <2>1, <2>3 DEF Calm, Reached, Untouched
  <2> QED BY <2>2, <2>4, <2>5
<1> QED BY <1>1, <1>2, <1>3 DEF PointsHold, Good

\* A batch that fits is stored: the beginning grows.
LEMMA BeginningGrows ==
  ASSUME NEW d, NEW new, NEW a \in Nat, NEW b \in Nat, Span(new, d, a, b),
         Reached(d, a), points' = Merged(new)
  PROVE  /\ \A n \in Nat : Reached(d, n) => Reached(d, n)'
         /\ Reached(d, b)'
         /\ \A i \in Nat : <<d, i>> \in DOMAIN points' /\ <<d, i>> \notin DOMAIN points =>
              Reached(d, i)'
<1>1. DOMAIN points' = DOMAIN points \cup DOMAIN new
  BY DEF Merged
<1>2. \A i \in Nat : <<d, i>> \in DOMAIN new <=> i \in a..(b - 1)
  BY DEF Span
<1>3. \A n \in Nat : Reached(d, n) => Reached(d, n)'
  BY <1>1 DEF Reached
<1>4. Reached(d, b)'
  BY <1>1, <1>2 DEF Reached
<1>5. ASSUME NEW i \in Nat, <<d, i>> \in DOMAIN points', <<d, i>> \notin DOMAIN points
      PROVE  Reached(d, i)'
  BY <1>1, <1>2, <1>5 DEF Reached
<1> QED BY <1>3, <1>4, <1>5

LEMMA PointsMerge ==
  ASSUME IInv, PointsHold, SourcesStay, ~short' => ~short,
         NEW d, NEW new, Fits(new, d), points' = Merged(new),
         \/ fate' = fate
         \/ /\ fate' = [fate EXCEPT ![d] = IF @ = "none" THEN "stored" ELSE @]
            /\ Untouched(d) /\ ~short' => Reached(d, Len(ChunksFor(d)))'
  PROVE  Calm /\ PointsHold'
<1>1. PICK a, b \in Nat : Span(new, d, a, b) /\ (Untouched(d) => Reached(d, a))
  BY DEF Fits
<1>2. d \in Docs /\ d \in DOMAIN sources /\ Good(new)
  BY DEF IInv, JobsAreSound, Fits
<1>3. DOMAIN points' = DOMAIN points \cup DOMAIN new
  BY DEF Merged
<1>f. \A e \in Docs : fate'[e] = IF e = d /\ fate[e] = "none" /\ fate' # fate THEN "stored" ELSE fate[e]
  BY <1>2 DEF IInv, TasksAreSound
<1>4. Calm
  <2>1. ASSUME NEW e \in Docs, Untouched(e)' PROVE Untouched(e)
    BY <1>f, <2>1 DEF Untouched
  <2> QED BY <1>3, <2>1 DEF Calm
<1>5. Good(points)'
  <2>1. Good(new)'
    BY <1>2, GoodStays
  <2>2. PICK old : old = points
    OBVIOUS
  <2>3. Good(old)'
    BY <2>2, GoodStays DEF PointsHold
  <2>4. ASSUME NEW id \in DOMAIN points' PROVE GoodPoint(id, points[id])'
    <3>1. CASE id \in DOMAIN new
      BY <2>1, <3>1 DEF Merged, Good
    <3>2. CASE id \notin DOMAIN new
      <4>1. id \in DOMAIN old /\ points'[id] = old[id]
        BY <2>2, <2>4, <3>2 DEF Merged
      <4> QED BY <2>3, <4>1 DEF Good
    <3> QED BY <3>1, <3>2
  <2> QED BY <2>4 DEF Good
<1>6. ASSUME NEW e \in Docs, Untouched(e)', NEW i \in Nat, <<e, i>> \in DOMAIN points'
      PROVE  Reached(e, i)'
  <2>0. Untouched(e)
    BY <1>4, <1>6 DEF Calm
  <2>1. CASE <<e, i>> \in DOMAIN points
    <3>1. Reached(e, i)
      BY <2>0, <2>1 DEF PointsHold
    <3> QED BY <1>4, <1>6, <3>1, ReachedStays
  <2>2. CASE <<e, i>> \notin DOMAIN points
    <3>1. <<e, i>> \in DOMAIN new
      BY <1>3, <1>6, <2>2
    <3>2. e = d
      BY <1>1, <3>1 DEF Span
    <3> QED BY <1>1, <1>6, <2>0, <2>2, <3>2, BeginningGrows
  <2> QED BY <2>1, <2>2
<1>7. ASSUME NEW e \in Docs, fate'[e] = "stored"
      PROVE  e \in DOMAIN sources' /\ (~short' => Reached(e, Len(ChunksFor(e)))')
  <2>1. CASE fate[e] = "stored"
    <3>1. e \in DOMAIN sources /\ (~short => Reached(e, Len(ChunksFor(e))))
      BY <2>1 DEF PointsHold
    <3>2. e \in DOMAIN sources' /\ sources'[e] = sources[e]
      BY <3>1 DEF SourcesStay
    <3>3. PICK n : n = Len(ChunksFor(e))
      OBVIOUS
    <3>4. Len(ChunksFor(e))' = n
      BY <3>2, <3>3 DEF ChunksFor
    <3>5. ~short' => Reached(e, n)'
      BY <1>3, <3>1, <3>3 DEF Reached
    <3> QED BY <3>2, <3>4, <3>5
  <2>2. CASE fate[e] # "stored"
    <3>1. e = d /\ fate[d] = "none" /\ fate' # fate
      BY <1>f, <1>7, <2>2
    <3>2. Untouched(d)
      BY <3>1 DEF Untouched
    <3> QED BY <1>2, <3>1, <3>2 DEF SourcesStay
  <2> QED BY <2>1, <2>2
<1> QED BY <1>4, <1>5, <1>6, <1>7 DEF PointsHold, Good

\* The batch was stored: the next one fits.
LEMMA NextBatchFits ==
  ASSUME IInv, Calm, NEW t, NEW u, UploadGoesOn(t), points' = Merged(t.req.new),
         t.rest # <<>>, u.doc = t.doc, u.req.new = Head(t.rest), u.rest = Tail(t.rest)
  PROVE  UploadGoesOn(u)'
<1>1. PICK l \in Nat \ {0} :
       /\ l = Len(t.rest) + 1
       /\ \E cuts \in [0..l -> Nat] :
            /\ Span(t.req.new, t.doc, cuts[0], cuts[1])
            /\ \A k \in 1..(l - 1) : Span(t.rest[k], t.doc, cuts[k], cuts[k + 1])
            /\ ~short => cuts[l] = Len(ChunksFor(t.doc))
            /\ Untouched(t.doc) => Reached(t.doc, cuts[0])
  BY DEF UploadGoesOn
<1>2. PICK cuts \in [0..l -> Nat] :
            /\ Span(t.req.new, t.doc, cuts[0], cuts[1])
            /\ \A k \in 1..(l - 1) : Span(t.rest[k], t.doc, cuts[k], cuts[k + 1])
            /\ ~short => cuts[l] = Len(ChunksFor(t.doc))
            /\ Untouched(t.doc) => Reached(t.doc, cuts[0])
  BY <1>1
<1>d. PICK d : d = t.doc
  OBVIOUS
<1>3. d \in Docs /\ d \in DOMAIN sources' /\ sources'[d] = sources[d]
  BY <1>d DEF IInv, JobsAreSound, UploadGoesOn, Calm, SourcesStay
<1>4. PICK S : t.rest \in Seq(S)
  BY DEF UploadGoesOn, IsSeq
<1>5. /\ l - 1 \in Nat \ {0} /\ Len(t.rest) = l - 1 /\ u.rest \in Seq(S) /\ Len(u.rest) = l - 2
      /\ u.req.new = t.rest[1] /\ \A k \in 1..(l - 2) : u.rest[k] = t.rest[k + 1]
  BY <1>1, <1>4
<1>6. PICK m \in Nat \ {0} : m = l - 1
  BY <1>5
<1> DEFINE next == [k \in 0..m |-> cuts[k + 1]]
<1>7. next \in [0..m -> Nat] /\ \A k \in 0..m : next[k] = cuts[k + 1]
  BY <1>6
<1> HIDE DEF next
<1>8. m = Len(u.rest) + 1 /\ IsSeq(u.rest)
  BY <1>5, <1>6 DEF IsSeq
<1>9. Span(u.req.new, d, next[0], next[1])
  <2>1. next[0] = cuts[1] /\ next[1] = cuts[2] /\ 1 \in 1..(l - 1)
    BY <1>6, <1>7
  <2> QED BY <1>2, <1>5, <1>d, <2>1
<1>10. ASSUME NEW k \in 1..(m - 1) PROVE Span(u.rest[k], d, next[k], next[k + 1])
  <2>0. k \in 1..(l - 2)
    BY <1>6
  <2>1. k + 1 \in 1..(l - 1) /\ u.rest[k] = t.rest[k + 1]
    BY <1>5, <2>0
  <2>2. next[k] = cuts[k + 1] /\ next[k + 1] = cuts[(k + 1) + 1]
    BY <1>6, <1>7
  <2> QED BY <1>2, <1>d, <2>1, <2>2
<1>11. ~short' => next[m] = Len(ChunksFor(d)')
  <2>1. ChunksFor(d)' = ChunksFor(d)
    BY <1>3 DEF ChunksFor
  <2>2. next[m] = cuts[l]
    BY <1>6, <1>7
  <2> QED BY <1>2, <1>d, <2>1, <2>2 DEF Calm
<1>12. Untouched(d)' => Reached(d, next[0])'
  <2>1. cuts[0] \in Nat /\ cuts[1] \in Nat /\ next[0] = cuts[1]
    BY <1>1, <1>7
  <2>2. Untouched(d)' => Untouched(d)
    BY <1>3 DEF Calm
  <2> QED BY <1>2, <1>d, <2>1, <2>2, BeginningGrows
<1>13. Good(u.req.new)' /\ \A k \in DOMAIN u.rest : Good(u.rest[k])'
  <2>1. \A k \in DOMAIN t.rest : Good(t.rest[k])'
    BY GoodStays DEF Calm, UploadGoesOn
  <2>2. 1 \in DOMAIN t.rest /\ \A k \in DOMAIN u.rest : k + 1 \in DOMAIN t.rest /\ u.rest[k] = t.rest[k + 1]
    <3>1. DOMAIN t.rest = 1..(l - 1) /\ DOMAIN u.rest = 1..(l - 2)
      BY <1>4, <1>5
    <3>2. \A k \in 1..(l - 2) : k + 1 \in 1..(l - 1)
      OBVIOUS
    <3>3. 1 \in 1..(l - 1)
      BY <1>5
    <3> QED BY <1>5, <3>1, <3>2, <3>3
  <2> QED BY <1>5, <2>1, <2>2
<1>14. u.doc = d /\ u.doc \in DOMAIN sources'
  BY <1>3, <1>d
<1> QED BY <1>8, <1>7, <1>9, <1>10, <1>11, <1>12, <1>13, <1>14 DEF UploadGoesOn

\* The last batch was stored: all chunks are there.
LEMMA LastBatchFits ==
  ASSUME IInv, SourcesStay, NEW t, UploadGoesOn(t), points' = Merged(t.req.new), t.rest = <<>>
  PROVE  Untouched(t.doc) /\ ~short => Reached(t.doc, Len(ChunksFor(t.doc)))'
<1>1. PICK l \in Nat \ {0} :
       /\ l = Len(t.rest) + 1
       /\ \E cuts \in [0..l -> Nat] :
            /\ Span(t.req.new, t.doc, cuts[0], cuts[1])
            /\ ~short => cuts[l] = Len(ChunksFor(t.doc))
            /\ Untouched(t.doc) => Reached(t.doc, cuts[0])
  BY DEF UploadGoesOn
<1>2. PICK cuts \in [0..l -> Nat] :
            /\ Span(t.req.new, t.doc, cuts[0], cuts[1])
            /\ ~short => cuts[l] = Len(ChunksFor(t.doc))
            /\ Untouched(t.doc) => Reached(t.doc, cuts[0])
  BY <1>1
<1>3. l = 1
  BY <1>1
<1>4. cuts[0] \in Nat /\ cuts[1] \in Nat
  BY <1>1
<1>d. PICK d : d = t.doc
  OBVIOUS
<1>5. sources'[d] = sources[d]
  BY <1>d DEF UploadGoesOn, SourcesStay
<1>6. PICK n : n = Len(ChunksFor(d))
  OBVIOUS
<1>7. Len(ChunksFor(d))' = n
  BY <1>5, <1>6 DEF ChunksFor
<1>8. Untouched(d) /\ ~short => Reached(d, n)'
  BY <1>2, <1>3, <1>4, <1>6, <1>d, BeginningGrows
<1> QED BY <1>7, <1>8, <1>d

TasksHold == \A c \in Clients : TaskHolds(task[c])
SInv == PointsHold /\ LateHolds /\ TasksHold

\* The operation is over, or goes on with the same requests.
Same(t, u) ==
  BusyTask(u) =>
    BusyTask(t) /\ u.op = t.op /\ u.req = t.req /\ u.doc = t.doc /\ u.rest = t.rest

LEMMA OneTask ==
  ASSUME IInv, Calm, TasksHold, NEW c \in Clients, NEW t, task' = [task EXCEPT ![c] = t],
         TaskHolds(t)'
  PROVE  TasksHold'
<1>1. ASSUME NEW x \in Clients PROVE TaskHolds(task[x])'
  <2>1. CASE x = c
    <3>1. task'[x] = t
      BY <2>1 DEF IInv, TasksAreSound
    <3> QED BY <3>1
  <2>2. CASE x # c
    <3>1. PICK u : u = task[x]
      OBVIOUS
    <3>2. task'[x] = u
      BY <2>2, <3>1 DEF IInv, TasksAreSound
    <3>3. TaskHolds(u)
      BY <3>1 DEF TasksHold
    <3>4. TaskHolds(u)'
      BY <3>3, TaskStays
    <3> QED BY <3>2, <3>4
  <2> QED BY <2>1, <2>2
<1> QED BY <1>1 DEF TasksHold

LEMMA SameTasks ==
  ASSUME IInv, Calm, TasksHold, \A x \in Clients : Same(task[x], task'[x])
  PROVE  TasksHold'
<1>1. ASSUME NEW x \in Clients PROVE TaskHolds(task[x])'
  <2>1. PICK t, u : t = task[x] /\ u = task'[x]
    OBVIOUS
  <2>2. TaskHolds(t) /\ Same(t, u)
    BY <2>1 DEF TasksHold
  <2>3. TaskHolds(u)'
    BY <2>2, TaskStays DEF Same
  <2> QED BY <2>1, <2>3
<1> QED BY <1>1 DEF TasksHold

LEMMA OneIsSame ==
  ASSUME TasksAreSound, NEW c \in Clients, NEW t, task' = [task EXCEPT ![c] = t],
         Same(task[c], t)
  PROVE  \A x \in Clients : Same(task[x], task'[x])
<1>1. task'[c] = t /\ \A x \in Clients \ {c} : task'[x] = task[x]
  BY DEF TasksAreSound
<1>2. \A x \in Clients \ {c} : Same(task[x], task'[x])
  BY <1>1 DEF Same
<1> QED BY <1>1, <1>2

LEMMA EndIsSame ==
  ASSUME TasksAreSound, NEW c \in Clients,
         \/ task' = Ended(c, "returned") \/ task' = Ended(c, "raised")
         \/ task' = [task EXCEPT ![c] = Idle]
  PROVE  \A x \in Clients : Same(task[x], task'[x])
<1>1. \E t : task' = [task EXCEPT ![c] = t] /\ ~BusyTask(t)
  <2>1. CASE task' = [task EXCEPT ![c] = Idle]
    <3>1. ~BusyTask(Idle)
      BY DEF BusyTask, Idle
    <3> QED BY <2>1, <3>1
  <2>2. ASSUME NEW phase \in {"returned", "raised"}, task' = Ended(c, phase)
        PROVE  \E t : task' = [task EXCEPT ![c] = t] /\ ~BusyTask(t)
    BY <2>2, EndedIsOver
  <2> QED BY <2>1, <2>2
<1>2. PICK t : task' = [task EXCEPT ![c] = t] /\ ~BusyTask(t)
  BY <1>1
<1>3. Same(task[c], t)
  BY <1>2 DEF Same
<1> QED BY <1>2, <1>3, OneIsSame

LEMMA AttemptIsSame ==
  ASSUME TasksAreSound, NEW c \in Clients, BusyTask(task[c]), NEW phase, NEW n,
         task' = [task EXCEPT ![c] = [task[c] EXCEPT !.phase = phase, !.attempt = n]]
  PROVE  \A x \in Clients : Same(task[x], task'[x])
<1>1. PICK o : o = task[c]
  OBVIOUS
<1>2. BusyTask(o) /\ HasFields(o)
  BY <1>1 DEF TasksAreSound, IsTask
<1>3. PICK t : t = [o EXCEPT !.phase = phase, !.attempt = n]
  OBVIOUS
<1>4. t.op = o.op /\ t.req = o.req /\ t.doc = o.doc /\ t.rest = o.rest
  BY <1>2, <1>3, AttemptHasFields
<1>5. Same(o, t)
  BY <1>2, <1>4 DEF Same
<1> QED BY <1>1, <1>3, <1>5, OneIsSame

\* All but an upsert that goes on and a search that found points.
LEMMA OperationsAreSame ==
  ASSUME TasksAreSound, NEW c \in Clients,
         \/ Refuse(c) \/ Fail(c) \/ Wake(c) \/ CancelOperation(c)
         \/ DeleteAnswered(c) \/ CollectionAnswered(c)
  PROVE  \A x \in Clients : Same(task[x], task'[x])
<1>1. ASSUME NEW existed \in BOOLEAN, task' = AfterError(c, existed), task[c].phase = "waiting"
      PROVE  \A x \in Clients : Same(task[x], task'[x])
  <2>1. CASE LastAttempt(c)
    <3>1. task' = Ended(c, "returned") \/ task' = Ended(c, "raised")
      BY <1>1, <2>1 DEF AfterError
    <3> QED BY <3>1, EndIsSame
  <2>2. CASE ~LastAttempt(c)
    <3>1. PICK n : n = task[c].attempt + 1
      OBVIOUS
    <3>2. task' = [task EXCEPT ![c] = [task[c] EXCEPT !.phase = "pause", !.attempt = n]]
      BY <1>1, <2>2, <3>1 DEF AfterError, SentAgain, TasksAreSound
    <3>3. BusyTask(task[c])
      BY <1>1 DEF BusyTask
    <3> QED BY <3>2, <3>3, AttemptIsSame
  <2> QED BY <2>1, <2>2
<1>2. CASE Refuse(c)
  <2>1. (task[c].req.kind = "create") \in BOOLEAN
    OBVIOUS
  <2> QED BY <1>1, <1>2, <2>1 DEF Refuse
<1>3. CASE Fail(c)
  BY <1>1, <1>3 DEF Fail
<1>4. CASE Wake(c)
  <2>1. BusyTask(task[c]) /\ HasFields(task[c])
    BY <1>4 DEF Wake, BusyTask, TasksAreSound, IsTask
  <2>2. PICK o, n : o = task[c] /\ n = o.attempt
    OBVIOUS
  <2>3. [o EXCEPT !.phase = "waiting"] = [o EXCEPT !.phase = "waiting", !.attempt = n]
    BY <2>1, <2>2 DEF HasFields
  <2>4. task' = [task EXCEPT ![c] = [o EXCEPT !.phase = "waiting"]]
    BY <1>4, <2>2 DEF Wake, TasksAreSound
  <2>5. task' = [task EXCEPT ![c] = [task[c] EXCEPT !.phase = "waiting", !.attempt = n]]
    BY <2>2, <2>3, <2>4
  <2> QED BY <2>1, <2>5, AttemptIsSame
<1>5. CASE CancelOperation(c)
  BY <1>5, EndIsSame DEF CancelOperation
<1>6. CASE DeleteAnswered(c) \/ CollectionAnswered(c)
  BY <1>6, EndIsSame DEF DeleteAnswered, CollectionAnswered
<1> QED BY <1>2, <1>3, <1>4, <1>5, <1>6

LEMMA CalmWithoutPoints ==
  ASSUME SourcesStay, ~short' => ~short, UNCHANGED <<points, fate>>
  PROVE  Calm
BY DEF Calm, Untouched

\* Points are taken away: who lost any is known.
LEMMA LosersAreTouched ==
  ASSUME IInv, NEW ids, Lose(ids)
  PROVE  /\ \A id \in DOMAIN points' : id \in DOMAIN points /\ points'[id] = points[id]
         /\ \A d \in Docs : fate'[d] = "stored" => fate[d] = "stored"
         /\ \A d \in Docs : Untouched(d)' =>
              Untouched(d) /\ \A i \in Nat : <<d, i>> \in DOMAIN points => <<d, i>> \in DOMAIN points'
<1>1. points' = [id \in DOMAIN points \ ids |-> points[id]]
  BY DEF Lose
<1>2. \A d \in Docs : fate'[d] =
        IF fate[d] # "gone" /\ \E id \in ids \cap DOMAIN points : id[1] = d
        THEN "touched" ELSE fate[d]
  BY DEF Lose
<1>3. ASSUME NEW d \in Docs, Untouched(d)'
      PROVE  Untouched(d) /\ \A i \in Nat : <<d, i>> \in DOMAIN points => <<d, i>> \in DOMAIN points'
  <2>1. Untouched(d) /\ \A id \in ids \cap DOMAIN points : id[1] # d
    BY <1>2, <1>3 DEF Untouched
  <2> QED BY <1>1, <2>1
<1>4. \A d \in Docs : fate'[d] = "stored" => fate[d] = "stored"
  BY <1>2
<1> QED BY <1>1, <1>3, <1>4

\* A request takes effect, whoever waits for it.
LEMMA EffectHolds ==
  ASSUME IInv, PointsHold, SourcesStay, ~short' => ~short, NEW r, Effect(r),
         r.kind = "upsert" => \E d : Fits(r.new, d)
  PROVE  Calm /\ PointsHold'
<1>1. CASE r.kind = "upsert" /\ points' = Merged(r.new) /\ fate' = fate
  BY <1>1, PointsMerge
<1>2. CASE points' = points /\ fate' = fate
  <2>1. Calm
    BY <1>2, CalmWithoutPoints
  <2> QED BY <1>2, <2>1, PointsStay
<1>3. ASSUME NEW ids, Lose(ids) PROVE Calm /\ PointsHold'
  <2>1. Calm
    BY <1>3, LosersAreTouched DEF Calm
  <2> QED BY <1>3, <2>1, LosersAreTouched, PointsStay
<1> QED BY <1>1, <1>2, <1>3 DEF Effect

LEMMA StoreKeepsSInv ==
  ASSUME IInv, SInv, SourcesStay, ~short' => ~short, NEW c \in Clients,
         Progress(c) \/ Fail(c) \/ CancelOperation(c)
  PROVE  SInv'
<1>s. TasksAreSound /\ PointsHold /\ LateHolds /\ TasksHold
  BY DEF IInv, SInv
<1>l. ASSUME Calm, late' = late \/ (BusyTask(task[c]) /\ late' = late \cup {task[c].req})
      PROVE  LateHolds'
  <2>1. \A r \in late' : r \in late \/ \E x \in Clients : BusyTask(task[x]) /\ r = task[x].req
    BY <1>l
  <2> QED BY <1>l, <1>s, <2>1, LateStays DEF TasksHold
<1>1. CASE Refuse(c) \/ Wake(c) \/ Fail(c) \/ CancelOperation(c)
  <2>1. UNCHANGED <<points, fate>>
    BY <1>1 DEF Refuse, Wake, Fail, CancelOperation
  <2>2. Calm
    BY <2>1, CalmWithoutPoints
  <2>3. late' = late \/ (BusyTask(task[c]) /\ late' = late \cup {task[c].req})
    BY <1>1 DEF Refuse, Wake, Fail, CancelOperation, Unheeded, BusyTask
  <2>4. PointsHold'
    BY <1>s, <2>1, <2>2, PointsStay
  <2>5. TasksHold'
    BY <1>1, <1>s, <2>2, OperationsAreSame, SameTasks
  <2> QED BY <1>l, <2>2, <2>3, <2>4, <2>5 DEF SInv
<1>2. CASE DeleteAnswered(c)
  <2>0. PICK t : t = task[c]
    OBVIOUS
  <2>1. /\ points' = [id \in DOMAIN points \ t.req.ids |-> points[id]]
        /\ fate' = [fate EXCEPT ![t.doc] = IF t.clean \/ @ = "gone" THEN "gone" ELSE "touched"]
        /\ late' = late /\ BusyTask(t) /\ t.req.kind = "delete"
    BY <1>2, <2>0 DEF DeleteAnswered, BusyTask
  <2>2. \A id \in t.req.ids : id[1] = t.doc
    BY <1>s, <2>0, <2>1 DEF TasksHold, TaskHolds
  <2>3. \A d \in Docs : Untouched(d)' => d # t.doc /\ Untouched(d)
    BY <1>s, <2>1 DEF TasksAreSound, Untouched
  <2>4. Calm
    <3>1. \A d \in Docs : d # t.doc =>
            \A i \in Nat : <<d, i>> \in DOMAIN points => <<d, i>> \in DOMAIN points'
      BY <2>1, <2>2
    <3> QED BY <2>3, <3>1 DEF Calm
  <2>5. PointsHold'
    <3>1. \A id \in DOMAIN points' : id \in DOMAIN points /\ points'[id] = points[id]
      BY <2>1
    <3>2. \A d \in Docs : fate'[d] = "stored" => fate[d] = "stored"
      BY <1>s, <2>1 DEF TasksAreSound
    <3> QED BY <1>s, <2>4, <3>1, <3>2, PointsStay
  <2>6. TasksHold'
    BY <1>2, <1>s, <2>4, OperationsAreSame, SameTasks
  <2> QED BY <1>l, <2>1, <2>4, <2>5, <2>6 DEF SInv
<1>3. CASE CollectionAnswered(c)
  <2>0. PICK r : r = task[c].req
    OBVIOUS
  <2>1. Effect(r) /\ late' = late /\ BusyTask(task[c]) /\ task[c].op \in {"create", "drop"}
    BY <1>3, <2>0 DEF CollectionAnswered, BusyTask
  <2>2. r.kind # "upsert"
    BY <1>s, <2>0, <2>1 DEF TasksAreSound, IsTask
  <2>3. Calm /\ PointsHold'
    BY <1>s, <2>1, <2>2, EffectHolds
  <2>4. TasksHold'
    BY <1>3, <1>s, <2>3, OperationsAreSame, SameTasks
  <2> QED BY <1>l, <2>1, <2>3, <2>4 DEF SInv
<1>4. CASE UpsertAnswered(c)
  <2>0. PICK t : t = task[c]
    OBVIOUS
  <2>1. BusyTask(t) /\ t.op = "upsert" /\ points' = Merged(t.req.new) /\ late' = late
    BY <1>4, <2>0 DEF UpsertAnswered, BusyTask
  <2>2. UploadGoesOn(t) /\ HasFields(t) /\ t.req.kind = "upsert"
    BY <1>s, <2>0, <2>1 DEF TasksHold, TaskHolds, TasksAreSound, IsTask
  <2>3. Fits(t.req.new, t.doc)
    BY <2>2, RequestFits
  <2>4. CASE t.rest # <<>>
    <3>1. /\ fate' = fate
          /\ task' = [task EXCEPT ![c].phase = "pause", ![c].attempt = 1,
                                  ![c].req = Upsert(Head(t.rest)), ![c].rest = Tail(t.rest)]
      BY <1>4, <2>0, <2>4 DEF UpsertAnswered
    <3>2. Calm /\ PointsHold'
      BY <1>s, <2>1, <2>3, <3>1, PointsMerge
    <3>3. PICK r, rest : r = Upsert(Head(t.rest)) /\ rest = Tail(t.rest)
      OBVIOUS
    <3>4. PICK u : u = Following(t, r, rest)
      OBVIOUS
    <3>5. u.op = t.op /\ u.req = r /\ u.doc = t.doc /\ u.rest = rest
      BY <2>2, <3>4, FollowingHasFields
    <3>6. r.kind = "upsert" /\ r.new = Head(t.rest)
      BY <3>3 DEF Upsert
    <3>7. UploadGoesOn(u)'
      BY <2>1, <2>2, <2>4, <3>2, <3>3, <3>5, <3>6, NextBatchFits
    <3>8. TaskHolds(u)'
      BY <3>5, <3>6, <3>7 DEF TaskHolds
    <3>9. task' = [task EXCEPT ![c] = u]
      BY <1>s, <2>0, <3>1, <3>3, <3>4 DEF TasksAreSound, Following
    <3>10. TasksHold'
      BY <1>s, <3>2, <3>8, <3>9, OneTask
    <3> QED BY <1>l, <2>1, <3>2, <3>10 DEF SInv
  <2>5. CASE t.rest = <<>>
    <3>1. /\ fate' = [fate EXCEPT ![t.doc] = IF @ = "none" THEN "stored" ELSE @]
          /\ task' = Ended(c, "returned")
      BY <1>4, <2>0, <2>5 DEF UpsertAnswered
    <3>2. Untouched(t.doc) /\ ~short => Reached(t.doc, Len(ChunksFor(t.doc)))'
      BY <2>1, <2>2, <2>5, LastBatchFits
    <3>d. PICK d : d = t.doc
      OBVIOUS
    <3>3. Untouched(d) /\ ~short' => Reached(d, Len(ChunksFor(d)))'
      BY <3>2, <3>d
    <3>n. PICK new : new = t.req.new
      OBVIOUS
    <3>4. Calm /\ PointsHold'
      BY <1>s, <2>1, <2>3, <3>1, <3>3, <3>d, <3>n, PointsMerge
    <3>5. TasksHold'
      BY <1>s, <3>1, <3>4, EndIsSame, SameTasks
    <3> QED BY <1>l, <2>1, <3>4, <3>5 DEF SInv
  <2> QED BY <2>4, <2>5
<1>5. CASE SearchAnswered(c)
  <2>0. PICK t, all : t = task[c] /\ all = PointsOf(t.doc)
    OBVIOUS
  <2>1. /\ UNCHANGED <<points, fate, late>> /\ BusyTask(t) /\ t.req.kind = "search"
        /\ \E ids \in SUBSET all :
             \/ task' = Ended(c, "returned")
             \/ task' = [task EXCEPT ![c].req = Delete(ids), ![c].attempt = 1,
                                     ![c].clean = (ids = all /\ Quiet(t.doc))]
    BY <1>5, <2>0 DEF SearchAnswered, BusyTask, kSubset
  <2>2. Calm
    BY <2>1, CalmWithoutPoints
  <2>3. PointsHold'
    BY <1>s, <2>1, <2>2, PointsStay
  <2>4. PICK ids \in SUBSET all :
             \/ task' = Ended(c, "returned")
             \/ task' = [task EXCEPT ![c].req = Delete(ids), ![c].attempt = 1,
                                     ![c].clean = (ids = all /\ Quiet(t.doc))]
    BY <2>1
  <2>5. CASE task' = Ended(c, "returned")
    <3>1. TasksHold'
      BY <1>s, <2>2, <2>5, EndIsSame, SameTasks
    <3> QED BY <1>l, <2>1, <2>2, <2>3, <3>1 DEF SInv
  <2>6. CASE task' = [task EXCEPT ![c].req = Delete(ids), ![c].attempt = 1,
                                  ![c].clean = (ids = all /\ Quiet(t.doc))]
    <3>1. PICK r, b : r = Delete(ids) /\ b = (ids = all /\ Quiet(t.doc))
      OBVIOUS
    <3>2. b \in BOOLEAN /\ r.kind = "delete" /\ r.ids = ids
      BY <3>1 DEF Delete
    <3>3. PICK u : u = Narrowed(t, r, b)
      OBVIOUS
    <3>4. HasFields(t) /\ t.op = "delete"
      BY <1>s, <2>0, <2>1 DEF TasksAreSound, IsTask
    <3>5. u.op = "delete" /\ u.req = r /\ u.doc = t.doc
      BY <3>2, <3>3, <3>4, NarrowedHasFields
    <3>6. task' = [task EXCEPT ![c] = u]
      BY <1>s, <2>0, <2>6, <3>1, <3>3 DEF TasksAreSound, Narrowed
    <3>7. \A id \in ids : id[1] = t.doc
      BY <2>0 DEF PointsOf
    <3>8. TaskHolds(u)'
      BY <3>2, <3>5, <3>7 DEF TaskHolds
    <3>9. TasksHold'
      BY <1>s, <2>2, <3>6, <3>8, OneTask
    <3> QED BY <1>l, <2>1, <2>2, <2>3, <3>9 DEF SInv
  <2> QED BY <2>4, <2>5, <2>6
<1> QED BY <1>1, <1>2, <1>3, <1>4, <1>5 DEF Progress

LEMMA LateKeepsSInv ==
  ASSUME IInv, SInv, SourcesStay, ~short' => ~short, LateSteps
  PROVE  SInv'
<1>s. TasksAreSound /\ PointsHold /\ LateHolds /\ TasksHold
  BY DEF IInv, SInv
<1>1. PICK r \in late : LateEffect(r) \/ LateLoss(r)
  BY DEF LateSteps
<1>2. late' = late \ {r} /\ task' = task
  BY <1>1 DEF LateEffect, LateLoss
<1>3. Calm /\ PointsHold'
  <2>1. CASE Effect(r)
    BY <1>s, <2>1, EffectHolds DEF LateHolds
  <2>2. CASE UNCHANGED <<exists, points, fate>>
    <3>1. Calm
      BY <2>2, CalmWithoutPoints
    <3> QED BY <1>s, <2>2, <3>1, PointsStay
  <2> QED BY <1>1, <2>1, <2>2 DEF LateEffect, LateLoss
<1>4. LateHolds'
  BY <1>2, <1>3, <1>s, LateStays DEF TasksHold
<1>5. TasksHold'
  <2>1. \A x \in Clients : Same(task[x], task'[x])
    BY <1>2 DEF Same
  <2> QED BY <1>3, <1>s, <2>1, SameTasks
<1> QED BY <1>3, <1>4, <1>5 DEF SInv

LEMMA NothingKeepsSInv ==
  ASSUME IInv, SInv, SourcesStay, ~short' => ~short, UNCHANGED <<points, fate, late>>,
         \A x \in Clients : Same(task[x], task'[x])
  PROVE  SInv'
<1>s. PointsHold /\ LateHolds /\ TasksHold
  BY DEF SInv
<1>1. Calm
  BY CalmWithoutPoints
<1>2. PointsHold'
  BY <1>1, <1>s, PointsStay
<1>3. LateHolds'
  BY <1>1, <1>s, LateStays DEF TasksHold
<1>4. TasksHold'
  BY <1>1, <1>s, SameTasks
<1> QED BY <1>2, <1>3, <1>4 DEF SInv

LEMMA StartKeepsSInv ==
  ASSUME IInv, SInv, SourcesStay, ~short' => ~short, UNCHANGED <<points, fate, late>>,
         NEW c \in Clients, NEW t, task' = [task EXCEPT ![c] = t], TaskHolds(t)'
  PROVE  SInv'
<1>s. PointsHold /\ LateHolds /\ TasksHold
  BY DEF SInv
<1>1. Calm
  BY CalmWithoutPoints
<1>2. PointsHold'
  BY <1>1, <1>s, PointsStay
<1>3. LateHolds'
  BY <1>1, <1>s, LateStays DEF TasksHold
<1>4. TasksHold'
  BY <1>1, <1>s, OneTask
<1> QED BY <1>2, <1>3, <1>4 DEF SInv

LEMMA AdministrationKeepsSInv ==
  ASSUME IInv, SInv, SourcesStay, ~short' => ~short, NEW c \in Clients,
         StartCreate(c) \/ StartDrop(c) \/ \E d : StartDelete(c, d)
  PROVE  SInv'
<1>0. UNCHANGED <<points, fate, late>>
  BY DEF StartCreate, StartDrop, StartDelete
<1>1. ASSUME NEW op, NEW r, NEW d, task' = [task EXCEPT ![c] = Sending(op, r, d, <<>>)],
             op # "upsert", r.kind # "delete"
      PROVE  SInv'
  <2>1. PICK t : t = Sending(op, r, d, <<>>)
    OBVIOUS
  <2>2. t.op # "upsert" /\ t.req.kind # "delete"
    BY <1>1, <2>1, SendingHasFields
  <2>3. TaskHolds(t)'
    BY <2>2 DEF TaskHolds
  <2> QED BY <1>0, <1>1, <2>1, <2>3, StartKeepsSInv
<1>2. CASE StartCreate(c)
  <2>1. Create.kind # "delete"
    BY DEF Create
  <2> QED BY <1>1, <1>2, <2>1 DEF StartCreate
<1>3. CASE StartDrop(c)
  <2>1. Drop.kind # "delete"
    BY DEF Drop
  <2> QED BY <1>1, <1>3, <2>1 DEF StartDrop
<1>4. ASSUME NEW d, StartDelete(c, d) PROVE SInv'
  <2>1. Search(d).kind # "delete"
    BY DEF Search
  <2> QED BY <1>1, <1>4, <2>1 DEF StartDelete
<1> QED BY <1>2, <1>3, <1>4

\* zip(chunks, embeddings): the chunks from the first one on, each with a vector.
Zipped(p, d, chunks, vectors) ==
  \E n \in 0..Len(chunks) :
    /\ Listed(p.new, p.ids, d, n)
    /\ \A i \in 0..(n - 1) :
         p.new[<<d, i>>] = [content |-> chunks[i + 1], vector |-> vectors[i + 1]]
    /\ DOMAIN vectors = DOMAIN chunks => n = Len(chunks)

LEMMA PairedIs ==
  ASSUME NEW d, NEW chunks, IsSeq(chunks), NEW vectors
  PROVE  Zipped(Paired(d, chunks, vectors), d, chunks, vectors)
<1>1. PICK l \in Nat : l = Len(chunks) /\ DOMAIN chunks = 1..l
  BY SeqHasLength
<1>2. PICK S \in SUBSET (1..l) : S = DOMAIN chunks \cap DOMAIN vectors
  BY <1>1
<1>3. IsFiniteSet(1..l) /\ Cardinality(1..l) = l
  BY FS_Interval
<1>4. Cardinality(S) \in Nat /\ Cardinality(S) <= l
  BY <1>3, FS_Subset, FS_CardinalityType
<1>5. PICK n \in 0..l : n = Cardinality(S)
  BY <1>4
<1>6. PICK ids : ids = [i \in 1..n |-> <<d, i - 1>>]
  OBVIOUS
<1> DEFINE Point(id) == [content |-> chunks[id[2] + 1], vector |-> vectors[id[2] + 1]]
<1>7. PICK new : new = [id \in {ids[i] : i \in 1..n} |-> Point(id)]
  OBVIOUS
<1>8. Paired(d, chunks, vectors).ids = ids /\ Paired(d, chunks, vectors).new = new
  BY <1>2, <1>5, <1>6, <1>7 DEF Paired
<1>9. DOMAIN new = {<<d, i>> : i \in 0..(n - 1)}
  <2>1. DOMAIN new = {ids[i] : i \in 1..n}
    BY <1>7
  <2>2. ASSUME NEW i \in 1..n PROVE ids[i] \in {<<d, k>> : k \in 0..(n - 1)}
    <3>1. i - 1 \in 0..(n - 1) /\ ids[i] = <<d, i - 1>>
      BY <1>6
    <3> QED BY <3>1
  <2>3. ASSUME NEW k \in 0..(n - 1) PROVE <<d, k>> \in {ids[i] : i \in 1..n}
    <3>1. k + 1 \in 1..n /\ ids[k + 1] = <<d, k>>
      BY <1>6
    <3> QED BY <3>1
  <2> QED BY <2>1, <2>2, <2>3
<1>10. Listed(new, ids, d, n)
  BY <1>6, <1>9 DEF Listed, Span
<1>11. ASSUME NEW i \in 0..(n - 1)
       PROVE  new[<<d, i>>] = [content |-> chunks[i + 1], vector |-> vectors[i + 1]]
  <2>1. PICK id : id = <<d, i>>
    OBVIOUS
  <2>2. id \in DOMAIN new /\ id[2] = i
    BY <1>9, <2>1
  <2>3. new[id] = Point(id)
    <3> HIDE DEF Point
    <3> QED BY <1>7, <2>2
  <2> QED BY <2>1, <2>2, <2>3
<1>12. DOMAIN vectors = DOMAIN chunks => n = l
  BY <1>1, <1>2, <1>3, <1>5
<1> QED BY <1>1, <1>8, <1>10, <1>11, <1>12 DEF Zipped

\* An upload of the first n chunks of a document, in the state it begins in.
LEMMA UploadBegins ==
  ASSUME NEW d \in DOMAIN sources', NEW n \in Nat, NEW new, NEW ids, Listed(new, ids, d, n),
         Good(new)', ~short' => n = Len(ChunksFor(d)'),
         NEW batches, batches = IF ids = <<>> THEN <<Empty>> ELSE Batches(new, ids),
         NEW t, t.doc = d, t.req.new = Head(batches), t.rest = Tail(batches)
  PROVE  UploadGoesOn(t)'
<1>1. Consecutive(batches, new, d, n)
  BY BatchesAreConsecutive
<1>2. PICK l \in Nat \ {0} :
    /\ IsSeq(batches) /\ Len(batches) = l
    /\ \E cuts \in [0..l -> Nat] :
         /\ cuts[0] = 0 /\ cuts[l] = n
         /\ \A b \in 1..l : Span(batches[b], d, cuts[b - 1], cuts[b])
    /\ \A b \in 1..l : \A id \in DOMAIN batches[b] :
         id \in DOMAIN new /\ batches[b][id] = new[id]
  BY <1>1 DEF Consecutive
<1>3. PICK cuts \in [0..l -> Nat] :
         /\ cuts[0] = 0 /\ cuts[l] = n
         /\ \A b \in 1..l : Span(batches[b], d, cuts[b - 1], cuts[b])
  BY <1>2
<1>4. \A b \in 1..l : Good(batches[b])'
  BY <1>2 DEF Good
<1>5. PICK S : batches \in Seq(S)
  BY <1>2 DEF IsSeq
<1>6. /\ t.req.new = batches[1] /\ t.rest \in Seq(S) /\ Len(t.rest) = l - 1
      /\ DOMAIN t.rest = 1..(l - 1) /\ \A k \in 1..(l - 1) : t.rest[k] = batches[k + 1]
  BY <1>2, <1>5
<1>7. Good(t.req.new)' /\ \A k \in DOMAIN t.rest : Good(t.rest[k])'
  <2>1. 1 \in 1..l /\ \A k \in 1..(l - 1) : k + 1 \in 1..l
    OBVIOUS
  <2> QED BY <1>4, <1>6, <2>1
<1>8. Span(t.req.new, d, cuts[0], cuts[1])
  <2>1. Span(batches[1], d, cuts[1 - 1], cuts[1])
    BY <1>3
  <2> QED BY <1>6, <2>1
<1>9. ASSUME NEW k \in 1..(l - 1) PROVE Span(t.rest[k], d, cuts[k], cuts[k + 1])
  <2>1. PICK b \in 1..l : b = k + 1 /\ b - 1 = k
    OBVIOUS
  <2>2. Span(batches[b], d, cuts[b - 1], cuts[b])
    BY <1>3
  <2> QED BY <1>6, <2>1, <2>2
<1>10. ~short' => cuts[l] = Len(ChunksFor(d)')
  BY <1>3
<1>11. Reached(d, cuts[0])'
  BY <1>3 DEF Reached
<1>12. l = Len(t.rest) + 1 /\ IsSeq(t.rest)
  BY <1>6 DEF IsSeq
<1> QED BY <1>3, <1>7, <1>8, <1>9, <1>10, <1>11, <1>12 DEF UploadGoesOn

\* The upload of the chunks of a document with their vectors.
LEMMA PointsAreGood ==
  ASSUME SourcesAreSound', NEW d \in DOMAIN sources', NEW chunks, chunks = ChunksFor(d)',
         NEW vectors,
         ~short' => /\ DOMAIN vectors = DOMAIN chunks
                    /\ \A i \in DOMAIN chunks : vectors[i].of =
                         IF sources'[d].kind = "document" THEN <<"zeros">> ELSE Norm(chunks[i]),
         NEW p, p = Paired(d, chunks, vectors)
  PROVE  \E n \in Nat : /\ Listed(p.new, p.ids, d, n) /\ Good(p.new)'
                        /\ ~short' => n = Len(ChunksFor(d)')
<1>2. IsSeq(chunks)
  <2>1. PICK kind, text : kind = sources'[d].kind /\ text = sources'[d].text
    OBVIOUS
  <2>2. HasText(kind, text)
    BY <2>1 DEF SourcesAreSound
  <2>3. chunks = ChunksOf(kind, text)
    BY <2>1 DEF ChunksFor
  <2> QED BY <2>2, <2>3, ChunksAreWhole DEF IsSeq
<1>3. PICK l \in Nat : l = Len(chunks) /\ DOMAIN chunks = 1..l
  BY <1>2, SeqHasLength
<1>5. PICK n \in 0..Len(chunks) :
           /\ Listed(p.new, p.ids, d, n)
           /\ \A i \in 0..(n - 1) : p.new[<<d, i>>] =
                [content |-> chunks[i + 1], vector |-> vectors[i + 1]]
           /\ DOMAIN vectors = DOMAIN chunks => n = Len(chunks)
  <2>1. Zipped(p, d, chunks, vectors)
    BY <1>2, PairedIs
  <2> QED BY <2>1 DEF Zipped
<1>6. ASSUME NEW id \in DOMAIN p.new PROVE GoodPoint(id, p.new[id])'
  <2>1. PICK i \in 0..(n - 1) : id = <<d, i>>
    BY <1>5 DEF Listed, Span
  <2>2. PICK v : v = p.new[id]
    OBVIOUS
  <2>3. v.content = chunks[i + 1] /\ v.vector = vectors[i + 1]
    <3>1. v = [content |-> chunks[i + 1], vector |-> vectors[i + 1]]
      BY <1>5, <2>1, <2>2
    <3> QED BY <3>1
  <2>4. i \in Nat /\ i + 1 \in DOMAIN chunks
    BY <1>3, <1>5
  <2>5. ~short' => v.vector.of = IF sources'[d].kind = "document" THEN <<"zeros">>
                                 ELSE Norm(v.content)
    BY <1>5, <2>3, <2>4
  <2>6. GoodPoint(id, v)'
    BY <2>1, <2>3, <2>4, <2>5 DEF GoodPoint
  <2> QED BY <2>2, <2>6
<1>7. n \in Nat
  BY <1>3
<1> QED BY <1>5, <1>6, <1>7 DEF Good

LEMMA UploadKeepsSInv ==
  ASSUME IInv, SInv, SourcesStay, ~short' => ~short, SourcesAreSound',
         NEW c \in Clients, NEW d \in DOMAIN sources', NEW chunks, chunks = ChunksFor(d)',
         NEW vectors,
         ~short' => /\ DOMAIN vectors = DOMAIN chunks
                    /\ \A i \in DOMAIN chunks : vectors[i].of =
                         IF sources'[d].kind = "document" THEN <<"zeros">> ELSE Norm(chunks[i]),
         NEW p, p = Paired(d, chunks, vectors), StartUpsert(c, d, p.new, p.ids)
  PROVE  SInv'
<1>1. PICK n \in Nat : /\ Listed(p.new, p.ids, d, n) /\ Good(p.new)'
                       /\ ~short' => n = Len(ChunksFor(d)')
  BY PointsAreGood
<1>2. PICK batches : batches = IF p.ids = <<>> THEN <<Empty>> ELSE Batches(p.new, p.ids)
  OBVIOUS
<1>3. PICK r, rest : r = Upsert(Head(batches)) /\ rest = Tail(batches)
  OBVIOUS
<1>4. PICK t : t = Sending("upsert", r, d, rest)
  OBVIOUS
<1>5. task' = [task EXCEPT ![c] = t] /\ UNCHANGED <<points, fate, late>>
  BY <1>2, <1>3, <1>4 DEF StartUpsert
<1>6. t.op = "upsert" /\ t.req = r /\ t.doc = d /\ t.rest = rest
  BY <1>4, SendingHasFields
<1>7. r.kind = "upsert" /\ r.new = Head(batches)
  BY <1>3 DEF Upsert
<1>8. UploadGoesOn(t)'
  <2>1. PICK new, ids : new = p.new /\ ids = p.ids
    OBVIOUS
  <2>2. Listed(new, ids, d, n) /\ Good(new)' /\ batches = IF ids = <<>> THEN <<Empty>> ELSE Batches(new, ids)
    BY <1>1, <1>2, <2>1
  <2>3. t.doc = d /\ t.req.new = Head(batches) /\ t.rest = Tail(batches)
    BY <1>3, <1>6, <1>7
  <2> QED BY <1>1, <2>2, <2>3, UploadBegins, ZenonT(60)
<1>9. TaskHolds(t)'
  BY <1>6, <1>7, <1>8 DEF TaskHolds
<1> QED BY <1>5, <1>9, StartKeepsSInv

LEMMA StorePointsKeepsSInv ==
  ASSUME IInv, EInv, SInv, EmbeddedHold, EInv', NEW c \in Ingesters, StorePoints(c)
  PROVE  SInv'
<1>1. PICK d : d = job[c].doc
  OBVIOUS
<1>2. /\ emb[c].phase = "embedded" /\ d \in DOMAIN sources /\ sources[d].kind # "document"
      /\ UNCHANGED <<sources, short>>
  BY <1>1 DEF StorePoints, IInv, JobsAreSound, EmbeddedHold
<1>3. PICK chunks : chunks = ChunksFor(d)
  OBVIOUS
<1>4. chunks = ChunksFor(d)' /\ chunks = ChunksOf(sources[d].kind, sources[d].text)
  BY <1>2, <1>3 DEF ChunksFor
<1>5. PICK vectors : vectors = emb[c].vectors
  OBVIOUS
<1>6. PICK p : p = Paired(d, chunks, vectors)
  OBVIOUS
<1>7. StartUpsert(c, d, p.new, p.ids)
  BY <1>1, <1>4, <1>5, <1>6 DEF StorePoints
<1>8. ASSUME ~short
      PROVE  DOMAIN vectors = DOMAIN chunks /\ \A i \in DOMAIN chunks : vectors[i].of = Norm(chunks[i])
  <2>1. PICK texts : texts = [i \in DOMAIN chunks |-> Norm(chunks[i])]
    OBVIOUS
  <2>2. texts = TextsOf(d)
    BY <1>3, <2>1 DEF TextsOf, ChunksFor
  <2>3. InPlace(emb[c], texts, ProviderName(settings))
    BY <1>1, <1>2, <1>8, <2>2 DEF EInv, VectorsAreInPlace
  <2>4. VectorsFor(vectors, texts)
    BY <1>2, <1>5, <2>3 DEF InPlace
  <2> QED BY <2>1, <2>4 DEF VectorsFor
<1>9. SourcesStay /\ (~short' => ~short) /\ d \in DOMAIN sources' /\ SourcesAreSound'
  BY <1>2 DEF SourcesStay, EInv
<1>10. ~short' => /\ DOMAIN vectors = DOMAIN chunks
                  /\ \A i \in DOMAIN chunks : vectors[i].of =
                       IF sources'[d].kind = "document" THEN <<"zeros">> ELSE Norm(chunks[i])
  BY <1>2, <1>8
<1>11. c \in Clients
  BY ClientsAssumption
<1> QED BY <1>4, <1>6, <1>7, <1>9, <1>10, <1>11, UploadKeepsSInv

LEMMA StartDocumentKeepsSInv ==
  ASSUME IInv, SInv, SourcesStay, EInv', NEW c \in Ingesters, StartDocument(c)
  PROVE  SInv'
<1>e. PICK d : d = Fresh
  OBVIOUS
<1>1. PICK text \in Texts \cup {<<>>} :
        /\ sources' = [x \in DOMAIN sources \cup {d} |->
                        IF x = d THEN [kind |-> "document", text |-> text] ELSE sources[x]]
        /\ LET chunks == ChunksOf("document", text)
               p == Paired(d, chunks, [i \in DOMAIN chunks |-> Zero])
           IN  StartUpsert(c, d, p.new, p.ids)
  BY <1>e DEF StartDocument
<1>2. PICK chunks : chunks = ChunksOf("document", text)
  OBVIOUS
<1>3. PICK vectors : vectors = [i \in DOMAIN chunks |-> Zero]
  OBVIOUS
<1>4. PICK p : p = Paired(d, chunks, vectors)
  OBVIOUS
<1>5. StartUpsert(c, d, p.new, p.ids)
  BY <1>1, <1>2, <1>3, <1>4
<1>6. d \in DOMAIN sources' /\ sources'[d] = [kind |-> "document", text |-> text]
  BY <1>1
<1>7. sources'[d].kind = "document" /\ sources'[d].text = text
  BY <1>6
<1>8. chunks = ChunksFor(d)'
  BY <1>2, <1>7 DEF ChunksFor
<1>9. DOMAIN vectors = DOMAIN chunks /\ \A i \in DOMAIN chunks : vectors[i].of = <<"zeros">>
  BY <1>3 DEF Zero
<1>10. /\ ~short' => ~short
       /\ SourcesAreSound' /\ c \in Clients
  BY ClientsAssumption DEF StartDocument, embVars, EInv
<1>11. ~short' => /\ DOMAIN vectors = DOMAIN chunks
                  /\ \A i \in DOMAIN chunks : vectors[i].of =
                       IF sources'[d].kind = "document" THEN <<"zeros">> ELSE Norm(chunks[i])
  BY <1>7, <1>9
<1> QED BY <1>4, <1>5, <1>6, <1>8, <1>10, <1>11, UploadKeepsSInv

LEMMA RestartKeepsSInv ==
  ASSUME IInv, SInv, SourcesStay, ~short' => ~short, RestartStore
  PROVE  SInv'
<1>s. TasksAreSound /\ PointsHold /\ LateHolds /\ TasksHold
  BY DEF IInv, SInv
<1>1. task' = [c \in Clients |-> Idle] /\ UNCHANGED <<points, fate>>
  BY DEF RestartStore
<1>2. Calm
  BY <1>1, CalmWithoutPoints
<1>3. PointsHold'
  BY <1>1, <1>2, <1>s, PointsStay
<1>4. \A r \in late' : r \in late \/ \E c \in Clients : BusyTask(task[c]) /\ r = task[c].req
  BY DEF RestartStore, BusyTask
<1>5. LateHolds'
  BY <1>2, <1>4, <1>s, LateStays DEF TasksHold
<1>6. TasksHold'
  <2>1. \A x \in Clients : Same(task[x], task'[x])
    BY <1>1 DEF Same, BusyTask, Idle
  <2> QED BY <1>2, <1>s, <2>1, SameTasks
<1> QED BY <1>3, <1>5, <1>6 DEF SInv

LEMMA NextKeepsSInv ==
  ASSUME IInv, EInv, SInv, EmbeddedHold, EInv', SourcesStay, ~short' => ~short, [Next]_vars
  PROVE  SInv'
<1>s. TasksAreSound
  BY DEF IInv
<1>0. UNCHANGED storeVars => SInv'
  <2>1. UNCHANGED task => \A x \in Clients : Same(task[x], task'[x])
    BY DEF Same
  <2> QED BY <2>1, NothingKeepsSInv DEF storeVars
<1>1. ASSUME NEW c \in Ingesters, JobStep(c) PROVE SInv'
  <2>c. c \in Clients
    BY ClientsAssumption
  <2>1. CASE EmbStep(c) \/ NextFile(c) \/ DirectoryEnds(c)
    BY <1>0, <2>1 DEF EmbStep, NextFile, DirectoryEnds
  <2>2. CASE StoreStep(c)
    BY <2>2, <2>c, StoreKeepsSInv DEF StoreStep
  <2>3. CASE StorePoints(c)
    BY <2>3, StorePointsKeepsSInv
  <2>4. CASE DocumentEnds(c)
    <3>1. task' = [task EXCEPT ![c] = Idle] /\ UNCHANGED <<points, fate, late>>
      BY <2>4 DEF DocumentEnds
    <3> QED BY <1>s, <2>c, <3>1, EndIsSame, NothingKeepsSInv
  <2> QED BY <1>1, <2>1, <2>2, <2>3, <2>4 DEF JobStep
<1>2. ASSUME NEW c \in Ingesters, StartText(c) \/ StartDocument(c) \/ StartDirectory(c)
      PROVE  SInv'
  BY <1>0, <1>2, StartDocumentKeepsSInv DEF StartText, StartDirectory
<1>3. ASSUME NEW c \in Admins, Administer(c) \/ StoreStep(c) PROVE SInv'
  <2>c. c \in Clients
    BY ClientsAssumption
  <2>1. CASE StoreStep(c)
    BY <2>1, <2>c, StoreKeepsSInv DEF StoreStep
  <2>2. CASE Administer(c)
    BY <2>2, <2>c, AdministrationKeepsSInv DEF Administer
  <2> QED BY <1>3, <2>1, <2>2
<1>4. CASE LateSteps /\ UNCHANGED <<embVars, job, sources, disturbances>>
  BY <1>4, LateKeepsSInv
<1>5. CASE Fault
  <2>1. ASSUME NEW c \in Clients, Fail(c) \/ CancelOperation(c) PROVE SInv'
    BY <2>1, StoreKeepsSInv
  <2>2. CASE UNCHANGED storeVars
    BY <1>0, <2>2
  <2>3. CASE Restart
    BY <2>3, RestartKeepsSInv DEF Restart
  <2> QED BY <1>5, <2>1, <2>2, <2>3, ClientsAssumption DEF Fault, CancelJob
<1>6. CASE UNCHANGED vars
  BY <1>0, <1>6 DEF vars
<1> QED BY <1>1, <1>2, <1>3, <1>4, <1>5, <1>6 DEF Next

\* Only texts that are embedded wait for vectors; the document service has zeros.
LEMMA NextKeepsEmbedded ==
  ASSUME IInv, EmbeddedHold, SourcesStay, [Next]_vars
  PROVE  EmbeddedHold'
<1>f. emb = [x \in Ingesters |-> emb[x]] /\ job = [x \in Ingesters |-> job[x]]
  BY DEF IInv, JobsAreSound
<1>d. ASSUME \A c \in Ingesters : emb'[c].phase # "idle" =>
               emb[c].phase # "idle" /\ job'[c].doc = job[c].doc
      PROVE  EmbeddedHold'
  <2>1. ASSUME NEW c \in Ingesters, emb'[c].phase # "idle"
        PROVE  sources'[job'[c].doc].kind # "document"
    <3>1. job[c].doc \in DOMAIN sources /\ sources[job[c].doc].kind # "document"
      BY <1>d, <2>1 DEF IInv, JobsAreSound, EmbeddedHold
    <3> QED BY <1>d, <2>1, <3>1 DEF SourcesStay
  <2> QED BY <2>1 DEF EmbeddedHold
<1>s. UNCHANGED <<emb, job>> => EmbeddedHold'
  BY <1>d
<1>e. EmbIdle.phase = "idle"
  BY DEF EmbIdle
<1>b. ASSUME NEW c \in Ingesters, NEW d, NEW kind, NEW text, kind # "document",
             Embed(c, d, kind, text), NEW j, job' = [job EXCEPT ![c] = j], j.doc = d
      PROVE  EmbeddedHold'
  <2>1. sources'[d] = [kind |-> kind, text |-> text]
    BY <1>b DEF Embed
  <2>2. sources'[d].kind = kind
    BY <2>1
  <2>3. /\ job'[c].doc = d
        /\ \A x \in Ingesters \ {c} : emb'[x] = emb[x] /\ job'[x] = job[x]
    BY <1>b, <1>f DEF Embed, StartEmbed
  <2>4. ASSUME NEW x \in Ingesters, emb'[x].phase # "idle"
        PROVE  sources'[job'[x].doc].kind # "document"
    <3>1. CASE x = c
      BY <1>b, <2>2, <2>3, <3>1
    <3>2. CASE x # c
      <4>1. job[x].doc \in DOMAIN sources /\ sources[job[x].doc].kind # "document"
        BY <2>3, <2>4, <3>2 DEF IInv, JobsAreSound, EmbeddedHold
      <4> QED BY <2>3, <3>2, <4>1 DEF SourcesStay
    <3> QED BY <3>1, <3>2
  <2> QED BY <2>4 DEF EmbeddedHold
<1>g. ASSUME NEW c \in Ingesters, EmbedSteps(c) \/ EmbedFaults(c), UNCHANGED <<job, sources>>
      PROVE  EmbeddedHold'
  <2>1. emb[c].phase # "idle" /\ \A x \in Ingesters \ {c} : emb'[x] = emb[x]
    BY <1>f, <1>g DEF EmbedSteps, EmbedFaults, Lookup, LookupWithoutRedis, Found,
       ProviderAnswers, ProviderAnswersShort, Answer, ProviderFails, CacheNext,
       CacheNextWithoutRedis, Caching, CacheTo, CachingEnds
  <2> QED BY <1>d, <1>g, <2>1
<1>1. ASSUME NEW c \in Ingesters, StartText(c) PROVE EmbeddedHold'
  <2>1. PICK d \in Docs, kind \in {"text", "faqs"} :
          \E text \in IF kind = "faqs" THEN Faqs ELSE Texts :
            /\ Embed(c, d, kind, text)
            /\ job' = [job EXCEPT ![c] = [kind |-> kind, doc |-> d]]
    BY <1>1 DEF StartText
  <2>2. PICK text \in IF kind = "faqs" THEN Faqs ELSE Texts : Embed(c, d, kind, text)
    BY <2>1
  <2> DEFINE j == [kind |-> kind, doc |-> d]
  <2>3. job' = [job EXCEPT ![c] = j] /\ j.doc = d
    BY <2>1
  <2> HIDE DEF j
  <2>4. kind # "document"
    OBVIOUS
  <2> QED BY <1>b, <2>2, <2>3, <2>4
<1>2. ASSUME NEW c \in Ingesters,
             StartDirectory(c) \/ DirectoryEnds(c) \/ StartDocument(c)
      PROVE  EmbeddedHold'
  <2>1. UNCHANGED emb /\ \A x \in Ingesters \ {c} : job'[x] = job[x]
    BY <1>2, <1>f DEF StartDirectory, DirectoryEnds, StartDocument, embVars
  <2>2. emb[c].phase = "idle"
    BY <1>2, NoDocNoVectors DEF StartDirectory, DirectoryEnds, StartDocument, Active
  <2> QED BY <1>d, <2>1, <2>2
<1>4. ASSUME NEW c \in Ingesters, NextFile(c) PROVE EmbeddedHold'
  <2>0. job[c].doc = NoDoc /\ IsDirectory(job[c])
    BY <1>4 DEF NextFile, IInv, JobsAreSound
  <2>1. PICK text, j : text = Head(job[c].left) /\ j = [job[c] EXCEPT !.left = Tail(job[c].left)]
    OBVIOUS
  <2>2. \/ job' = [job EXCEPT ![c] = j] /\ UNCHANGED emb
        \/ \E d \in Docs :
             /\ Embed(c, d, "text", text)
             /\ job' = [job EXCEPT ![c] = [j EXCEPT !.doc = d, !.docs = @ \cup {d}]]
    BY <1>4, <2>1 DEF NextFile, embVars
  <2>4. CASE job' = [job EXCEPT ![c] = j] /\ UNCHANGED emb
    <3>1. emb[c].phase = "idle" /\ \A x \in Ingesters \ {c} : job'[x] = job[x]
      BY <1>f, <2>0, <2>4, NoDocNoVectors
    <3> QED BY <1>d, <2>4, <3>1
  <2>5. ASSUME NEW d \in Docs, Embed(c, d, "text", text),
               job' = [job EXCEPT ![c] = [j EXCEPT !.doc = d, !.docs = @ \cup {d}]]
        PROVE  EmbeddedHold'
    <3>0. PICK o, left : o = job[c] /\ left = Tail(o.left)
      OBVIOUS
    <3>1. PICK docs : docs = j.docs \cup {d}
      OBVIOUS
    <3>2. PICK k : k = [j EXCEPT !.doc = d, !.docs = docs]
      OBVIOUS
    <3>3. job' = [job EXCEPT ![c] = k]
      BY <2>5, <3>1, <3>2
    <3>4. k.doc = d
      <4>1. o = [kind |-> o.kind, doc |-> o.doc, left |-> o.left, count |-> o.count, docs |-> o.docs]
        BY <2>0, <3>0 DEF IsDirectory
      <4>2. j = [o EXCEPT !.left = left]
        BY <2>1, <3>0
      <4> QED BY <3>2, <4>1, <4>2
    <3> QED BY <1>b, <2>5, <3>3, <3>4
  <2> QED BY <2>2, <2>4, <2>5
<1>5. ASSUME NEW c \in Ingesters, StorePoints(c) \/ DocumentEnds(c) \/ CancelJob(c)
      PROVE  EmbeddedHold'
  <2>1. emb' = [emb EXCEPT ![c] = EmbIdle] /\ \A x \in Ingesters \ {c} : job'[x] = job[x]
    BY <1>5, <1>f DEF StorePoints, DocumentEnds, CancelJob
  <2> QED BY <1>d, <1>e, <1>f, <2>1
<1>6. ASSUME NEW c \in Ingesters, JobStep(c) PROVE EmbeddedHold'
  BY <1>2, <1>4, <1>5, <1>6, <1>g, <1>s DEF JobStep, EmbStep, StoreStep, embVars
<1>7. ASSUME NEW c \in Admins, Administer(c) \/ StoreStep(c) PROVE EmbeddedHold'
  BY <1>7, <1>s DEF Administer, StoreStep, embVars
<1>8. CASE Fault
  <2>1. CASE Restart
    <3>1. \A c \in Ingesters : emb'[c].phase = "idle"
      BY <1>e, <2>1, ClientsAssumption DEF Restart, RestartEmbeddings
    <3> QED BY <1>d, <3>1
  <2>2. CASE CacheSteps /\ UNCHANGED <<storeVars, job, sources>>
    BY <1>s, <2>2 DEF CacheSteps, Invalidate, ClearCache, RedisLoses
  <2> QED BY <1>5, <1>8, <1>g, <1>s, <2>1, <2>2 DEF Fault, embVars
<1>9. CASE LateSteps /\ UNCHANGED <<embVars, job, sources, disturbances>>
  BY <1>9, <1>s DEF embVars
<1>10. CASE UNCHANGED vars
  BY <1>10, <1>s DEF vars, embVars
<1> QED BY <1>1, <1>2, <1>6, <1>7, <1>8, <1>9, <1>10 DEF Next

\* The strengthening of the two invariants about points and vectors.
WInv == IInv /\ EInv /\ SInv /\ EmbeddedHold

LEMMA InitHasWInv == Init => WInv
<1> SUFFICES ASSUME Init PROVE WInv
  OBVIOUS
<1>1. IInv
  BY InitHasIInv
<1>2. /\ DOMAIN sources = {} /\ points = Empty /\ late = {} /\ redis = NoCache /\ memory = NoCache
      /\ \A c \in Clients : task[c] = Idle
      /\ \A c \in Ingesters : emb[c] = EmbIdle
      /\ \A d \in Docs : fate[d] = "none"
  BY ClientsAssumption DEF Init, EmbInit, StoreInit
<1>3. DOMAIN points = {} /\ DOMAIN redis = {} /\ DOMAIN memory = {}
  BY <1>2 DEF Empty, NoCache
<1>4. \A c \in Ingesters : emb[c].phase = "idle"
  BY <1>2 DEF EmbIdle
<1>5. \A c \in Clients : ~BusyTask(task[c])
  BY <1>2 DEF BusyTask, Idle
<1>6. EInv
  BY <1>2, <1>3, <1>4 DEF EInv, SourcesAreSound, VectorsAreInPlace, CachedUnderItsText
<1>7. PointsHold
  BY <1>2, <1>3 DEF PointsHold, Good
<1>8. LateHolds /\ TasksHold /\ EmbeddedHold
  BY <1>2, <1>4, <1>5 DEF LateHolds, TasksHold, TaskHolds, EmbeddedHold
<1> QED BY <1>1, <1>6, <1>7, <1>8 DEF WInv, SInv

LEMMA NextKeepsWInv ==
  ASSUME WInv, [Next]_vars
  PROVE  WInv'
<1>1. IInv'
  BY NextKeepsIInv DEF WInv
<1>2. EInv' /\ SourcesStay /\ (~short' => ~short)
  BY NextKeepsEInv DEF WInv
<1>3. SInv'
  BY <1>2, NextKeepsSInv DEF WInv
<1>4. EmbeddedHold'
  BY <1>2, NextKeepsEmbedded DEF WInv
<1> QED BY <1>1, <1>2, <1>3, <1>4 DEF WInv

\* Vectors stay with their texts (embeddings/service.py, cache.py, vectorstore.py):
\* a chunk is stored with the vector of its own text, however hits, misses,
\* batches, errors and cancellations mix, and the caches give no text the vector
\* of another, until a provider answers short.
THEOREM VectorsStayWithTexts == Spec => []VectorsKeepTheirTexts
<1>1. WInv => VectorsKeepTheirTexts
  <2> SUFFICES ASSUME WInv PROVE VectorsKeepTheirTexts
    OBVIOUS
  <2>1. CachedUnderItsText
    BY DEF WInv, EInv, VectorsAreInPlace, CachedUnderItsText
  <2>2. ASSUME ~short, NEW id \in DOMAIN points
        PROVE  points[id].vector.of = IF sources[id[1]].kind = "document" THEN <<"zeros">>
                                      ELSE Norm(points[id].content)
    <3>0. PICK p : p = points[id]
      OBVIOUS
    <3>1. GoodPoint(id, p)
      BY <2>2, <3>0 DEF WInv, SInv, PointsHold, Good
    <3>2. PICK d \in DOMAIN sources : \E i \in Nat :
            /\ id = <<d, i>>
            /\ p.vector.of = IF sources[d].kind = "document" THEN <<"zeros">> ELSE Norm(p.content)
      BY <2>2, <3>1 DEF GoodPoint
    <3>3. id[1] = d
      BY <3>2
    <3> QED BY <3>0, <3>2, <3>3
  <2> QED BY <2>1, <2>2 DEF VectorsKeepTheirTexts, ChunksHaveTheirVectors
<1>2. WInv /\ [Next]_vars => WInv'
  BY NextKeepsWInv
<1> QED BY <1>1, <1>2, InitHasWInv, PTL DEF Spec

-----------------------------------------------------------------------------
(* Documents are whole.                                                     *)

LEMMA SpanHasSize ==
  ASSUME NEW d, NEW n \in Nat
  PROVE  LET S == {<<d, i>> : i \in 0..(n - 1)}
         IN  IsFiniteSet(S) /\ Cardinality(S) = n
<1> DEFINE S == {<<d, i>> : i \in 0..(n - 1)}
           f == [j \in 1..n |-> <<d, j - 1>>]
<1>1. f \in [1..n -> S]
  OBVIOUS
<1>2. \A i, j \in 1..n : f[i] = f[j] => i = j
  OBVIOUS
<1>3. \A s \in S : \E j \in 1..n : f[j] = s
  <2>1. ASSUME NEW i \in 0..(n - 1) PROVE \E j \in 1..n : f[j] = <<d, i>>
    <3>1. PICK j \in 1..n : j = i + 1
      OBVIOUS
    <3>2. f[j] = <<d, i>>
      BY <3>1
    <3> QED BY <3>2
  <2> QED BY <2>1
<1> HIDE DEF f, S
<1>4. ExistsBijection(1..n, S)
  <2>1. f \in Injection(1..n, S)
    BY <1>1, <1>2 DEF Injection, IsInjective
  <2>2. f \in Surjection(1..n, S)
    BY <1>1, <1>3 DEF Surjection
  <2> QED BY <2>1, <2>2 DEF ExistsBijection, Bijection
<1>5. IsFiniteSet(1..n) /\ Cardinality(1..n) = n
  BY FS_Interval
<1>6. IsFiniteSet(S) /\ Cardinality(S) = n
  BY <1>4, <1>5, FS_Bijection
<1> QED BY <1>6 DEF S

\* The points of a document that is untouched are its first ones.
LEMMA PointsAreABeginning ==
  ASSUME WInv, NEW d \in Docs, Untouched(d)
  PROVE  /\ StoredChunks(d) \in Nat
         /\ PointsOf(d) = {<<d, i>> : i \in 0..(StoredChunks(d) - 1)}
         /\ d \in DOMAIN sources => StoredChunks(d) <= Len(ChunksFor(d))
<1>0. ASSUME NEW n \in Nat, PointsOf(d) = {<<d, i>> : i \in 0..(n - 1)}
      PROVE  StoredChunks(d) = n
  BY <1>0, SpanHasSize DEF StoredChunks
<1>1. CASE d \notin DOMAIN sources
  <2>1. PointsOf(d) = {}
    BY <1>1 DEF WInv, IInv, WrittenOnce
  <2>2. PointsOf(d) = {<<d, i>> : i \in 0..(0 - 1)}
    BY <2>1
  <2>3. StoredChunks(d) = 0
    BY <1>0, <2>2
  <2> QED BY <1>1, <2>2, <2>3
<1>2. CASE d \in DOMAIN sources
  <2>1. PICK kind, text : kind = sources[d].kind /\ text = sources[d].text
    OBVIOUS
  <2>2. HasText(kind, text) /\ ChunksFor(d) = ChunksOf(kind, text)
    BY <1>2, <2>1 DEF WInv, EInv, SourcesAreSound, ChunksFor
  <2>3. IsSeq(ChunksFor(d))
    BY <2>2, ChunksAreWhole DEF IsSeq
  <2>4. PICK m \in Nat : m = Len(ChunksFor(d)) /\ DOMAIN ChunksFor(d) = 1..m
    BY <2>3, SeqHasLength
  <2>5. \A id \in PointsOf(d) : \E i \in 0..(m - 1) : id = <<d, i>>
    <3>1. ASSUME NEW id \in PointsOf(d) PROVE \E i \in 0..(m - 1) : id = <<d, i>>
      <4>1. id[1] = d /\ GoodPoint(id, points[id])
        BY DEF WInv, SInv, PointsHold, Good, PointsOf
      <4>2. PICK e \in DOMAIN sources : \E i \in Nat : id = <<e, i>> /\ i + 1 \in DOMAIN ChunksFor(e)
        BY <4>1 DEF GoodPoint
      <4>3. PICK i \in Nat : id = <<e, i>> /\ i + 1 \in DOMAIN ChunksFor(e)
        BY <4>2
      <4>4. e = d
        BY <4>1, <4>3
      <4> QED BY <2>4, <4>3, <4>4
    <3> QED BY <3>1
  <2> DEFINE S == {i \in 1..m : <<d, i - 1>> \in DOMAIN points}
  <2>6. ASSUME NEW i \in S, NEW j \in 1..m, j < i PROVE j \in S
    <3>1. i - 1 \in Nat /\ <<d, i - 1>> \in DOMAIN points
      OBVIOUS
    <3>2. Reached(d, i - 1)
      BY <3>1 DEF WInv, SInv, PointsHold
    <3>3. j - 1 \in 0..((i - 1) - 1)
      BY <2>6
    <3> QED BY <3>2, <3>3 DEF Reached
  <2>7. Cardinality(S) \in 0..m /\ S = 1..Cardinality(S)
    <3>1. S \in SUBSET (1..m)
      OBVIOUS
    <3> HIDE DEF S
    <3> QED BY <2>6, <3>1, Interval
  <2>8. PICK n \in 0..m : S = 1..n
    BY <2>7
  <2>9. PointsOf(d) = {<<d, i>> : i \in 0..(n - 1)}
    <3>1. ASSUME NEW id \in PointsOf(d) PROVE id \in {<<d, i>> : i \in 0..(n - 1)}
      <4>1. PICK i \in 0..(m - 1) : id = <<d, i>>
        BY <2>5
      <4>2. PICK k \in 1..m : k = i + 1 /\ k - 1 = i
        OBVIOUS
      <4>3. k \in S
        BY <4>1, <4>2 DEF PointsOf
      <4>4. i \in 0..(n - 1)
        <5>1. k \in 1..n
          BY <2>8, <4>3
        <5> QED BY <4>2, <5>1
      <4> QED BY <4>1, <4>4
    <3>2. ASSUME NEW i \in 0..(n - 1) PROVE <<d, i>> \in PointsOf(d)
      <4>1. PICK k \in 1..n : k = i + 1 /\ k - 1 = i
        BY <2>8
      <4>2. k \in S
        BY <2>8
      <4> QED BY <4>1, <4>2 DEF PointsOf
    <3> QED BY <3>1, <3>2
  <2>10. StoredChunks(d) = n
    BY <1>0, <2>9
  <2> QED BY <2>4, <2>9, <2>10
<1> QED BY <1>1, <1>2

LEMMA StoredIsWhole ==
  ASSUME WInv
  PROVE  StoredIsABeginning /\ AcknowledgedIsWhole
<1>1. StoredIsABeginning
  BY PointsAreABeginning DEF StoredIsABeginning, Untouched
<1>2. ASSUME ~short, NEW d \in Docs, fate[d] = "stored"
      PROVE  LET chunks == [i \in 1..StoredChunks(d) |-> points[<<d, i - 1>>].content]
             IN  Whole(sources[d].kind, chunks) = Original(sources[d].kind, sources[d].text)
  <2>0. Untouched(d) /\ d \in DOMAIN sources /\ Reached(d, Len(ChunksFor(d)))
    BY <1>2 DEF Untouched, WInv, SInv, PointsHold
  <2>1. PICK kind, text : kind = sources[d].kind /\ text = sources[d].text
    OBVIOUS
  <2>2. HasText(kind, text) /\ ChunksFor(d) = ChunksOf(kind, text)
    BY <2>0, <2>1 DEF WInv, EInv, SourcesAreSound, ChunksFor
  <2>3. IsSeq(ChunksFor(d))
    BY <2>2, ChunksAreWhole DEF IsSeq
  <2>4. PICK m \in Nat : /\ m = Len(ChunksFor(d)) /\ DOMAIN ChunksFor(d) = 1..m
                         /\ ChunksFor(d) = [i \in 1..m |-> ChunksFor(d)[i]]
    BY <2>3, SeqHasLength
  <2>5. PICK n \in Nat : /\ n = StoredChunks(d) /\ n <= m
                         /\ PointsOf(d) = {<<d, i>> : i \in 0..(n - 1)}
    BY <2>0, <2>4, PointsAreABeginning
  <2>6. n = m
    <3>1. CASE n < m
      <4>1. n \in 0..(m - 1)
        BY <3>1
      <4>2. <<d, n>> \in PointsOf(d)
        BY <2>0, <2>4, <4>1 DEF Reached, PointsOf
      <4>3. \E i \in 0..(n - 1) : <<d, n>> = <<d, i>>
        BY <2>5, <4>2
      <4> QED BY <4>3
    <3> QED BY <2>5, <3>1
  <2>7. ASSUME NEW i \in 1..m PROVE points[<<d, i - 1>>].content = ChunksFor(d)[i]
    <3>1. PICK id, k : id = <<d, k>> /\ k = i - 1
      OBVIOUS
    <3>2. k \in 0..(m - 1) /\ k + 1 = i
      BY <3>1
    <3>3. id \in DOMAIN points
      BY <2>0, <2>4, <3>1, <3>2 DEF Reached
    <3>4. GoodPoint(id, points[id])
      BY <3>3 DEF WInv, SInv, PointsHold, Good
    <3>5. PICK e \in DOMAIN sources : \E j \in Nat : id = <<e, j>> /\ points[id].content = ChunksFor(e)[j + 1]
      BY <3>4 DEF GoodPoint
    <3>6. PICK j \in Nat : id = <<e, j>> /\ points[id].content = ChunksFor(e)[j + 1]
      BY <3>5
    <3>7. e = d /\ j = k
      BY <3>1, <3>6
    <3> QED BY <3>1, <3>2, <3>6, <3>7
  <2>8. [i \in 1..StoredChunks(d) |-> points[<<d, i - 1>>].content] = ChunksFor(d)
    <3>1. [i \in 1..m |-> points[<<d, i - 1>>].content] = [i \in 1..m |-> ChunksFor(d)[i]]
      BY <2>7, Zenon
    <3> QED BY <2>4, <2>5, <2>6, <3>1
  <2>9. Whole(kind, ChunksOf(kind, text)) = Original(kind, text)
    BY <2>2, ChunksAreWhole
  <2> QED BY <2>1, <2>2, <2>8, <2>9
<1> QED BY <1>1, <1>2 DEF AcknowledgedIsWhole

-----------------------------------------------------------------------------
(* Directories are counted.                                                 *)

HasPhase(e) == "phase" \in DOMAIN e /\ e = [x \in DOMAIN e |-> e[x]]
Uploading(t) == BusyTask(t) /\ t.op = "upsert"

\* The documents a job has begun.
OwnDocs(j) == IF j.kind = "policies" THEN j.docs ELSE {j.doc}

\* Some of the documents of a directory are counted, the one at work is not
\* among them: each was stored, and all that are stored are among them.
Counted(j) ==
  /\ IsFiniteSet(j.docs) /\ j.count \in Nat
  /\ \E some \in SUBSET (j.docs \ {j.doc}) :
       /\ Cardinality(some) = j.count
       /\ \A d \in some : fate[d] # "none"
       /\ \A d \in j.docs \ {j.doc} : fate[d] = "stored" => d \in some

\* An upload is the last stage of a job; that its document is stored shows
\* that it has returned, and a job that sees it return has stored its document.
JobHolds(c) ==
  /\ HasPhase(emb[c])
  /\ Uploading(task[c]) => Active(c) /\ emb[c].phase = "idle" /\ job[c].doc = task[c].doc
  /\ Active(c) =>
       /\ OwnDocs(job[c]) \subseteq DOMAIN sources
       /\ job[c].doc = NoDoc \/ job[c].doc \in OwnDocs(job[c])
       /\ job[c].kind = "policies" => Counted(job[c])
       /\ job[c].doc # NoDoc =>
            /\ fate[job[c].doc] = "stored" =>
                 emb[c].phase = "idle" /\ ~Uploading(task[c]) /\ task[c].phase # "raised"
            /\ emb[c].phase = "idle" /\ task[c].phase = "returned" => fate[job[c].doc] # "none"

JobsAreApart ==
  \A c, x \in Ingesters : Active(c) /\ Active(x) /\ c # x =>
    OwnDocs(job[c]) \cap OwnDocs(job[x]) = {}

JInv ==
  /\ \A c \in Clients : Uploading(task[c]) => c \in Ingesters
  /\ \A c \in Ingesters : JobHolds(c)
  /\ JobsAreApart

\* A document is not stored now, and one that something was known of is known still.
FateStays(d) == (fate[d] # "none" => fate'[d] # "none") /\ (fate'[d] = "stored" => fate[d] = "stored")

\* An operation that starts no upload and does not return from one.
TaskCalm(t, u) ==
  /\ Uploading(u) => Uploading(t) /\ u.doc = t.doc
  /\ u.phase = "raised" => t.phase = "raised" \/ Uploading(t)
  /\ u.phase = "returned" => t.phase = "returned"

LEMMA CountStays ==
  ASSUME NEW j, Counted(j), \A d \in j.docs : FateStays(d)
  PROVE  Counted(j)'
<1>1. PICK some \in SUBSET (j.docs \ {j.doc}) :
       /\ Cardinality(some) = j.count
       /\ \A d \in some : fate[d] # "none"
       /\ \A d \in j.docs \ {j.doc} : fate[d] = "stored" => d \in some
  BY DEF Counted
<1>2. /\ \A d \in some : fate'[d] # "none"
      /\ \A d \in j.docs \ {j.doc} : fate'[d] = "stored" => d \in some
  BY <1>1 DEF FateStays
<1> QED BY <1>1, <1>2 DEF Counted

LEMMA JobStays ==
  ASSUME NEW c \in Ingesters, JobHolds(c), SourcesStay, job'[c] = job[c],
         HasPhase(emb'[c]), emb'[c].phase = "idle" <=> emb[c].phase = "idle",
         Active(c) => \A d \in OwnDocs(job[c]) : FateStays(d),
         TaskCalm(task[c], task'[c])
  PROVE  JobHolds(c)'
<1>0. PICK j : j = job[c] /\ j = job'[c]
  OBVIOUS
<1>1. Uploading(task'[c]) => j # NoJob /\ emb'[c].phase = "idle" /\ j.doc = task'[c].doc
  BY <1>0 DEF JobHolds, TaskCalm, Active
<1>2. ASSUME j # NoJob
      PROVE  /\ OwnDocs(j) \subseteq DOMAIN sources'
             /\ j.doc = NoDoc \/ j.doc \in OwnDocs(j)
             /\ j.kind = "policies" => Counted(j)'
             /\ j.doc # NoDoc =>
                  /\ fate'[j.doc] = "stored" =>
                       emb'[c].phase = "idle" /\ ~Uploading(task'[c]) /\ task'[c].phase # "raised"
                  /\ emb'[c].phase = "idle" /\ task'[c].phase = "returned" => fate'[j.doc] # "none"
  <2>1. /\ OwnDocs(j) \subseteq DOMAIN sources
        /\ j.doc = NoDoc \/ j.doc \in OwnDocs(j)
        /\ j.kind = "policies" => Counted(j)
        /\ j.doc # NoDoc =>
            /\ fate[j.doc] = "stored" =>
                 emb[c].phase = "idle" /\ ~Uploading(task[c]) /\ task[c].phase # "raised"
            /\ emb[c].phase = "idle" /\ task[c].phase = "returned" => fate[j.doc] # "none"
    BY <1>0, <1>2 DEF JobHolds, Active
  <2>2. \A d \in OwnDocs(j) : FateStays(d)
    BY <1>0, <1>2 DEF Active
  <2>3. j.kind = "policies" => Counted(j)'
    <3>1. ASSUME j.kind = "policies" PROVE \A d \in j.docs : FateStays(d)
      BY <2>2, <3>1 DEF OwnDocs
    <3> QED BY <2>1, <3>1, CountStays
  <2>4. j.doc # NoDoc => FateStays(j.doc)
    BY <2>1, <2>2
  <2> QED BY <2>1, <2>3, <2>4 DEF SourcesStay, FateStays, TaskCalm
<1>3. job'[c].kind = "policies" /\ job'[c] # NoJob => Counted(job[c])'
  BY <1>0, <1>2
<1> QED BY <1>0, <1>1, <1>2, <1>3 DEF JobHolds, Active

\* Nothing happens to the jobs but that operations and batches go on.
LEMMA CalmKeepsJInv ==
  ASSUME JInv, SourcesStay, UNCHANGED job,
         \A c \in Ingesters : HasPhase(emb'[c]) /\ (emb'[c].phase = "idle" <=> emb[c].phase = "idle"),
         \A d \in Docs : FateStays(d), DOMAIN sources \subseteq Docs,
         \A c \in Clients : TaskCalm(task[c], task'[c])
  PROVE  JInv'
<1>1. ASSUME NEW c \in Ingesters PROVE JobHolds(c)'
  <2>1. Active(c) => \A d \in OwnDocs(job[c]) : FateStays(d)
    BY DEF JInv, JobHolds
  <2> QED BY <2>1, ClientsAssumption, JobStays DEF JInv
<1>2. \A c \in Clients : Uploading(task'[c]) => c \in Ingesters
  BY DEF JInv, TaskCalm
<1>3. JobsAreApart'
  BY DEF JInv, JobsAreApart, Active
<1> QED BY <1>1, <1>2, <1>3 DEF JInv

\* One job goes on; what it newly owns nobody owned.
LEMMA OneJobKeepsJInv ==
  ASSUME JInv, SourcesStay, DOMAIN sources \subseteq Docs, NEW c \in Ingesters,
         job = [x \in Ingesters |-> job[x]], NEW j, job' = [job EXCEPT ![c] = j],
         \A x \in Ingesters \ {c} : emb'[x] = emb[x],
         \A x \in Clients \ {c} : task'[x] = task[x],
         \A d \in Docs : FateStays(d) \/ (Active(c) /\ d \in OwnDocs(job[c])),
         JobHolds(c)',
         j # NoJob =>
           \A d \in OwnDocs(j) : d \notin DOMAIN sources \/ (Active(c) /\ d \in OwnDocs(job[c]))
  PROVE  JInv'
<1>0. job'[c] = j /\ \A x \in Ingesters \ {c} : job'[x] = job[x]
  OBVIOUS
<1>1. ASSUME NEW x \in Ingesters PROVE JobHolds(x)'
  <2>1. CASE x # c
    <3>1. Active(x) => \A d \in OwnDocs(job[x]) : FateStays(d)
      <4>1. Active(x) => OwnDocs(job[x]) \subseteq Docs
        BY DEF JInv, JobHolds
      <4>2. Active(x) /\ Active(c) => OwnDocs(job[c]) \cap OwnDocs(job[x]) = {}
        BY <2>1 DEF JInv, JobsAreApart
      <4> QED BY <4>1, <4>2
    <3>2. TaskCalm(task[x], task'[x])
      BY <2>1, ClientsAssumption DEF TaskCalm
    <3>3. JobHolds(x) /\ HasPhase(emb'[x]) /\ (emb'[x].phase = "idle" <=> emb[x].phase = "idle")
      BY <2>1 DEF JInv, JobHolds
    <3> QED BY <1>0, <2>1, <3>1, <3>2, <3>3, JobStays
  <2> QED BY <2>1
<1>2. \A x \in Clients : Uploading(task'[x]) => x \in Ingesters
  BY DEF JInv
<1>3. JobsAreApart'
  <2>1. ASSUME NEW x \in Ingesters, Active(x), j # NoJob, x # c
        PROVE  OwnDocs(j) \cap OwnDocs(job[x]) = {}
    <3>1. OwnDocs(job[x]) \subseteq DOMAIN sources
      BY <2>1 DEF JInv, JobHolds
    <3>2. Active(c) => OwnDocs(job[c]) \cap OwnDocs(job[x]) = {}
      BY <2>1 DEF JInv, JobsAreApart
    <3> QED BY <2>1, <3>1, <3>2
  <2>2. ASSUME NEW x \in Ingesters, NEW y \in Ingesters, job'[x] # NoJob, job'[y] # NoJob, x # y
        PROVE  OwnDocs(job'[x]) \cap OwnDocs(job'[y]) = {}
    <3>1. CASE x = c
      BY <1>0, <2>1, <2>2, <3>1 DEF Active
    <3>2. CASE y = c
      BY <1>0, <2>1, <2>2, <3>2 DEF Active
    <3>3. CASE x # c /\ y # c
      BY <1>0, <2>2, <3>3 DEF JInv, JobsAreApart, Active
    <3> QED BY <3>1, <3>2, <3>3
  <2> QED BY <2>2 DEF JobsAreApart, Active
<1> QED BY <1>1, <1>2, <1>3 DEF JInv

LEMMA OneIsCalm ==
  ASSUME TasksAreSound, NEW c \in Clients, NEW u, task' = [task EXCEPT ![c] = u],
         TaskCalm(task[c], u)
  PROVE  \A x \in Clients : TaskCalm(task[x], task'[x])
<1>1. task'[c] = u /\ \A x \in Clients \ {c} : task'[x] = task[x]
  BY DEF TasksAreSound
<1>2. \A x \in Clients \ {c} : TaskCalm(task[x], task'[x])
  BY <1>1 DEF TaskCalm
<1> QED BY <1>1, <1>2

LEMMA EndIsCalm ==
  ASSUME TasksAreSound, NEW c \in Clients, BusyTask(task[c]), NEW phase,
         phase = "raised" \/ (phase = "returned" /\ task[c].op # "upsert"),
         task' = Ended(c, phase)
  PROVE  \A x \in Clients : TaskCalm(task[x], task'[x])
<1>1. PICK t : t = task[c]
  OBVIOUS
<1>2. PICK u : u = IF t.op = "upsert" THEN [op |-> t.op, phase |-> phase] ELSE Idle
  OBVIOUS
<1>3. task' = [task EXCEPT ![c] = u]
  BY <1>1, <1>2 DEF Ended, TasksAreSound
<1>4. TaskCalm(t, u)
  <2>1. CASE t.op = "upsert"
    <3>1. u.phase = "raised"
      BY <1>1, <1>2, <2>1
    <3> QED BY <1>1, <2>1, <3>1 DEF TaskCalm, Uploading, BusyTask
  <2>2. CASE t.op # "upsert"
    BY <1>2, <2>2 DEF TaskCalm, Uploading, BusyTask, Idle
  <2> QED BY <2>1, <2>2
<1> QED BY <1>1, <1>3, <1>4, OneIsCalm

LEMMA IdleIsCalm ==
  ASSUME TasksAreSound, NEW c \in Clients, task' = [task EXCEPT ![c] = Idle]
  PROVE  \A x \in Clients : TaskCalm(task[x], task'[x])
<1>1. TaskCalm(task[c], Idle)
  BY DEF TaskCalm, Uploading, BusyTask, Idle
<1> QED BY <1>1, OneIsCalm

\* An operation that is not over goes on, as one of the same document.
LEMMA BusyIsCalm ==
  ASSUME TasksAreSound, NEW c \in Clients, NEW u, task' = [task EXCEPT ![c] = u], BusyTask(u),
         u.op = "upsert" => BusyTask(task[c]) /\ u.op = task[c].op /\ u.doc = task[c].doc
  PROVE  \A x \in Clients : TaskCalm(task[x], task'[x])
<1>1. TaskCalm(task[c], u)
  BY DEF TaskCalm, Uploading, BusyTask
<1> QED BY <1>1, OneIsCalm

LEMMA AttemptIsCalm ==
  ASSUME TasksAreSound, NEW c \in Clients, BusyTask(task[c]),
         NEW phase \in {"waiting", "pause"}, NEW n,
         task' = [task EXCEPT ![c] = [task[c] EXCEPT !.phase = phase, !.attempt = n]]
  PROVE  \A x \in Clients : TaskCalm(task[x], task'[x])
<1>1. PICK o : o = task[c]
  OBVIOUS
<1>2. BusyTask(o) /\ HasFields(o)
  BY <1>1 DEF TasksAreSound, IsTask
<1>3. PICK t : t = [o EXCEPT !.phase = phase, !.attempt = n]
  OBVIOUS
<1>4. t.op = o.op /\ t.doc = o.doc /\ t.phase = phase
  BY <1>2, <1>3, AttemptHasFields
<1>5. BusyTask(t)
  BY <1>4 DEF BusyTask
<1> QED BY <1>1, <1>2, <1>3, <1>4, <1>5, BusyIsCalm

LEMMA ErrorIsCalm ==
  ASSUME TasksAreSound, NEW c \in Clients, task[c].phase = "waiting",
         NEW existed \in BOOLEAN, existed => task[c].op # "upsert", task' = AfterError(c, existed)
  PROVE  \A x \in Clients : TaskCalm(task[x], task'[x])
<1>0. BusyTask(task[c])
  BY DEF BusyTask
<1>1. CASE LastAttempt(c)
  <2>1. task' = Ended(c, IF existed THEN "returned" ELSE "raised")
    BY <1>1 DEF AfterError
  <2> QED BY <1>0, <2>1, EndIsCalm
<1>2. CASE ~LastAttempt(c)
  <2>1. PICK n : n = task[c].attempt + 1
    OBVIOUS
  <2>2. task' = [task EXCEPT ![c] = [task[c] EXCEPT !.phase = "pause", !.attempt = n]]
    BY <1>2, <2>1 DEF AfterError, SentAgain, TasksAreSound
  <2> QED BY <1>0, <2>2, AttemptIsCalm
<1> QED BY <1>1, <1>2

LEMMA LoseStays ==
  ASSUME NEW ids, Lose(ids)
  PROVE  \A d \in Docs : FateStays(d)
<1>1. \A d \in Docs : fate'[d] =
        IF fate[d] # "gone" /\ \E id \in ids \cap DOMAIN points : id[1] = d
        THEN "touched" ELSE fate[d]
  BY DEF Lose
<1> QED BY <1>1 DEF FateStays

LEMMA EffectStays ==
  ASSUME NEW r, Effect(r)
  PROVE  \A d \in Docs : FateStays(d)
<1>1. fate' = fate => \A d \in Docs : FateStays(d)
  BY DEF FateStays
<1> QED BY <1>1, LoseStays DEF Effect

\* All that the store does but for the last answer to an upsert.
LEMMA StoreIsCalm ==
  ASSUME TasksAreSound, NEW c \in Clients,
         Progress(c) \/ Fail(c) \/ CancelOperation(c),
         ~(UpsertAnswered(c) /\ task[c].rest = <<>>)
  PROVE  /\ \A x \in Clients : TaskCalm(task[x], task'[x])
         /\ \A d \in Docs : FateStays(d)
<1>f. fate' = fate => \A d \in Docs : FateStays(d)
  BY DEF FateStays
<1>0. PICK t : t = task[c]
  OBVIOUS
<1>t. IsTask(t)
  BY <1>0 DEF TasksAreSound
<1>1. CASE Refuse(c)
  <2>1. t.phase = "waiting" /\ task' = AfterError(c, t.req.kind = "create") /\ fate' = fate
    BY <1>0, <1>1 DEF Refuse
  <2>2. t.req.kind = "create" => t.op # "upsert"
    BY <1>t, <2>1 DEF IsTask, BusyTask
  <2>3. PICK existed \in BOOLEAN : existed = (t.req.kind = "create")
    OBVIOUS
  <2> QED BY <1>f, <1>0, <2>1, <2>2, <2>3, ErrorIsCalm
<1>2. CASE Fail(c)
  BY <1>2, <1>f, ErrorIsCalm DEF Fail
<1>3. CASE Wake(c)
  <2>1. BusyTask(t) /\ HasFields(t)
    BY <1>0, <1>3, <1>t DEF Wake, BusyTask, IsTask
  <2>2. PICK n : n = t.attempt
    OBVIOUS
  <2>3. [t EXCEPT !.phase = "waiting"] = [t EXCEPT !.phase = "waiting", !.attempt = n]
    BY <2>1, <2>2 DEF HasFields
  <2>4. task' = [task EXCEPT ![c] = [t EXCEPT !.phase = "waiting"]]
    BY <1>0, <1>3 DEF Wake, TasksAreSound
  <2>5. task' = [task EXCEPT ![c] = [task[c] EXCEPT !.phase = "waiting", !.attempt = n]]
    BY <1>0, <2>3, <2>4
  <2>6. fate' = fate
    BY <1>3 DEF Wake
  <2> QED BY <1>f, <1>0, <2>1, <2>5, <2>6, AttemptIsCalm
<1>4. CASE CancelOperation(c)
  BY <1>4, <1>f, IdleIsCalm DEF CancelOperation
<1>5. CASE DeleteAnswered(c)
  <2>1. /\ BusyTask(t) /\ t.req.kind = "delete" /\ task' = Ended(c, "returned")
        /\ fate' = [fate EXCEPT ![t.doc] = IF t.clean \/ @ = "gone" THEN "gone" ELSE "touched"]
    BY <1>0, <1>5 DEF DeleteAnswered, BusyTask
  <2>2. t.op # "upsert"
    BY <1>t, <2>1 DEF IsTask
  <2>3. \A d \in Docs : FateStays(d)
    BY <2>1 DEF FateStays, TasksAreSound
  <2> QED BY <1>0, <2>1, <2>2, <2>3, EndIsCalm
<1>6. CASE CollectionAnswered(c)
  <2>1. /\ BusyTask(t) /\ t.op # "upsert" /\ task' = Ended(c, "returned") /\ Effect(t.req)
    BY <1>0, <1>6 DEF CollectionAnswered, BusyTask
  <2> QED BY <1>0, <2>1, EndIsCalm, EffectStays
<1>7. CASE SearchAnswered(c)
  <2>1. /\ UNCHANGED fate /\ BusyTask(t) /\ t.phase = "waiting" /\ t.req.kind = "search"
        /\ \E ids :
             \/ task' = Ended(c, "returned")
             \/ task' = [task EXCEPT ![c].req = Delete(ids), ![c].attempt = 1,
                                     ![c].clean = (ids = PointsOf(t.doc) /\ Quiet(t.doc))]
    BY <1>7, <1>0 DEF SearchAnswered, BusyTask
  <2>2. PICK ids :
             \/ task' = Ended(c, "returned")
             \/ task' = [task EXCEPT ![c].req = Delete(ids), ![c].attempt = 1,
                                     ![c].clean = (ids = PointsOf(t.doc) /\ Quiet(t.doc))]
    BY <2>1
  <2>3. HasFields(t) /\ t.op = "delete"
    BY <1>t, <2>1 DEF IsTask
  <2>4. CASE task' = Ended(c, "returned")
    BY <1>f, <1>0, <2>1, <2>3, <2>4, EndIsCalm
  <2>5. CASE task' = [task EXCEPT ![c].req = Delete(ids), ![c].attempt = 1,
                                  ![c].clean = (ids = PointsOf(t.doc) /\ Quiet(t.doc))]
    <3>1. PICK r, b : r = Delete(ids) /\ b = (ids = PointsOf(t.doc) /\ Quiet(t.doc))
      OBVIOUS
    <3>2. b \in BOOLEAN
      BY <3>1
    <3>3. PICK u : u = Narrowed(t, r, b)
      OBVIOUS
    <3>4. u.op = "delete" /\ u.phase = "waiting"
      BY <2>1, <2>3, <3>2, <3>3, NarrowedHasFields
    <3>5. task' = [task EXCEPT ![c] = u]
      BY <1>0, <2>5, <3>1, <3>3 DEF TasksAreSound, Narrowed
    <3>6. BusyTask(u) /\ u.op # "upsert"
      BY <3>4 DEF BusyTask
    <3> QED BY <1>f, <2>1, <3>5, <3>6, BusyIsCalm
  <2> QED BY <2>2, <2>4, <2>5
<1>8. CASE UpsertAnswered(c) /\ t.rest # <<>>
  <2>1. /\ fate' = fate /\ BusyTask(t) /\ t.op = "upsert"
        /\ task' = [task EXCEPT ![c].phase = "pause", ![c].attempt = 1,
                                ![c].req = Upsert(Head(t.rest)), ![c].rest = Tail(t.rest)]
    BY <1>0, <1>8 DEF UpsertAnswered, BusyTask
  <2>2. HasFields(t)
    BY <1>t, <2>1 DEF IsTask
  <2>3. PICK r, rest : r = Upsert(Head(t.rest)) /\ rest = Tail(t.rest)
    OBVIOUS
  <2>4. PICK u : u = Following(t, r, rest)
    OBVIOUS
  <2>5. u.op = t.op /\ u.doc = t.doc /\ u.phase = "pause"
    BY <2>2, <2>4, FollowingHasFields
  <2>6. task' = [task EXCEPT ![c] = u]
    BY <1>0, <2>1, <2>3, <2>4 DEF TasksAreSound, Following
  <2>7. BusyTask(u)
    BY <2>5 DEF BusyTask
  <2> QED BY <1>f, <1>0, <2>1, <2>5, <2>6, <2>7, BusyIsCalm
<1> QED BY <1>0, <1>1, <1>2, <1>3, <1>4, <1>5, <1>6, <1>7, <1>8 DEF Progress

LEMMA LateIsCalm ==
  ASSUME LateSteps
  PROVE  UNCHANGED task /\ \A d \in Docs : FateStays(d)
<1>1. PICK r \in late : LateEffect(r) \/ LateLoss(r)
  BY DEF LateSteps
<1>2. UNCHANGED task /\ (Effect(r) \/ fate' = fate)
  BY <1>1 DEF LateEffect, LateLoss
<1>3. fate' = fate => \A d \in Docs : FateStays(d)
  BY DEF FateStays
<1> QED BY <1>2, <1>3, EffectStays

\* What a job is, with the batch and the operation of its client (JobHolds).
JobIs(j, e, t) ==
  /\ HasPhase(e)
  /\ Uploading(t) => j # NoJob /\ e.phase = "idle" /\ j.doc = t.doc
  /\ j # NoJob =>
       /\ OwnDocs(j) \subseteq DOMAIN sources
       /\ j.doc = NoDoc \/ j.doc \in OwnDocs(j)
       /\ j.kind = "policies" => Counted(j)
       /\ j.doc # NoDoc =>
            /\ fate[j.doc] = "stored" =>
                 e.phase = "idle" /\ ~Uploading(t) /\ t.phase # "raised"
            /\ e.phase = "idle" /\ t.phase = "returned" => fate[j.doc] # "none"

LEMMA OneJobGoesOn ==
  ASSUME IInv, JInv, SourcesStay, NEW c \in Ingesters, NEW j, NEW e, NEW t,
         job' = [job EXCEPT ![c] = j], emb' = [emb EXCEPT ![c] = e],
         task' = [task EXCEPT ![c] = t],
         \A d \in Docs : FateStays(d) \/ (Active(c) /\ d \in OwnDocs(job[c])),
         JobIs(j, e, t)',
         j # NoJob =>
           \A d \in OwnDocs(j) : d \notin DOMAIN sources \/ (Active(c) /\ d \in OwnDocs(job[c]))
  PROVE  JInv'
<1>1. /\ job = [x \in Ingesters |-> job[x]] /\ emb = [x \in Ingesters |-> emb[x]]
      /\ task = [x \in Clients |-> task[x]] /\ c \in Clients /\ DOMAIN sources \subseteq Docs
  BY ClientsAssumption DEF IInv, JobsAreSound, TasksAreSound
<1>2. /\ job'[c] = j /\ emb'[c] = e /\ task'[c] = t
      /\ \A x \in Ingesters \ {c} : emb'[x] = emb[x]
      /\ \A x \in Clients \ {c} : task'[x] = task[x]
  BY <1>1
<1>3. JobHolds(c)'
  <2>1. Active(c)' <=> j # NoJob
    BY <1>2 DEF Active
  <2>2. j # NoJob /\ j.kind = "policies" => Counted(job[c])'
    BY <1>2 DEF JobIs
  <2> QED BY <1>2, <2>1, <2>2 DEF JobIs, JobHolds
<1> QED BY <1>1, <1>2, <1>3, OneJobKeepsJInv

\* An upload is one of the document of its job.
LEMMA UploadHasDoc ==
  ASSUME IInv, SInv, JInv, NEW c \in Ingesters, Uploading(task[c])
  PROVE  /\ Active(c) /\ emb[c].phase = "idle" /\ job[c].doc = task[c].doc
         /\ job[c].doc \in DOMAIN sources /\ job[c].doc # NoDoc
<1>1. Active(c) /\ emb[c].phase = "idle" /\ job[c].doc = task[c].doc
  BY DEF JInv, JobHolds
<1>2. task[c].doc \in DOMAIN sources
  BY ClientsAssumption DEF SInv, TasksHold, TaskHolds, UploadGoesOn, Uploading
<1>3. DOMAIN sources \subseteq Docs
  BY DEF IInv, JobsAreSound
<1> QED BY <1>1, <1>2, <1>3, DocsAssumption

\* The last batch is stored, and with it the document.
LEMMA LastAnswerKeepsJInv ==
  ASSUME IInv, SInv, JInv, NEW c \in Clients, UpsertAnswered(c), task[c].rest = <<>>,
         UNCHANGED <<emb, job, sources>>
  PROVE  JInv'
<1>1. PICK o, d : o = task[c] /\ d = o.doc
  OBVIOUS
<1>2. /\ BusyTask(o) /\ o.op = "upsert"
      /\ task' = Ended(c, "returned")
      /\ fate' = [fate EXCEPT ![d] = IF @ = "none" THEN "stored" ELSE @]
  BY <1>1 DEF UpsertAnswered, BusyTask
<1>3. Uploading(o) /\ c \in Ingesters
  BY <1>1, <1>2 DEF JInv, Uploading
<1>4. PICK j, e : j = job[c] /\ e = emb[c]
  OBVIOUS
<1>5. j # NoJob /\ e.phase = "idle" /\ j.doc = d /\ d \in DOMAIN sources /\ d # NoDoc
  BY <1>1, <1>3, <1>4, UploadHasDoc DEF Active
<1>6. d \in Docs /\ fate = [x \in Docs |-> fate[x]]
  BY <1>5 DEF IInv, JobsAreSound, TasksAreSound
<1>7. /\ fate'[d] # "none" /\ \A x \in Docs \ {d} : fate'[x] = fate[x]
  BY <1>2, <1>6
<1>8. PICK u : u = [op |-> o.op, phase |-> "returned"]
  OBVIOUS
<1>9. u.phase = "returned" /\ ~Uploading(u)
  BY <1>8 DEF Uploading, BusyTask
<1>10. task' = [task EXCEPT ![c] = u]
  BY <1>1, <1>2, <1>8 DEF Ended, IInv, TasksAreSound
<1>11. job' = [job EXCEPT ![c] = j] /\ emb' = [emb EXCEPT ![c] = e]
  BY <1>3, <1>4 DEF IInv, JobsAreSound
<1>12. JobHolds(c) /\ OwnDocs(j) \subseteq DOMAIN sources /\ d \in OwnDocs(j)
  BY <1>3, <1>4, <1>5 DEF JInv, JobHolds, Active
<1>13. j.kind = "policies" => Counted(j)'
  <2>1. ASSUME j.kind = "policies" PROVE Counted(j)'
    <3>1. PICK some \in SUBSET (j.docs \ {j.doc}) :
       /\ IsFiniteSet(j.docs) /\ j.count \in Nat
       /\ Cardinality(some) = j.count
       /\ \A x \in some : fate[x] # "none"
       /\ \A x \in j.docs \ {j.doc} : fate[x] = "stored" => x \in some
      BY <1>4, <1>5, <1>12, <2>1 DEF JobHolds, Active, Counted
    <3>2. j.docs \subseteq Docs
      BY <1>12, <2>1 DEF OwnDocs, IInv, JobsAreSound
    <3>3. \A x \in j.docs \ {j.doc} : fate'[x] = fate[x]
      BY <1>5, <1>7, <3>2
    <3> QED BY <3>1, <3>3 DEF Counted
  <2> QED BY <2>1
<1>14. JobIs(j, e, u)'
  <2>1. HasPhase(e)
    BY <1>4, <1>12 DEF JobHolds
  <2> QED BY <1>5, <1>7, <1>9, <1>12, <1>13, <2>1 DEF JobIs
<1>15. \A x \in Docs : FateStays(x) \/ (Active(c) /\ x \in OwnDocs(job[c]))
  BY <1>4, <1>5, <1>7, <1>12 DEF FateStays, Active
<1>16. SourcesStay
  BY DEF SourcesStay
<1>17. \A x \in OwnDocs(j) : Active(c) /\ x \in OwnDocs(job[c])
  BY <1>4, <1>5 DEF Active
<1> QED BY <1>3, <1>10, <1>11, <1>14, <1>15, <1>16, <1>17, OneJobGoesOn

\* A batch that goes on keeps its client busy.
LEMMA EmbeddingHasPhase ==
  ASSUME IInv, JInv, NEW c \in Ingesters, EmbedSteps(c) \/ EmbedFaults(c)
  PROVE  \A x \in Ingesters : HasPhase(emb'[x]) /\ (emb'[x].phase = "idle" <=> emb[x].phase = "idle")
<1>1. PICK e : e = emb[c]
  OBVIOUS
<1>2. HasPhase(e)
  BY <1>1 DEF JInv, JobHolds
<1>3. emb = [x \in Ingesters |-> emb[x]]
  BY DEF IInv, JobsAreSound
<1>b. ASSUME NEW f, emb' = [emb EXCEPT ![c] = f], HasPhase(f), f.phase # "idle", e.phase # "idle"
      PROVE  \A x \in Ingesters : HasPhase(emb'[x]) /\ (emb'[x].phase = "idle" <=> emb[x].phase = "idle")
  <2>1. emb'[c] = f /\ \A x \in Ingesters \ {c} : emb'[x] = emb[x]
    BY <1>3, <1>b
  <2>2. \A x \in Ingesters \ {c} : HasPhase(emb[x])
    BY DEF JInv, JobHolds
  <2> QED BY <1>1, <1>b, <2>1, <2>2
<1>e. ASSUME NEW v, NEW f, f = [e EXCEPT !.found = v]
      PROVE  HasPhase(f) /\ f.phase = e.phase
  BY <1>2, <1>e DEF HasPhase
<1>4. ASSUME NEW v, Found(c, v), e.phase = "lookup"
      PROVE  \A x \in Ingesters : HasPhase(emb'[x]) /\ (emb'[x].phase = "idle" <=> emb[x].phase = "idle")
  <2>1. PICK found : found = Append(e.found, v)
    OBVIOUS
  <2>2. PICK g : g = [e EXCEPT !.found = found]
    OBVIOUS
  <2>3. PICK h : h = [phase |-> "embedded", vectors |-> g.found]
    OBVIOUS
  <2>4. PICK k : k = [phase |-> "calling", texts |-> g.texts, found |-> g.found,
                      got |-> <<>>, sent |-> 0]
    OBVIOUS
  <2>5. HasPhase(g) /\ g.phase = "lookup" /\ HasPhase(h) /\ h.phase = "embedded"
        /\ HasPhase(k) /\ k.phase = "calling"
    <3>1. HasPhase(g) /\ g.phase = "lookup"
      BY <1>4, <1>e, <2>2
    <3>2. HasPhase(h) /\ h.phase = "embedded"
      BY <2>3 DEF HasPhase
    <3>3. HasPhase(k) /\ k.phase = "calling"
      BY <2>4 DEF HasPhase
    <3> QED BY <3>1, <3>2, <3>3
  <2>6. \E f \in {g, h, k} : emb' = [emb EXCEPT ![c] = f]
    <3>1. [emb[c] EXCEPT !.found = Append(@, v)] = g
      BY <1>1, <2>1, <2>2
    <3>2. emb' = [emb EXCEPT ![c] =
            IF Len(g.found) < Len(g.texts) THEN g
            ELSE IF Missing(g.found) = <<>> THEN h ELSE k]
      BY <1>4, <2>3, <2>4, <3>1 DEF Found
    <3> QED BY <3>2
  <2> QED BY <1>4, <1>b, <2>5, <2>6
<1>5. ASSUME NEW kept, Answer(c, kept), e.phase = "calling"
      PROVE  \A x \in Ingesters : HasPhase(emb'[x]) /\ (emb'[x].phase = "idle" <=> emb[x].phase = "idle")
  <2>1. PICK got, n, cache, vectors :
          \/ emb' = [emb EXCEPT ![c] = [e EXCEPT !.got = got, !.sent = n]]
          \/ emb' = [emb EXCEPT ![c] = [phase |-> "caching", texts |-> cache, got |-> got,
                                        stored |-> 0, vectors |-> vectors]]
    BY <1>1, <1>5 DEF Answer
  <2>2. PICK g : g = [e EXCEPT !.got = got, !.sent = n]
    OBVIOUS
  <2>3. PICK h : h = [phase |-> "caching", texts |-> cache, got |-> got,
                      stored |-> 0, vectors |-> vectors]
    OBVIOUS
  <2>4. HasPhase(g) /\ g.phase = "calling"
    BY <1>2, <1>5, <2>2 DEF HasPhase
  <2>5. HasPhase(h) /\ h.phase = "caching"
    BY <2>3 DEF HasPhase
  <2> QED BY <1>5, <1>b, <2>1, <2>2, <2>3, <2>4, <2>5
<1>6. ASSUME ProviderFails(c)
      PROVE  \A x \in Ingesters : HasPhase(emb'[x]) /\ (emb'[x].phase = "idle" <=> emb[x].phase = "idle")
  <2>1. PICK f : f = [phase |-> "failed"]
    OBVIOUS
  <2>2. HasPhase(f) /\ f.phase = "failed"
    BY <2>1 DEF HasPhase
  <2> QED BY <1>1, <1>6, <1>b, <2>1, <2>2 DEF ProviderFails
<1>7. ASSUME CacheTo(c), e.phase = "caching"
      PROVE  \A x \in Ingesters : HasPhase(emb'[x]) /\ (emb'[x].phase = "idle" <=> emb[x].phase = "idle")
  <2>1. PICK n : n = emb[c].stored + 1
    OBVIOUS
  <2>2. PICK f : f = [e EXCEPT !.stored = n]
    OBVIOUS
  <2>3. emb' = [emb EXCEPT ![c] = f]
    BY <1>1, <1>3, <1>7, <2>1, <2>2 DEF CacheTo
  <2>4. HasPhase(f) /\ f.phase = "caching"
    BY <1>2, <1>7, <2>2 DEF HasPhase
  <2> QED BY <1>7, <1>b, <2>3, <2>4
<1>8. ASSUME CachingEnds(c)
      PROVE  \A x \in Ingesters : HasPhase(emb'[x]) /\ (emb'[x].phase = "idle" <=> emb[x].phase = "idle")
  <2>1. PICK f : f = [phase |-> "embedded", vectors |-> e.vectors]
    OBVIOUS
  <2>2. HasPhase(f) /\ f.phase = "embedded"
    BY <2>1 DEF HasPhase
  <2> QED BY <1>1, <1>8, <1>b, <2>1, <2>2 DEF CachingEnds
<1> QED BY <1>1, <1>4, <1>5, <1>6, <1>7, <1>8 DEF EmbedSteps, EmbedFaults, Lookup, LookupWithoutRedis,
       ProviderAnswers, ProviderAnswersShort, CacheNext, CacheNextWithoutRedis, Caching

\* The store and the embedding service go on, or an operation starts.
LEMMA ServicesKeepJInv ==
  ASSUME IInv, JInv, UNCHANGED <<job, sources>>,
         emb' = emb \/ \E c \in Ingesters : EmbedSteps(c) \/ EmbedFaults(c),
         \A d \in Docs : FateStays(d), \A c \in Clients : TaskCalm(task[c], task'[c])
  PROVE  JInv'
<1>1. \A c \in Ingesters : HasPhase(emb'[c]) /\ (emb'[c].phase = "idle" <=> emb[c].phase = "idle")
  <2>1. emb' = emb => \A c \in Ingesters :
           HasPhase(emb'[c]) /\ (emb'[c].phase = "idle" <=> emb[c].phase = "idle")
    BY DEF JInv, JobHolds
  <2> QED BY <2>1, EmbeddingHasPhase
<1>2. SourcesStay
  BY DEF SourcesStay
<1>3. DOMAIN sources \subseteq Docs
  BY DEF IInv, JobsAreSound
<1> QED BY <1>1, <1>2, <1>3, CalmKeepsJInv

LEMMA SameFates == ASSUME fate' = fate PROVE \A d \in Docs : FateStays(d)
BY DEF FateStays

\* A new document was stored by nobody.
LEMMA NewIsNotStored ==
  ASSUME SInv, NEW d \in Docs, d \notin DOMAIN sources
  PROVE  fate[d] # "stored"
BY DEF SInv, PointsHold

\* A text begins to be embedded: its job has a new document.
LEMMA EmbedKeepsJInv ==
  ASSUME IInv, SInv, JInv, SourcesStay, NEW c \in Ingesters, NEW d, NEW kind, NEW text,
         Embed(c, d, kind, text), UNCHANGED storeVars, ~Uploading(task[c]),
         NEW j, job' = [job EXCEPT ![c] = j], j # NoJob, j.doc = d, d \in OwnDocs(j),
         OwnDocs(j) \subseteq {d} \cup (IF Active(c) THEN OwnDocs(job[c]) ELSE {}),
         j.kind = "policies" => Counted(j)'
  PROVE  JInv'
<1>1. d \in Docs /\ d \notin DOMAIN sources /\ d \in DOMAIN sources'
  BY FreshIsUnused DEF Embed
<1>2. \E texts : emb' = [emb EXCEPT ![c] = [phase |-> "lookup", found |-> <<>>, texts |-> texts]]
  BY DEF Embed, StartEmbed
<1>3. PICK texts : emb' = [emb EXCEPT ![c] = [phase |-> "lookup", found |-> <<>>, texts |-> texts]]
  BY <1>2
<1>4. PICK e : e = [phase |-> "lookup", found |-> <<>>, texts |-> texts]
  OBVIOUS
<1>5. HasPhase(e) /\ e.phase = "lookup"
  BY <1>4 DEF HasPhase
<1>6. PICK t : t = task[c]
  OBVIOUS
<1>7. task' = [task EXCEPT ![c] = t] /\ fate' = fate
  BY <1>6 DEF storeVars, IInv, TasksAreSound
<1>8. fate'[d] # "stored"
  BY <1>1, <1>7, NewIsNotStored
<1>9. OwnDocs(j) \subseteq DOMAIN sources'
  <2>1. Active(c) => OwnDocs(job[c]) \subseteq DOMAIN sources
    BY DEF JInv, JobHolds
  <2> QED BY <1>1, <2>1 DEF SourcesStay
<1>10. JobIs(j, e, t)'
  BY <1>5, <1>6, <1>8, <1>9 DEF JobIs
<1>11. \A x \in Docs : FateStays(x)
  BY <1>7, SameFates
<1>12. \A x \in OwnDocs(j) : x \notin DOMAIN sources \/ (Active(c) /\ x \in OwnDocs(job[c]))
  BY <1>1
<1> QED BY <1>3, <1>4, <1>7, <1>10, <1>11, <1>12, OneJobGoesOn

LEMMA StartTextKeepsJInv ==
  ASSUME IInv, SInv, JInv, SourcesStay, NEW c \in Ingesters, StartText(c)
  PROVE  JInv'
<1>1. PICK d \in Docs, kind \in {"text", "faqs"} :
        \E text \in IF kind = "faqs" THEN Faqs ELSE Texts :
          /\ Embed(c, d, kind, text)
          /\ job' = [job EXCEPT ![c] = [kind |-> kind, doc |-> d]]
  BY DEF StartText
<1>2. PICK text \in IF kind = "faqs" THEN Faqs ELSE Texts : Embed(c, d, kind, text)
  BY <1>1
<1>3. PICK j : j = [kind |-> kind, doc |-> d]
  OBVIOUS
<1>4. j.kind = kind /\ j.doc = d /\ kind # "policies" /\ kind # "none"
  BY <1>3
<1>5. j # NoJob
  BY <1>4 DEF NoJob
<1>6. OwnDocs(j) = {d}
  BY <1>4 DEF OwnDocs
<1>7. ~Uploading(task[c])
  BY DEF StartText, JInv, JobHolds
<1> QED BY <1>1, <1>2, <1>3, <1>4, <1>5, <1>6, <1>7, EmbedKeepsJInv DEF StartText

LEMMA StartDocumentKeepsJInv ==
  ASSUME IInv, SInv, JInv, SourcesStay, NEW c \in Ingesters, StartDocument(c)
  PROVE  JInv'
<1>1. PICK d : d = Fresh
  OBVIOUS
<1>2. Unused # {} /\ ~Active(c) /\ UNCHANGED emb /\ UNCHANGED fate
  BY DEF StartDocument, StartUpsert, embVars
<1>3. d \in Docs /\ d \notin DOMAIN sources
  BY <1>1, <1>2, FreshIsUnused
<1>4. PICK text \in Texts \cup {<<>>} :
        /\ sources' = [x \in DOMAIN sources \cup {d} |->
                        IF x = d THEN [kind |-> "document", text |-> text] ELSE sources[x]]
        /\ job' = [job EXCEPT ![c] = [kind |-> "document", doc |-> d]]
        /\ LET chunks == ChunksOf("document", text)
               p == Paired(d, chunks, [i \in DOMAIN chunks |-> Zero])
           IN  StartUpsert(c, d, p.new, p.ids)
  BY <1>1 DEF StartDocument
<1>5. PICK new, ids : StartUpsert(c, d, new, ids)
  BY <1>4
<1>6. PICK r, rest : task' = [task EXCEPT ![c] = Sending("upsert", r, d, rest)]
  BY <1>5 DEF StartUpsert
<1>7. PICK t : t = Sending("upsert", r, d, rest)
  OBVIOUS
<1>8. t.doc = d /\ t.phase = "waiting"
  BY <1>7, SendingHasFields
<1>9. PICK j, e : j = [kind |-> "document", doc |-> d] /\ e = emb[c]
  OBVIOUS
<1>10. j.kind = "document" /\ j.doc = d
  BY <1>9
<1>11. j # NoJob
  BY <1>10 DEF NoJob
<1>12. OwnDocs(j) = {d}
  BY <1>10 DEF OwnDocs
<1>13. e.phase = "idle" /\ HasPhase(e)
  BY <1>2, <1>9, NoDocNoVectors DEF Active, JInv, JobHolds
<1>14. fate'[d] # "stored"
  BY <1>2, <1>3, NewIsNotStored
<1>15. d \in DOMAIN sources'
  BY <1>4
<1>16. JobIs(j, e, t)'
  BY <1>8, <1>10, <1>11, <1>12, <1>13, <1>14, <1>15 DEF JobIs
<1>17. emb' = [emb EXCEPT ![c] = e]
  BY <1>2, <1>9 DEF IInv, JobsAreSound
<1>18. \A x \in Docs : FateStays(x)
  BY <1>2, SameFates
<1> QED BY <1>3, <1>4, <1>6, <1>7, <1>9, <1>12, <1>16, <1>17, <1>18, OneJobGoesOn

\* A job that begins nothing, with its batch and its operation as they are.
LEMMA JobKeepsJInv ==
  ASSUME IInv, JInv, NEW c \in Ingesters, NEW j, job' = [job EXCEPT ![c] = j],
         UNCHANGED <<emb, task, fate, sources>>,
         JobIs(j, emb[c], task[c]),
         j # NoJob => \A d \in OwnDocs(j) : Active(c) /\ d \in OwnDocs(job[c])
  PROVE  JInv'
<1>1. PICK e, t : e = emb[c] /\ t = task[c]
  OBVIOUS
<1>2. emb' = [emb EXCEPT ![c] = e] /\ task' = [task EXCEPT ![c] = t]
  BY <1>1 DEF IInv, JobsAreSound, TasksAreSound
<1>3. Counted(j) => Counted(j)'
  BY DEF Counted
<1>4. JobIs(j, e, t)'
  BY <1>1, <1>3 DEF JobIs
<1>5. SourcesStay
  BY DEF SourcesStay
<1>6. \A x \in Docs : FateStays(x)
  BY SameFates
<1> QED BY <1>2, <1>4, <1>5, <1>6, OneJobGoesOn

LEMMA DirectoryKeepsJInv ==
  ASSUME IInv, SInv, JInv, NEW c \in Ingesters, StartDirectory(c) \/ DirectoryEnds(c)
  PROVE  JInv'
<1>1. UNCHANGED <<emb, task, fate, sources>>
  BY DEF StartDirectory, DirectoryEnds, storeVars, embVars
<1>2. HasPhase(emb[c])
  BY DEF JInv, JobHolds
<1>3. CASE StartDirectory(c)
  <2>1. PICK files : job' = [job EXCEPT ![c] = [kind |-> "policies", doc |-> NoDoc, left |-> files,
                                     count |-> 0, docs |-> {}]]
    BY <1>3 DEF StartDirectory
  <2>2. PICK j : j = [kind |-> "policies", doc |-> NoDoc, left |-> files, count |-> 0, docs |-> {}]
    OBVIOUS
  <2>3. j.kind = "policies" /\ j.doc = NoDoc /\ j.count = 0 /\ j.docs = {}
    BY <2>2
  <2>4. j # NoJob
    BY <2>3 DEF NoJob
  <2>5. OwnDocs(j) = {}
    BY <2>3 DEF OwnDocs
  <2>6. Counted(j)
    BY <2>3, FS_EmptySet DEF Counted
  <2>7. ~Uploading(task[c])
    BY <1>3 DEF StartDirectory, JInv, JobHolds
  <2>8. JobIs(j, emb[c], task[c])
    BY <1>2, <2>3, <2>5, <2>6, <2>7 DEF JobIs
  <2> QED BY <1>1, <2>1, <2>2, <2>5, <2>8, JobKeepsJInv
<1>4. CASE DirectoryEnds(c)
  <2>1. job' = [job EXCEPT ![c] = NoJob] /\ job[c].doc = NoDoc
    BY <1>4 DEF DirectoryEnds
  <2>2. ~Uploading(task[c])
    BY <2>1, UploadHasDoc
  <2>3. JobIs(NoJob, emb[c], task[c])
    BY <1>2, <2>2 DEF JobIs
  <2> QED BY <1>1, <2>1, <2>3, JobKeepsJInv
<1> QED BY <1>3, <1>4

LEMMA NextFileKeepsJInv ==
  ASSUME IInv, SInv, JInv, SourcesStay, NEW c \in Ingesters, NextFile(c)
  PROVE  JInv'
<1>0. PICK o, left : o = job[c] /\ left = Tail(o.left)
  OBVIOUS
<1>1. /\ o.doc = NoDoc /\ o.kind = "policies" /\ UNCHANGED storeVars
      /\ o = [kind |-> o.kind, doc |-> o.doc, left |-> o.left, count |-> o.count, docs |-> o.docs]
  BY <1>0 DEF NextFile, IInv, JobsAreSound, IsDirectory
<1>2. o # NoJob
  BY <1>1 DEF NoJob
<1>3. ~Uploading(task[c])
  BY <1>0, <1>1, UploadHasDoc
<1>4. PICK j : j = [o EXCEPT !.left = left]
  OBVIOUS
<1>5. \/ job' = [job EXCEPT ![c] = j] /\ UNCHANGED <<emb, sources>>
      \/ \E d \in Docs : \E text :
           /\ Embed(c, d, "text", text)
           /\ job' = [job EXCEPT ![c] = [j EXCEPT !.doc = d, !.docs = @ \cup {d}]]
  BY <1>0, <1>4 DEF NextFile, embVars
<1>6. HasPhase(emb[c]) /\ Counted(o) /\ OwnDocs(o) = o.docs /\ o.docs \subseteq DOMAIN sources
  BY <1>0, <1>1, <1>2 DEF JInv, JobHolds, Active, OwnDocs
<1>7. CASE job' = [job EXCEPT ![c] = j] /\ UNCHANGED <<emb, sources>>
  <2>1. j.kind = "policies" /\ j.doc = NoDoc /\ j.count = o.count /\ j.docs = o.docs
    BY <1>1, <1>4
  <2>2. Counted(j)
    BY <1>1, <1>6, <2>1 DEF Counted
  <2>3. OwnDocs(j) = o.docs
    BY <2>1 DEF OwnDocs
  <2>4. j # NoJob
    BY <2>1 DEF NoJob
  <2>5. JobIs(j, emb[c], task[c])
    BY <1>3, <1>6, <2>1, <2>2, <2>3, <2>4 DEF JobIs
  <2> QED BY <1>0, <1>1, <1>2, <1>6, <1>7, <2>3, <2>5, JobKeepsJInv DEF storeVars, Active
<1>8. ASSUME NEW d \in Docs, NEW text, Embed(c, d, "text", text),
             job' = [job EXCEPT ![c] = [j EXCEPT !.doc = d, !.docs = @ \cup {d}]]
      PROVE  JInv'
  <2>1. PICK docs : docs = o.docs \cup {d}
    OBVIOUS
  <2>2. PICK k : k = [j EXCEPT !.doc = d, !.docs = docs]
    OBVIOUS
  <2>j. j.docs = o.docs
    BY <1>1, <1>4
  <2>3. job' = [job EXCEPT ![c] = k]
    BY <1>8, <2>1, <2>2, <2>j
  <2>4. k.kind = "policies" /\ k.doc = d /\ k.count = o.count /\ k.docs = docs
    BY <1>1, <1>4, <2>2
  <2>5. k # NoJob
    BY <2>4 DEF NoJob
  <2>6. OwnDocs(k) = docs
    BY <2>4 DEF OwnDocs
  <2>7. d \notin DOMAIN sources /\ fate' = fate
    BY <1>1, <1>8, FreshIsUnused DEF Embed, storeVars
  <2>8. Counted(k)'
    <3>1. PICK some \in SUBSET (o.docs \ {o.doc}) :
       /\ IsFiniteSet(o.docs) /\ o.count \in Nat
       /\ Cardinality(some) = o.count
       /\ \A x \in some : fate[x] # "none"
       /\ \A x \in o.docs \ {o.doc} : fate[x] = "stored" => x \in some
      BY <1>6 DEF Counted
    <3>2. NoDoc \notin o.docs /\ d \notin o.docs
      BY <1>6, <2>7, DocsAssumption DEF IInv, JobsAreSound
    <3>3. o.docs \ {o.doc} = o.docs /\ docs \ {d} = o.docs
      BY <1>1, <2>1, <3>2
    <3>4. IsFiniteSet(docs)
      BY <2>1, <3>1, FS_AddElement
    <3>5. some \in SUBSET (docs \ {d}) /\ \A x \in docs \ {d} : fate[x] = "stored" => x \in some
      BY <3>1, <3>3
    <3> QED BY <2>4, <2>7, <3>1, <3>4, <3>5 DEF Counted
  <2>9. OwnDocs(k) \subseteq {d} \cup (IF Active(c) THEN OwnDocs(job[c]) ELSE {})
    BY <1>0, <1>2, <1>6, <2>1, <2>6 DEF Active
  <2>10. d \in OwnDocs(k)
    BY <2>1, <2>6
  <2> QED BY <1>1, <1>3, <1>8, <2>3, <2>4, <2>5, <2>8, <2>9, <2>10, EmbedKeepsJInv
<1> QED BY <1>5, <1>7, <1>8

LEMMA StorePointsKeepsJInv ==
  ASSUME IInv, SInv, JInv, NEW c \in Ingesters, StorePoints(c)
  PROVE  JInv'
<1>1. PICK j, d : j = job[c] /\ d = j.doc
  OBVIOUS
<1>2. /\ emb[c].phase = "embedded" /\ emb' = [emb EXCEPT ![c] = EmbIdle]
      /\ UNCHANGED <<job, sources, fate>>
  BY DEF StorePoints, StartUpsert
<1>3. \E new, ids : StartUpsert(c, d, new, ids)
  BY <1>1 DEF StorePoints
<1>4. PICK new, ids : StartUpsert(c, d, new, ids)
  BY <1>3
<1>5. PICK r, rest : task' = [task EXCEPT ![c] = Sending("upsert", r, d, rest)]
  BY <1>4 DEF StartUpsert
<1>6. PICK t : t = Sending("upsert", r, d, rest)
  OBVIOUS
<1>7. t.doc = d /\ t.phase = "waiting"
  BY <1>6, SendingHasFields
<1>8. j # NoJob /\ d \in DOMAIN sources /\ d \in Docs
  BY <1>1, <1>2 DEF IInv, JobsAreSound, Active
<1>9. d # NoDoc
  BY <1>8, DocsAssumption
<1>10. /\ OwnDocs(j) \subseteq DOMAIN sources /\ d \in OwnDocs(j)
       /\ j.kind = "policies" => Counted(j)
       /\ fate[d] # "stored"
  BY <1>1, <1>2, <1>8, <1>9 DEF JInv, JobHolds, Active
<1>11. Counted(j) => Counted(j)'
  BY <1>2 DEF Counted
<1>12. HasPhase(EmbIdle) /\ EmbIdle.phase = "idle"
  BY DEF EmbIdle, HasPhase
<1>13. JobIs(j, EmbIdle, t)'
  BY <1>1, <1>2, <1>7, <1>8, <1>10, <1>11, <1>12 DEF JobIs
<1>14. job' = [job EXCEPT ![c] = j]
  BY <1>1, <1>2 DEF IInv, JobsAreSound
<1>15. \A x \in Docs : FateStays(x)
  BY <1>2, SameFates
<1>16. SourcesStay
  BY <1>2 DEF SourcesStay
<1>17. \A x \in OwnDocs(j) : Active(c) /\ x \in OwnDocs(job[c])
  BY <1>1, <1>8 DEF Active
<1> QED BY <1>2, <1>5, <1>6, <1>13, <1>14, <1>15, <1>16, <1>17, OneJobGoesOn

\* A file whose upsert returned is counted, one that failed was not stored.
LEMMA FileIsCounted ==
  ASSUME IInv, NEW j, Counted(j), NEW d, d = j.doc, d \in j.docs, j.docs \subseteq Docs,
         NEW ok \in BOOLEAN, ok => fate[d] # "none", ~ok => fate[d] # "stored",
         NEW k, k.docs = j.docs, k.doc = NoDoc, k.count = Count(j.count, ok)
  PROVE  Counted(k)
<1>1. PICK some \in SUBSET (j.docs \ {d}) :
       /\ IsFiniteSet(j.docs) /\ j.count \in Nat
       /\ Cardinality(some) = j.count
       /\ \A x \in some : fate[x] # "none"
       /\ \A x \in j.docs \ {d} : fate[x] = "stored" => x \in some
  BY DEF Counted
<1>2. j.docs \ {NoDoc} = j.docs
  BY DocsAssumption
<1>3. CASE ok
  <2>1. PICK more : more = some \cup {d}
    OBVIOUS
  <2>2. some \in SUBSET j.docs
    BY <1>1
  <2>3. IsFiniteSet(some) /\ d \notin some
    BY <1>1, <2>2, FS_Subset
  <2>4. Cardinality(more) = Cardinality(some) + 1
    BY <2>1, <2>3, FS_AddElement
  <2>5. k.count = j.count + 1 /\ k.count \in Nat
    BY <1>1, <1>3 DEF Count
  <2>6. more \in SUBSET (j.docs \ {NoDoc})
    BY <1>2, <2>1, <2>2
  <2>7. Cardinality(more) = k.count
    BY <1>1, <2>4, <2>5
  <2>8. /\ \A x \in more : fate[x] # "none"
        /\ \A x \in j.docs \ {NoDoc} : fate[x] = "stored" => x \in more
    BY <1>1, <1>3, <2>1
  <2> QED BY <1>1, <2>5, <2>6, <2>7, <2>8 DEF Counted
<1>4. CASE ~ok
  <2>1. k.count = j.count
    BY <1>4 DEF Count
  <2>2. some \in SUBSET (j.docs \ {NoDoc})
    BY <1>1, <1>2
  <2>3. \A x \in j.docs \ {NoDoc} : fate[x] = "stored" => x \in some
    BY <1>1, <1>4
  <2> QED BY <1>1, <2>1, <2>2, <2>3 DEF Counted
<1> QED BY <1>3, <1>4

LEMMA DocumentEndsKeepsJInv ==
  ASSUME IInv, SInv, JInv, NEW c \in Ingesters, DocumentEnds(c)
  PROVE  JInv'
<1>1. PICK o, d : o = job[c] /\ d = o.doc
  OBVIOUS
<1>2. PICK ok \in BOOLEAN : ok <=> (emb[c].phase = "idle" /\ task[c].phase = "returned")
  OBVIOUS
<1>3. PICK n : n = Count(o.count, ok)
  OBVIOUS
<1>4. PICK k : k = [o EXCEPT !.doc = NoDoc, !.count = n]
  OBVIOUS
<1>5. PICK j : j = IF o.kind = "policies" THEN k ELSE NoJob
  OBVIOUS
<1>6. /\ o # NoJob /\ d # NoDoc
      /\ emb[c].phase = "failed" \/ (emb[c].phase = "idle" /\ task[c].phase \in {"returned", "raised"})
      /\ emb' = [emb EXCEPT ![c] = EmbIdle]
      /\ task' = [task EXCEPT ![c] = Idle]
      /\ UNCHANGED <<sources, fate>>
  BY <1>1 DEF DocumentEnds, Active
<1>7. job' = [job EXCEPT ![c] = j]
  <2>1. Count(o.count, emb[c].phase = "idle" /\ task[c].phase = "returned") = n
    BY <1>2, <1>3 DEF Count
  <2> QED BY <1>1, <1>4, <1>5, <2>1 DEF DocumentEnds
<1>8. /\ OwnDocs(o) \subseteq DOMAIN sources /\ d \in OwnDocs(o)
      /\ o.kind = "policies" => Counted(o)
      /\ ok => fate[d] # "none"
      /\ ~ok => fate[d] # "stored"
  BY <1>1, <1>2, <1>6 DEF JInv, JobHolds, Active
<1>9. ASSUME o.kind = "policies"
      PROVE  k.kind = "policies" /\ k.doc = NoDoc /\ k.count = n /\ k.docs = o.docs
  <2>1. o = [kind |-> o.kind, doc |-> o.doc, left |-> o.left, count |-> o.count, docs |-> o.docs]
    BY <1>1, <1>9 DEF IInv, JobsAreSound, IsDirectory
  <2> QED BY <1>4, <1>9, <2>1
<1>10. ASSUME o.kind = "policies"
       PROVE  Counted(k) /\ OwnDocs(k) = OwnDocs(o)
  <2>1. OwnDocs(o) = o.docs /\ OwnDocs(k) = k.docs
    BY <1>9, <1>10 DEF OwnDocs
  <2>2. o.docs \subseteq Docs
    BY <1>8, <2>1 DEF IInv, JobsAreSound
  <2>3. Counted(k)
    BY <1>1, <1>3, <1>8, <1>9, <1>10, <2>1, <2>2, FileIsCounted
  <2> QED BY <1>9, <1>10, <2>1, <2>3
<1>11. Counted(k) => Counted(k)'
  BY <1>6 DEF Counted
<1>12. HasPhase(EmbIdle) /\ EmbIdle.phase = "idle" /\ ~Uploading(Idle)
  BY DEF EmbIdle, HasPhase, Idle, Uploading, BusyTask
<1>13. NoJob.kind # "policies"
  BY DEF NoJob
<1>14. JobIs(j, EmbIdle, Idle)'
  BY <1>5, <1>6, <1>8, <1>9, <1>10, <1>11, <1>12 DEF JobIs
<1>15. \A x \in Docs : FateStays(x)
  BY <1>6, SameFates
<1>16. SourcesStay
  BY <1>6 DEF SourcesStay
<1>17. j # NoJob => \A x \in OwnDocs(j) : Active(c) /\ x \in OwnDocs(job[c])
  BY <1>1, <1>5, <1>6, <1>10 DEF Active
<1> QED BY <1>6, <1>7, <1>14, <1>15, <1>16, <1>17, OneJobGoesOn

LEMMA CancelJobKeepsJInv ==
  ASSUME IInv, JInv, NEW c \in Ingesters, CancelJob(c)
  PROVE  JInv'
<1>1. /\ job' = [job EXCEPT ![c] = NoJob] /\ emb' = [emb EXCEPT ![c] = EmbIdle]
      /\ UNCHANGED <<sources, fate>>
  BY DEF CancelJob, CancelOperation, storeVars
<1>2. \E t : task' = [task EXCEPT ![c] = t] /\ ~BusyTask(t)
  <2>1. CASE Busy(c) /\ CancelOperation(c)
    <3>1. ~BusyTask(Idle) /\ task' = [task EXCEPT ![c] = Idle]
      BY <2>1 DEF CancelOperation, BusyTask, Idle
    <3> QED BY <3>1
  <2>2. CASE ~Busy(c) /\ UNCHANGED storeVars
    <3>1. task' = [task EXCEPT ![c] = task[c]]
      BY <2>2 DEF storeVars, IInv, TasksAreSound
    <3> QED BY <2>2, <3>1 DEF Busy, BusyTask
  <2> QED BY <2>1, <2>2 DEF CancelJob
<1>3. PICK t : task' = [task EXCEPT ![c] = t] /\ ~BusyTask(t)
  BY <1>2
<1>4. JobIs(NoJob, EmbIdle, t)'
  BY <1>3 DEF JobIs, EmbIdle, HasPhase, Uploading
<1>5. \A x \in Docs : FateStays(x)
  BY <1>1, SameFates
<1>6. SourcesStay
  BY <1>1 DEF SourcesStay
<1> QED BY <1>1, <1>3, <1>4, <1>5, <1>6, OneJobGoesOn

LEMMA InitHasJInv == ASSUME Init PROVE JInv
<1>1. ~Uploading(Idle) /\ HasPhase(EmbIdle)
  BY DEF Idle, Uploading, BusyTask, EmbIdle, HasPhase
<1>2. /\ task = [c \in Clients |-> Idle] /\ emb = [c \in Ingesters |-> EmbIdle]
      /\ job = [c \in Ingesters |-> NoJob]
  BY ClientsAssumption DEF Init, StoreInit, EmbInit
<1>3. \A c \in Ingesters : JobHolds(c)
  BY <1>1, <1>2, ClientsAssumption DEF JobHolds, Active
<1> QED BY <1>1, <1>2, <1>3 DEF JInv, JobsAreApart, Active

LEMMA StoreKeepsJInv ==
  ASSUME IInv, SInv, JInv, NEW c \in Clients, Progress(c) \/ Fail(c) \/ CancelOperation(c),
         UNCHANGED <<emb, job, sources>>
  PROVE  JInv'
<1>1. CASE UpsertAnswered(c) /\ task[c].rest = <<>>
  BY <1>1, LastAnswerKeepsJInv
<1>2. CASE ~(UpsertAnswered(c) /\ task[c].rest = <<>>)
  BY <1>2, StoreIsCalm, ServicesKeepJInv DEF IInv
<1> QED BY <1>1, <1>2

LEMMA AdministerKeepsJInv ==
  ASSUME IInv, JInv, NEW c \in Admins, Administer(c)
  PROVE  JInv'
<1>1. c \in Clients
  BY ClientsAssumption
<1>2. UNCHANGED <<emb, job, sources, fate>>
  BY DEF Administer, StartDelete, StartCreate, StartDrop, embVars
<1>3. \E op \in {"delete", "create", "drop"} : \E r, doc, rest :
        task' = [task EXCEPT ![c] = Sending(op, r, doc, rest)]
  BY DEF Administer, StartDelete, StartCreate, StartDrop
<1>4. PICK op \in {"delete", "create", "drop"} : \E r, doc, rest :
        task' = [task EXCEPT ![c] = Sending(op, r, doc, rest)]
  BY <1>3
<1>5. PICK r, doc, rest : task' = [task EXCEPT ![c] = Sending(op, r, doc, rest)]
  BY <1>4
<1>6. PICK u : u = Sending(op, r, doc, rest)
  OBVIOUS
<1>7. u.phase = "waiting" /\ u.op = op
  BY <1>6, SendingHasFields
<1>8. BusyTask(u) /\ u.op # "upsert"
  BY <1>7 DEF BusyTask
<1>9. \A x \in Clients : TaskCalm(task[x], task'[x])
  BY <1>1, <1>5, <1>6, <1>8, BusyIsCalm DEF IInv
<1> QED BY <1>2, <1>9, SameFates, ServicesKeepJInv

LEMMA NextKeepsJInv ==
  ASSUME IInv, SInv, JInv, SourcesStay, [Next]_vars
  PROVE  JInv'
<1>s. UNCHANGED storeVars =>
        /\ \A x \in Clients : TaskCalm(task[x], task'[x])
        /\ \A d \in Docs : FateStays(d)
  <2>1. UNCHANGED task => \A x \in Clients : TaskCalm(task[x], task'[x])
    BY DEF TaskCalm
  <2> QED BY <2>1, SameFates DEF storeVars
<1>1. ASSUME NEW c \in Ingesters, JobStep(c) PROVE JInv'
  <2>c. c \in Clients
    BY ClientsAssumption
  <2>1. CASE EmbStep(c)
    BY <1>s, <2>1, ServicesKeepJInv DEF EmbStep
  <2>2. CASE StoreStep(c)
    BY <2>2, <2>c, StoreKeepsJInv DEF StoreStep, embVars
  <2> QED BY <1>1, <2>1, <2>2, StorePointsKeepsJInv, DocumentEndsKeepsJInv, NextFileKeepsJInv,
             DirectoryKeepsJInv DEF JobStep
<1>2. ASSUME NEW c \in Ingesters, StartText(c) \/ StartDocument(c) \/ StartDirectory(c)
      PROVE  JInv'
  BY <1>2, StartTextKeepsJInv, StartDocumentKeepsJInv, DirectoryKeepsJInv
<1>3. ASSUME NEW c \in Admins, Administer(c) \/ StoreStep(c) PROVE JInv'
  BY <1>3, ClientsAssumption, AdministerKeepsJInv, StoreKeepsJInv DEF StoreStep, embVars
<1>4. CASE LateSteps /\ UNCHANGED <<embVars, job, sources, disturbances>>
  <2>1. UNCHANGED task /\ \A d \in Docs : FateStays(d)
    BY <1>4, LateIsCalm
  <2>2. \A x \in Clients : TaskCalm(task[x], task'[x])
    BY <2>1 DEF TaskCalm
  <2> QED BY <1>4, <2>1, <2>2, ServicesKeepJInv DEF embVars
<1>5. CASE Fault
  <2>1. ASSUME NEW c \in Clients, Fail(c) \/ CancelOperation(c), UNCHANGED <<embVars, job, sources>>
        PROVE  JInv'
    BY <2>1, StoreKeepsJInv DEF embVars
  <2>2. ASSUME NEW c \in Ingesters, EmbedFaults(c), UNCHANGED <<storeVars, job, sources>>
        PROVE  JInv'
    BY <1>s, <2>2, ServicesKeepJInv
  <2>3. CASE CacheSteps /\ UNCHANGED <<storeVars, job, sources>>
    <3>1. emb' = emb
      BY <2>3 DEF CacheSteps, Invalidate, ClearCache, RedisLoses
    <3> QED BY <1>s, <2>3, <3>1, ServicesKeepJInv
  <2>4. CASE Restart
    <3>1. /\ task' = [c \in Clients |-> Idle] /\ emb' = [c \in Ingesters |-> EmbIdle]
          /\ job' = [c \in Ingesters |-> NoJob]
      BY <2>4, ClientsAssumption DEF Restart, RestartStore, RestartEmbeddings
    <3>2. \A c \in Ingesters : JobHolds(c)'
      <4>1. ~Uploading(Idle) /\ HasPhase(EmbIdle)
        BY DEF Idle, Uploading, BusyTask, EmbIdle, HasPhase
      <4> QED BY <3>1, <4>1, ClientsAssumption DEF JobHolds, Active
    <3>3. ~Uploading(Idle)
      BY DEF Idle, Uploading, BusyTask
    <3> QED BY <3>1, <3>2, <3>3 DEF JInv, JobsAreApart, Active
  <2> QED BY <1>5, <2>1, <2>2, <2>3, <2>4, CancelJobKeepsJInv, ClientsAssumption DEF Fault
<1>6. CASE UNCHANGED vars
  BY <1>6, <1>s, ServicesKeepJInv DEF vars, embVars
<1> QED BY <1>1, <1>2, <1>3, <1>4, <1>5, <1>6 DEF Next

\* Requests that nobody waits for are as many as the bound allows.
LateFits == IsFiniteSet(late) /\ Cardinality(late) <= MaxLate

\* What the variables are.
TInv ==
  /\ exists \in BOOLEAN /\ short \in BOOLEAN
  /\ \A d \in Docs : fate[d] \in Fates
  /\ LateFits
  /\ \A c \in Clients : task[c].phase \in Phases /\ Tried(task[c])

\* What the store keeps of it.
KnownStays == exists' \in BOOLEAN /\ (\A d \in Docs : fate'[d] \in Fates) /\ LateFits'

LEMMA LateAdded ==
  ASSUME LateFits, NEW r, late' = late \/ (Cardinality(late) < MaxLate /\ late' = late \cup {r})
  PROVE  LateFits'
<1>1. CASE late' = late
  BY <1>1 DEF LateFits
<1>2. CASE Cardinality(late) < MaxLate /\ late' = late \cup {r}
  <2>1. IsFiniteSet(late) /\ Cardinality(late) \in Nat
    BY FS_CardinalityType DEF LateFits
  <2>2. PICK n \in Nat : n = Cardinality(late) /\ n < MaxLate
    BY <1>2, <2>1
  <2>3. IsFiniteSet(late') /\ (Cardinality(late') = n \/ Cardinality(late') = n + 1)
    BY <1>2, <2>1, <2>2, FS_AddElement
  <2>4. n <= MaxLate /\ n + 1 <= MaxLate
    BY <2>2, MaxLateAssumption
  <2> QED BY <2>3, <2>4 DEF LateFits
<1> QED BY <1>1, <1>2

LEMMA LateTaken ==
  ASSUME LateFits, NEW r, late' = late \ {r}
  PROVE  LateFits'
<1>1. late' \in SUBSET late
  OBVIOUS
<1>2. IsFiniteSet(late') /\ Cardinality(late') <= Cardinality(late)
  BY <1>1, FS_Subset DEF LateFits
<1>3. PICK n \in Nat, m \in Nat : n = Cardinality(late') /\ m = Cardinality(late)
  BY <1>2, FS_CardinalityType DEF LateFits
<1>4. m <= MaxLate /\ n <= m
  BY <1>2, <1>3 DEF LateFits
<1>5. n <= MaxLate
  BY <1>4, MaxLateAssumption
<1> QED BY <1>2, <1>3, <1>5 DEF LateFits

LEMMA RestartFits ==
  ASSUME LateFits, RestartStore
  PROVE  LateFits'
<1> DEFINE waiting == {x \in Clients : task[x].phase = "waiting"}
           sent == {task[c].req : c \in waiting}
<1>1. PICK some \in SUBSET sent : Cardinality(late \cup some) <= MaxLate /\ late' = late \cup some
  BY DEF RestartStore
<1>2. IsFiniteSet(waiting)
  BY ClientsAreFiniteAssumption, FS_Subset
<1> HIDE DEF waiting
<1>3. IsFiniteSet(sent)
  <2> DEFINE f == [c \in waiting |-> task[c].req]
  <2>1. f \in [waiting -> sent] /\ \A r \in sent : \E c \in waiting : f[c] = r
    OBVIOUS
  <2> HIDE DEF f, sent
  <2>2. f \in Surjection(waiting, sent)
    BY <2>1 DEF Surjection
  <2> QED BY <1>2, <2>2, FS_Surjection
<1> HIDE DEF sent
<1>4. IsFiniteSet(some)
  BY <1>1, <1>3, FS_Subset
<1>5. IsFiniteSet(late \cup some)
  BY <1>4, FS_Union DEF LateFits
<1> QED BY <1>1, <1>5 DEF LateFits

LEMMA LoseKnows ==
  ASSUME \A d \in Docs : fate[d] \in Fates, NEW ids, Lose(ids)
  PROVE  \A d \in Docs : fate'[d] \in Fates
<1>1. \A d \in Docs : fate'[d] =
        IF fate[d] # "gone" /\ \E id \in ids \cap DOMAIN points : id[1] = d
        THEN "touched" ELSE fate[d]
  BY DEF Lose
<1>2. "touched" \in Fates
  BY DEF Fates
<1> QED BY <1>1, <1>2

LEMMA EffectKnows ==
  ASSUME exists \in BOOLEAN, \A d \in Docs : fate[d] \in Fates, NEW r, Effect(r)
  PROVE  exists' \in BOOLEAN /\ \A d \in Docs : fate'[d] \in Fates
BY LoseKnows DEF Effect

LEMMA StoreKnows ==
  ASSUME TasksAreSound, TInv, NEW c \in Clients, Progress(c) \/ Fail(c) \/ CancelOperation(c)
  PROVE  KnownStays
<1>1. exists \in BOOLEAN /\ (\A d \in Docs : fate[d] \in Fates) /\ LateFits
  BY DEF TInv
<1>2. late' = late => LateFits'
  BY <1>1 DEF LateFits
<1>3. Unheeded(task[c].req) => LateFits'
  BY <1>1, LateAdded DEF Unheeded
<1>4. CASE Refuse(c) \/ Wake(c) \/ SearchAnswered(c)
  BY <1>1, <1>2, <1>4 DEF Refuse, Wake, SearchAnswered, KnownStays
<1>5. CASE Fail(c) \/ CancelOperation(c)
  BY <1>1, <1>2, <1>3, <1>5 DEF Fail, CancelOperation, KnownStays
<1>6. CASE UpsertAnswered(c)
  <2>1. PICK d : fate' = fate \/ fate' = [fate EXCEPT ![d] = IF @ = "none" THEN "stored" ELSE @]
    BY <1>6 DEF UpsertAnswered
  <2>2. "stored" \in Fates
    BY DEF Fates
  <2>3. \A x \in Docs : fate'[x] \in Fates
    BY <1>1, <2>1, <2>2 DEF TasksAreSound
  <2> QED BY <1>1, <1>2, <1>6, <2>3 DEF UpsertAnswered, KnownStays
<1>7. CASE DeleteAnswered(c)
  <2>1. PICK d, b : fate' = [fate EXCEPT ![d] = IF b THEN "gone" ELSE "touched"]
    BY <1>7 DEF DeleteAnswered
  <2>2. {"gone", "touched"} \subseteq Fates
    BY DEF Fates
  <2>3. \A x \in Docs : fate'[x] \in Fates
    BY <1>1, <2>1, <2>2 DEF TasksAreSound
  <2> QED BY <1>1, <1>2, <1>7, <2>3 DEF DeleteAnswered, KnownStays
<1>8. CASE CollectionAnswered(c)
  BY <1>1, <1>2, <1>8, EffectKnows DEF CollectionAnswered, KnownStays
<1> QED BY <1>4, <1>5, <1>6, <1>7, <1>8 DEF Progress

LEMMA NextKnows ==
  ASSUME IInv, TInv, [Next]_vars
  PROVE  KnownStays
<1>1. /\ TasksAreSound
      /\ exists \in BOOLEAN /\ (\A d \in Docs : fate[d] \in Fates) /\ LateFits
  BY DEF IInv, TInv
<1>s. UNCHANGED <<exists, fate, late>> => KnownStays
  BY <1>1 DEF KnownStays, LateFits
<1>2. ASSUME NEW c \in Ingesters,
             \/ StartText(c) \/ StartDocument(c) \/ StartDirectory(c)
             \/ EmbStep(c) \/ StorePoints(c) \/ DocumentEnds(c) \/ NextFile(c) \/ DirectoryEnds(c)
      PROVE  KnownStays
  <2>1. UNCHANGED <<exists, fate, late>>
    BY <1>2 DEF StartText, StartDocument, StartDirectory, EmbStep, StorePoints, DocumentEnds,
       NextFile, DirectoryEnds, StartUpsert, storeVars
  <2> QED BY <1>s, <2>1
<1>3. ASSUME NEW c \in Clients, StoreStep(c) PROVE KnownStays
  BY <1>1, <1>3, StoreKnows DEF StoreStep
<1>4. ASSUME NEW c \in Admins, Administer(c) PROVE KnownStays
  <2>1. UNCHANGED <<exists, fate, late>>
    BY <1>4 DEF Administer, StartDelete, StartCreate, StartDrop
  <2> QED BY <1>s, <2>1
<1>5. CASE LateSteps
  <2>1. PICK r \in late : LateEffect(r) \/ LateLoss(r)
    BY <1>5 DEF LateSteps
  <2>2. late' = late \ {r} /\ (Effect(r) \/ UNCHANGED <<exists, fate>>)
    BY <2>1 DEF LateEffect, LateLoss
  <2>3. LateFits'
    BY <1>1, <2>2, LateTaken
  <2> QED BY <1>1, <2>2, <2>3, EffectKnows DEF KnownStays
<1>6. CASE Fault
  <2>1. ASSUME NEW c \in Clients, Fail(c) \/ CancelOperation(c) PROVE KnownStays
    BY <1>1, <2>1, StoreKnows
  <2>2. CASE UNCHANGED storeVars
    BY <1>s, <2>2 DEF storeVars
  <2>3. CASE Restart
    BY <1>1, <2>3, RestartFits DEF Restart, RestartStore, KnownStays
  <2> QED BY <1>6, <2>1, <2>2, <2>3, ClientsAssumption DEF Fault, CancelJob
<1>7. CASE UNCHANGED vars
  BY <1>7, <1>s DEF vars, storeVars
<1> QED BY <1>2, <1>3, <1>4, <1>5, <1>6, <1>7, ClientsAssumption DEF Next, JobStep

LEMMA NextKeepsTInv ==
  ASSUME IInv, TInv, [Next]_vars
  PROVE  TInv'
<1>1. KnownStays
  BY NextKnows
<1>2. ASSUME NEW c \in Clients PROVE task'[c].phase \in Phases /\ Tried(task'[c])
  <2>1. StepOf(task[c], task'[c]) /\ Tried(task[c]) /\ IsTask(task[c]) /\ task[c].phase \in Phases
    BY NextSteps DEF IInv, TasksAreSound, TInv
  <2> QED BY <2>1, StepsComeNearer
<1>3. short' \in BOOLEAN
  <2>1. short' = short \/ short' = TRUE
    <3>1. ASSUME NEW c \in Ingesters, EmbedSteps(c) \/ EmbedFaults(c)
          PROVE  short' = short \/ short' = TRUE
      BY <3>1 DEF EmbedSteps, EmbedFaults, Lookup, LookupWithoutRedis, ProviderAnswers,
         ProviderAnswersShort, ProviderFails, CacheNext, CacheNextWithoutRedis, CachingEnds
    <3>2. CASE CacheSteps
      BY <3>2 DEF CacheSteps, Invalidate, ClearCache, RedisLoses
    <3>3. ASSUME NEW c \in Ingesters, JobStep(c)
          PROVE  short' = short \/ short' = TRUE
      BY <3>1, <3>3 DEF JobStep, EmbStep, StoreStep, StorePoints, DocumentEnds, NextFile,
         DirectoryEnds, Embed, embVars
    <3>4. ASSUME NEW c \in Ingesters, StartText(c) \/ StartDocument(c) \/ StartDirectory(c)
          PROVE  short' = short \/ short' = TRUE
      BY <3>4 DEF StartText, StartDocument, StartDirectory, Embed, embVars
    <3>5. ASSUME NEW c \in Admins, Administer(c) \/ StoreStep(c)
          PROVE  short' = short \/ short' = TRUE
      BY <3>5 DEF Administer, StoreStep, embVars
    <3>6. CASE Fault
      BY <3>1, <3>2, <3>6 DEF Fault, CancelJob, Restart, RestartEmbeddings, embVars
    <3> QED BY <3>3, <3>4, <3>5, <3>6 DEF Next, vars, embVars
  <2> QED BY <2>1 DEF TInv
<1> QED BY <1>1, <1>2, <1>3 DEF TInv, KnownStays

LEMMA InitHasTInv == ASSUME Init PROVE TInv
<1>1. /\ exists = TRUE /\ short = FALSE /\ late = {}
      /\ \A d \in Docs : fate[d] = "none"
      /\ \A c \in Clients : task[c] = Idle
  BY DEF Init, StoreInit, EmbInit
<1>2. LateFits
  BY <1>1, FS_EmptySet, MaxLateAssumption DEF LateFits
<1>3. Idle.phase \in Phases /\ ~BusyTask(Idle) /\ "none" \in Fates
  BY DEF Idle, Phases, BusyTask, Fates
<1> QED BY <1>1, <1>2, <1>3 DEF TInv, Tried

\* The strengthening of DocumentsAreWhole.
FInv == WInv /\ JInv /\ TInv

LEMMA CountIsRight ==
  ASSUME FInv
  PROVE  DirectoryIsCounted
<1>1. ASSUME NEW c \in Ingesters, NEW j, j = job[c], j.kind = "policies", j.doc = NoDoc
      PROVE  /\ Cardinality({d \in j.docs : fate[d] = "stored"}) <= j.count
             /\ j.count <= Cardinality({d \in j.docs : fate[d] # "none"})
  <2>1. j # NoJob
    BY <1>1 DEF NoJob
  <2>2. Counted(j)
    BY <1>1, <2>1 DEF FInv, JInv, JobHolds, Active
  <2>3. PICK some \in SUBSET (j.docs \ {j.doc}) :
       /\ IsFiniteSet(j.docs) /\ j.count \in Nat
       /\ Cardinality(some) = j.count
       /\ \A d \in some : fate[d] # "none"
       /\ \A d \in j.docs \ {j.doc} : fate[d] = "stored" => d \in some
    BY <2>2 DEF Counted
  <2>4. NoDoc \notin j.docs
    <3>1. OwnDocs(j) \subseteq DOMAIN sources
      BY <1>1, <2>1 DEF FInv, JInv, JobHolds, Active
    <3> QED BY <1>1, <3>1, DocsAssumption DEF OwnDocs, FInv, WInv, IInv, JobsAreSound
  <2>5. some \in SUBSET j.docs /\ \A d \in j.docs : fate[d] = "stored" => d \in some
    BY <1>1, <2>3, <2>4
  <2>6. PICK known : known = {d \in j.docs : fate[d] # "none"}
    OBVIOUS
  <2>7. known \in SUBSET j.docs /\ some \in SUBSET known
    BY <2>3, <2>5, <2>6
  <2>8. PICK stored : stored = {d \in j.docs : fate[d] = "stored"}
    OBVIOUS
  <2>9. stored \in SUBSET some
    BY <2>5, <2>8
  <2>10. IsFiniteSet(some) /\ IsFiniteSet(known)
    BY <2>3, <2>5, <2>7, FS_Subset
  <2>11. Cardinality(some) <= Cardinality(known) /\ Cardinality(stored) <= Cardinality(some)
    BY <2>7, <2>9, <2>10, FS_Subset
  <2> QED BY <2>3, <2>6, <2>8, <2>11
<1> QED BY <1>1 DEF DirectoryIsCounted

LEMMA TypesAreRight ==
  ASSUME FInv
  PROVE  TypeOK
<1>1. fate \in [Docs -> Fates]
  BY DEF FInv, WInv, IInv, TasksAreSound, TInv
<1>2. DOMAIN sources \subseteq Docs
  BY DEF FInv, WInv, IInv, JobsAreSound
<1>3. DOMAIN points \subseteq Docs \X Nat
  <2>1. ASSUME NEW id \in DOMAIN points PROVE id \in Docs \X Nat
    <3>1. GoodPoint(id, points[id])
      BY DEF FInv, WInv, SInv, PointsHold, Good
    <3>2. \E d \in DOMAIN sources : \E i \in Nat : id = <<d, i>>
      BY <3>1 DEF GoodPoint
    <3> QED BY <1>2, <3>2
  <2> QED BY <2>1
<1>4. \A c \in Clients : task[c].phase \in {"waiting", "pause"} => task[c].attempt \in 1..MaxAttempts
  BY DEF FInv, TInv, Tried, BusyTask
<1> QED BY <1>1, <1>2, <1>3, <1>4 DEF TypeOK, FInv, TInv, LateFits

\* Documents are whole (ingest/__init__.py, vectorstore.py, chunking): of each the
\* collection has a beginning, all of its text once its ingestion has returned and
\* no deletion took points of it, and a directory counts the files it has stored,
\* whatever fails, is sent again, is cancelled or arrives late.
THEOREM DocumentsStayWhole == Spec => []DocumentsAreWhole
<1>1. Init => FInv
  BY InitHasWInv, InitHasJInv, InitHasTInv DEF FInv
<1>2. FInv /\ [Next]_vars => FInv'
  <2> SUFFICES ASSUME FInv, [Next]_vars PROVE FInv'
    OBVIOUS
  <2>1. WInv'
    BY NextKeepsWInv DEF FInv
  <2>2. SourcesStay
    BY NextKeepsEInv DEF FInv, WInv
  <2>3. JInv'
    BY <2>2, NextKeepsJInv DEF FInv, WInv
  <2>4. TInv'
    BY NextKeepsTInv DEF FInv, WInv
  <2> QED BY <2>1, <2>3, <2>4 DEF FInv
<1>3. FInv => DocumentsAreWhole
  BY StoredIsWhole, CountIsRight, TypesAreRight DEF FInv, DocumentsAreWhole
<1> QED BY <1>1, <1>2, <1>3, PTL DEF Spec
=============================================================================

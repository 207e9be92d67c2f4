----------------------------- MODULE CacheProofs -----------------------------
(* Proofs about the cache package: LRU, MultiTierCache, LRUCache and         *)
(* SingleFlight, for every set of keys, values, tasks and callers, every size *)
(* of the first tier and every bound.                                         *)
EXTENDS MultiTierCache, LRUCache, SingleFlight, FiniteSetTheorems, SequenceTheorems, TLAPS

-----------------------------------------------------------------------------
(* The dictionary without some of its keys.                                 *)

\* Induction over the natural numbers; Holding is a set of numbers.
LEMMA Numbers ==
  ASSUME NEW Holding, 0 \in Holding, \A n \in Nat : n \in Holding => n + 1 \in Holding
  PROVE  Nat \subseteq Holding
<1> DEFINE Bad == {n \in Nat : n \notin Holding}
<1>1. SUFFICES ASSUME Bad # {} PROVE FALSE
  OBVIOUS
<1>2. PICK n \in Bad : \A m \in Bad : <<m, n>> \notin OpToRel(<, Nat)
  <2>1. Bad \subseteq Nat
    OBVIOUS
  <2> HIDE DEF Bad
  <2> QED BY <1>1, <2>1, NatLessThanWellFounded, WFMin
<1>3. n \in Nat \ {0}
  OBVIOUS
<1>4. n - 1 \in Nat /\ (n - 1) + 1 = n /\ <<n - 1, n>> \in OpToRel(<, Nat)
  BY <1>3 DEF OpToRel
<1> QED BY <1>2, <1>4

\* What is kept of the first n entries.
Keeping(f, c, ks, n) ==
  f = [i \in 0..n |-> IF i = 0 THEN <<>>
                      ELSE IF c[i].key \in ks THEN f[i - 1] ELSE Append(f[i - 1], c[i])]

LEMMA KeepingExists ==
  ASSUME NEW c, NEW ks
  PROVE  \A n \in Nat : \E f : Keeping(f, c, ks, n)
<1> DEFINE Good == {n \in Nat : \E f : Keeping(f, c, ks, n)}
           Kept(f, i) == IF c[i].key \in ks THEN f[i - 1] ELSE Append(f[i - 1], c[i])
<1>1. 0 \in Good
  <2> DEFINE f == [i \in 0..0 |-> <<>>]
  <2>1. f = [i \in 0..0 |-> IF i = 0 THEN <<>> ELSE Kept(f, i)]
    OBVIOUS
  <2> HIDE DEF f
  <2>2. Keeping(f, c, ks, 0)
    BY <2>1 DEF Keeping
  <2> QED BY <2>2
<1>2. ASSUME NEW n \in Nat, n \in Good PROVE n + 1 \in Good
  <2>1. PICK f : Keeping(f, c, ks, n)
    BY <1>2
  <2>2. \A i \in 0..n : f[i] = IF i = 0 THEN <<>> ELSE Kept(f, i)
    BY <2>1 DEF Keeping
  <2> DEFINE last == IF c[n + 1].key \in ks THEN f[n] ELSE Append(f[n], c[n + 1])
             h == [i \in 0..(n + 1) |-> IF i = n + 1 THEN last ELSE f[i]]
  <2>3. h[n + 1] = last /\ \A i \in 0..n : h[i] = f[i]
    OBVIOUS
  <2>4. h = [i \in 0..(n + 1) |-> h[i]]
    OBVIOUS
  <2> HIDE DEF h
  <2>5. ASSUME NEW i \in 0..(n + 1)
        PROVE  h[i] = IF i = 0 THEN <<>> ELSE Kept(h, i)
    <3>1. CASE i = n + 1
      <4>1. i # 0 /\ i - 1 = n /\ n \in 0..n
        BY <3>1
      <4> QED BY <2>3, <3>1, <4>1
    <3>2. CASE i # n + 1
      <4>1. i \in 0..n /\ (i # 0 => i - 1 \in 0..n)
        BY <3>2
      <4> QED BY <2>2, <2>3, <4>1
    <3> QED BY <3>1, <3>2
  <2>6. Keeping(h, c, ks, n + 1)
    BY <2>4, <2>5 DEF Keeping
  <2> QED BY <2>6
<1>3. Nat \subseteq Good
  <2> HIDE DEF Good
  <2> QED BY <1>1, <1>2, Numbers
<1> QED BY <1>3

\* The entries of f are those of the first n of c that have none of the keys,
\* in their order; there are less of them when one has.
Taken(f, c, ks, n, l, pos) ==
  /\ \A i, j \in 1..l : i < j => pos[i] < pos[j]
  /\ \A i \in 1..l : f[i] = c[pos[i]] /\ c[pos[i]].key \notin ks
  /\ \A j \in 1..n : c[j].key \notin ks => \E i \in 1..l : pos[i] = j

Left(f, c, ks, n) ==
  \E l \in 0..n : \E pos \in [1..l -> 1..n] :
    /\ Len(f) = l /\ ((\E j \in 1..n : c[j].key \in ks) => l < n)
    /\ Taken(f, c, ks, n, l, pos)

LEMMA OneMoreLeft ==
  ASSUME NEW S, NEW f \in Seq(S), NEW c, NEW ks, NEW n \in Nat, Left(f, c, ks, n),
         c[n + 1] \in S
  PROVE  LET g == IF c[n + 1].key \in ks THEN f ELSE Append(f, c[n + 1])
         IN  g \in Seq(S) /\ Left(g, c, ks, n + 1)
<1>0. PICK l \in 0..n : \E pos \in [1..l -> 1..n] :
         /\ Len(f) = l /\ ((\E j \in 1..n : c[j].key \in ks) => l < n)
         /\ Taken(f, c, ks, n, l, pos)
  BY DEF Left
<1>1. PICK pos \in [1..l -> 1..n] :
         /\ Len(f) = l /\ ((\E j \in 1..n : c[j].key \in ks) => l < n)
         /\ Taken(f, c, ks, n, l, pos)
  BY <1>0
<1>2. /\ \A i, j \in 1..l : i < j => pos[i] < pos[j]
      /\ \A i \in 1..l : f[i] = c[pos[i]] /\ c[pos[i]].key \notin ks
      /\ \A j \in 1..n : c[j].key \notin ks => \E i \in 1..l : pos[i] = j
  BY <1>1 DEF Taken
<1>3. l <= n /\ ((\E j \in 1..n : c[j].key \in ks) => l < n)
  BY <1>1
<1>4. CASE c[n + 1].key \in ks
  <2>1. pos \in [1..l -> 1..(n + 1)]
    OBVIOUS
  <2>2. ASSUME NEW j \in 1..(n + 1), c[j].key \notin ks PROVE \E i \in 1..l : pos[i] = j
    <3>1. j \in 1..n
      BY <1>4, <2>2
    <3> QED BY <1>2, <2>2, <3>1
  <2>3. l < n + 1
    BY <1>3
  <2>4. Taken(f, c, ks, n + 1, l, pos)
    BY <1>2, <2>2 DEF Taken
  <2>5. l \in 0..(n + 1)
    OBVIOUS
  <2>6. Left(f, c, ks, n + 1)
    BY <1>1, <2>1, <2>3, <2>4, <2>5 DEF Left
  <2> QED BY <1>4, <2>6
<1>5. CASE c[n + 1].key \notin ks
  <2>1. PICK g \in Seq(S) : /\ g = Append(f, c[n + 1]) /\ Len(g) = l + 1
                            /\ (\A i \in 1..l : g[i] = f[i]) /\ g[l + 1] = c[n + 1]
    BY <1>1, AppendProperties
  <2> DEFINE at == [i \in 1..(l + 1) |-> IF i = l + 1 THEN n + 1 ELSE pos[i]]
  <2>2. at[l + 1] = n + 1 /\ \A i \in 1..l : at[i] = pos[i] /\ pos[i] \in 1..n
    OBVIOUS
  <2>3. at \in [1..(l + 1) -> 1..(n + 1)]
    OBVIOUS
  <2> HIDE DEF at
  <2>4. ASSUME NEW i \in 1..(l + 1), NEW j \in 1..(l + 1), i < j PROVE at[i] < at[j]
    <3>1. i \in 1..l
      BY <2>4
    <3>2. CASE j = l + 1
      BY <2>2, <3>1, <3>2
    <3>3. CASE j # l + 1
      <4>1. j \in 1..l
        BY <3>3
      <4> QED BY <1>2, <2>2, <2>4, <3>1, <4>1
    <3> QED BY <3>2, <3>3
  <2>5. ASSUME NEW i \in 1..(l + 1) PROVE g[i] = c[at[i]] /\ c[at[i]].key \notin ks
    <3>1. CASE i = l + 1
      BY <1>5, <2>1, <2>2, <3>1
    <3>2. CASE i # l + 1
      <4>1. i \in 1..l
        BY <3>2
      <4> QED BY <1>2, <2>1, <2>2, <4>1
    <3> QED BY <3>1, <3>2
  <2>6. ASSUME NEW j \in 1..(n + 1), c[j].key \notin ks PROVE \E i \in 1..(l + 1) : at[i] = j
    <3>1. CASE j = n + 1
      <4>1. l + 1 \in 1..(l + 1)
        OBVIOUS
      <4> QED BY <2>2, <3>1, <4>1
    <3>2. CASE j # n + 1
      <4>1. j \in 1..n
        BY <3>2
      <4>2. PICK i \in 1..l : pos[i] = j
        BY <1>2, <2>6, <4>1
      <4>3. i \in 1..(l + 1) /\ at[i] = j
        BY <2>2, <4>2
      <4> QED BY <4>3
    <3> QED BY <3>1, <3>2
  <2>7. l + 1 <= n + 1 /\ ((\E j \in 1..(n + 1) : c[j].key \in ks) => l + 1 < n + 1)
    <3>1. ASSUME NEW j \in 1..(n + 1), c[j].key \in ks PROVE l < n
      <4>0. j # n + 1
        BY <1>5, <3>1
      <4>1. j \in 1..n
        BY <4>0
      <4> QED BY <1>3, <3>1, <4>1
    <3>2. l + 1 <= n + 1
      BY <1>3
    <3>3. l < n => l + 1 < n + 1
      OBVIOUS
    <3> QED BY <3>1, <3>2, <3>3
  <2>9. Taken(g, c, ks, n + 1, l + 1, at)
    BY <2>4, <2>5, <2>6 DEF Taken
  <2>10. l + 1 \in 0..(n + 1)
    BY <1>3
  <2>8. Left(g, c, ks, n + 1)
    BY <2>1, <2>3, <2>7, <2>9, <2>10 DEF Left
  <2> QED BY <1>5, <2>1, <2>8
<1> QED BY <1>4, <1>5

\* Removing keys from a dictionary (del in cache.py).
LEMMA WithoutIs ==
  ASSUME NEW S, NEW c \in Seq(S), NEW ks
  PROVE  LruWithout(c, ks) \in Seq(S) /\ Left(LruWithout(c, ks), c, ks, Len(c))
<1>1. PICK n \in Nat : n = Len(c) /\ DOMAIN c = 1..n
  BY LenProperties
<1> DEFINE kept == CHOOSE f : Keeping(f, c, ks, n)
<1>2. LruWithout(c, ks) = kept[n]
  BY <1>1 DEF LruWithout, Keeping
<1>3. Keeping(kept, c, ks, n)
  <2>1. \E f : Keeping(f, c, ks, n)
    BY KeepingExists
  <2> QED BY <2>1
<1> HIDE DEF kept
<1>4. /\ kept[0] = <<>>
      /\ \A i \in 1..n : kept[i] = IF c[i].key \in ks THEN kept[i - 1]
                                   ELSE Append(kept[i - 1], c[i])
  <2>2. \A i \in 0..n : kept[i] = IF i = 0 THEN <<>> ELSE
                 IF c[i].key \in ks THEN kept[i - 1] ELSE Append(kept[i - 1], c[i])
    BY <1>3 DEF Keeping
  <2>3. 0 \in 0..n /\ \A i \in 1..n : i \in 0..n /\ i # 0
    OBVIOUS
  <2> QED BY <2>2, <2>3
<1> DEFINE Good == {i \in Nat : i \in 0..n => kept[i] \in Seq(S) /\ Left(kept[i], c, ks, i)}
<1>5. 0 \in Good
  <2>1. <<>> \in Seq(S) /\ Len(<<>>) = 0
    BY EmptySeq
  <2>2. Left(<<>>, c, ks, 0)
    <3> DEFINE none == [i \in 1..0 |-> i]
    <3>1. none \in [1..0 -> 1..0]
      OBVIOUS
    <3> HIDE DEF none
    <3>2. Taken(<<>>, c, ks, 0, 0, none)
      BY DEF Taken
    <3>3. 0 \in 0..0 /\ ~ \E j \in 1..0 : c[j].key \in ks
      OBVIOUS
    <3> QED BY <2>1, <3>1, <3>2, <3>3 DEF Left
  <2> QED BY <1>4, <2>1, <2>2
<1>6. ASSUME NEW i \in Nat, i \in Good PROVE i + 1 \in Good
  <2>1. SUFFICES ASSUME i + 1 \in 0..n
                 PROVE  kept[i + 1] \in Seq(S) /\ Left(kept[i + 1], c, ks, i + 1)
    OBVIOUS
  <2>2. i \in 0..n /\ i + 1 \in 1..n /\ (i + 1) - 1 = i
    BY <2>1
  <2>3. PICK f \in Seq(S) : f = kept[i] /\ Left(f, c, ks, i)
    BY <1>6, <2>2
  <2>4. c[i + 1] \in S
    BY <1>1, <2>2, ElementOfSeq
  <2>5. kept[i + 1] = IF c[i + 1].key \in ks THEN f ELSE Append(f, c[i + 1])
    BY <1>4, <2>2, <2>3
  <2> QED BY <2>3, <2>4, <2>5, OneMoreLeft
<1>7. n \in Good
  <2> HIDE DEF Good
  <2> QED BY <1>5, <1>6, Numbers
<1>8. n \in 0..n
  OBVIOUS
<1> QED BY <1>1, <1>2, <1>7, <1>8
-----------------------------------------------------------------------------
(* The dictionary, whatever its entries are.                                *)

Dict(c, E) ==
  /\ c \in Seq(E) /\ Len(c) <= L1Size
  /\ \A i, j \in DOMAIN c : c[i].key = c[j].key => i = j

\* Some entries of a dictionary, in their order.
Picks(f, c, E) ==
  /\ f \in Seq(E) /\ Len(f) <= Len(c)
  /\ \E pos \in [DOMAIN f -> DOMAIN c] :
       /\ \A i, j \in DOMAIN f : i < j => pos[i] < pos[j]
       /\ \A i \in DOMAIN f : f[i] = c[pos[i]]

LEMMA Listed ==
  ASSUME NEW E, NEW c, Dict(c, E)
  PROVE  \E n \in 0..L1Size : Len(c) = n /\ DOMAIN c = 1..n /\ \A i \in 1..n : c[i] \in E
<1>1. c \in Seq(E) /\ Len(c) <= L1Size
  BY DEF Dict
<1>2. Len(c) \in Nat /\ DOMAIN c = 1..Len(c) /\ \A i \in 1..Len(c) : c[i] \in E
  BY <1>1, LenProperties, ElementOfSeq
<1>3. Len(c) \in 0..L1Size
  BY <1>1, <1>2, L1SizeAssumption
<1> QED BY <1>2, <1>3

LEMMA PicksIsDict ==
  ASSUME NEW E, NEW c, Dict(c, E), NEW f, Picks(f, c, E)
  PROVE  /\ Dict(f, E)
         /\ \A i \in DOMAIN f : \E j \in DOMAIN c : f[i] = c[j]
<1>1. PICK n \in 0..L1Size : Len(c) = n /\ DOMAIN c = 1..n
  BY Listed
<1>2. f \in Seq(E) /\ Len(f) <= n
  BY <1>1 DEF Picks
<1>3. PICK l \in Nat : Len(f) = l /\ DOMAIN f = 1..l
  BY <1>2, LenProperties
<1>4. PICK pos \in [1..l -> 1..n] :
       /\ \A i, j \in 1..l : i < j => pos[i] < pos[j]
       /\ \A i \in 1..l : f[i] = c[pos[i]]
  BY <1>1, <1>3 DEF Picks
<1>5. ASSUME NEW i \in 1..l, NEW j \in 1..l, f[i].key = f[j].key PROVE i = j
  <2>1. pos[i] \in 1..n /\ pos[j] \in 1..n
    OBVIOUS
  <2>2. pos[i] = pos[j]
    BY <1>1, <1>4, <1>5, <2>1 DEF Dict
  <2>3. ~(i < j) /\ ~(j < i)
    BY <1>4, <2>1, <2>2
  <2> QED BY <2>3
<1>6. l <= L1Size
  BY <1>2, <1>3, L1SizeAssumption
<1>7. Dict(f, E)
  BY <1>2, <1>3, <1>5, <1>6 DEF Dict
<1>8. \A i \in 1..l : pos[i] \in 1..n
  OBVIOUS
<1> QED BY <1>1, <1>3, <1>4, <1>7, <1>8

LEMMA WithoutPicks ==
  ASSUME NEW E, NEW c, Dict(c, E), NEW ks
  PROVE  LET f == LruWithout(c, ks)
         IN  /\ Picks(f, c, E)
             /\ LruKeys(f) = LruKeys(c) \ ks
             /\ LruKeys(c) \cap ks # {} => Len(f) < Len(c)
<1>0. PICK f : f = LruWithout(c, ks)
  OBVIOUS
<1>1. PICK n \in 0..L1Size : Len(c) = n /\ DOMAIN c = 1..n /\ \A i \in 1..n : c[i] \in E
  BY Listed
<1>2. f \in Seq(E) /\ Left(f, c, ks, n)
  BY <1>0, <1>1, WithoutIs DEF Dict
<1>3. PICK l \in 0..n : \E pos \in [1..l -> 1..n] :
        /\ Len(f) = l /\ ((\E j \in 1..n : c[j].key \in ks) => l < n)
        /\ Taken(f, c, ks, n, l, pos)
  BY <1>2 DEF Left
<1>4. PICK pos \in [1..l -> 1..n] :
        /\ Len(f) = l /\ ((\E j \in 1..n : c[j].key \in ks) => l < n)
        /\ Taken(f, c, ks, n, l, pos)
  BY <1>3
<1>5. /\ \A i, j \in 1..l : i < j => pos[i] < pos[j]
      /\ \A i \in 1..l : f[i] = c[pos[i]] /\ c[pos[i]].key \notin ks
      /\ \A j \in 1..n : c[j].key \notin ks => \E i \in 1..l : pos[i] = j
  BY <1>4 DEF Taken
<1>6. DOMAIN f = 1..l
  <2>1. DOMAIN f = 1..Len(f)
    BY <1>2, LenProperties
  <2> QED BY <1>4, <2>1
<1>7. Picks(f, c, E)
  <2>1. pos \in [DOMAIN f -> DOMAIN c]
    BY <1>1, <1>6
  <2>2. Len(f) <= Len(c)
    BY <1>1, <1>4
  <2>3. /\ \A i, j \in DOMAIN f : i < j => pos[i] < pos[j]
        /\ \A i \in DOMAIN f : f[i] = c[pos[i]]
    BY <1>5, <1>6
  <2> QED BY <1>2, <2>1, <2>2, <2>3 DEF Picks
<1>8. LruKeys(f) = {f[i].key : i \in 1..l} /\ LruKeys(c) = {c[i].key : i \in 1..n}
  BY <1>1, <1>6 DEF LruKeys
<1>9. ASSUME NEW i \in 1..l PROVE f[i].key \in LruKeys(c) \ ks
  <2>1. pos[i] \in 1..n
    OBVIOUS
  <2> QED BY <1>5, <1>8, <2>1
<1>10. ASSUME NEW j \in 1..n, c[j].key \notin ks PROVE c[j].key \in LruKeys(f)
  <2>1. PICK i \in 1..l : pos[i] = j
    BY <1>5, <1>10
  <2>2. f[i] = c[j]
    BY <1>5, <2>1
  <2> QED BY <1>8, <2>2
<1>11. LruKeys(f) = LruKeys(c) \ ks
  BY <1>8, <1>9, <1>10
<1>12. LruKeys(c) \cap ks # {} => l < n
  BY <1>4, <1>8
<1> QED BY <1>0, <1>1, <1>4, <1>7, <1>11, <1>12

\* popitem() at the front: of a full dictionary all entries but the first stay.
LEMMA RoomPicks ==
  ASSUME NEW E, NEW c, Dict(c, E)
  PROVE  LET f == LruMakeRoom(c)
         IN  /\ Picks(f, c, E) /\ Len(f) < L1Size
             /\ Len(c) < L1Size => f = c
             /\ Len(c) >= L1Size =>
                  /\ Len(c) = L1Size /\ Len(f) = L1Size - 1 /\ DOMAIN f = 1..(L1Size - 1)
                  /\ \A i \in 1..(L1Size - 1) : f[i] = c[i + 1]
<1>0. PICK f : f = LruMakeRoom(c)
  OBVIOUS
<1>1. PICK n \in 0..L1Size : Len(c) = n /\ DOMAIN c = 1..n /\ \A i \in 1..n : c[i] \in E
  BY Listed
<1>s. L1Size \in Nat /\ L1Size >= 1 /\ n \in Nat
  BY <1>1, L1SizeAssumption
<1>2. CASE n < L1Size
  <2>1. f = c
    BY <1>0, <1>1, <1>2, <1>s DEF LruMakeRoom
  <2> DEFINE same == [i \in 1..n |-> i]
  <2>2. same \in [1..n -> 1..n] /\ \A i \in 1..n : same[i] = i
    OBVIOUS
  <2> HIDE DEF same
  <2>3. c \in Seq(E)
    BY DEF Dict
  <2>4. Picks(f, c, E)
    BY <1>1, <2>1, <2>2, <2>3 DEF Picks
  <2> QED BY <1>0, <1>1, <1>2, <1>s, <2>1, <2>4
<1>3. CASE n >= L1Size
  <2>1. n = L1Size
    BY <1>1, <1>3, <1>s
  <2>2. n - L1Size + 2 = 2
    BY <1>s, <2>1
  <2>3. f = SubSeq(c, 2, n)
    BY <1>0, <1>1, <1>3, <2>2 DEF LruMakeRoom
  <2>4. \A i \in 2..n : c[i] \in E
    BY <1>1, <1>s
  <2>5. f \in Seq(E) /\ Len(f) = (IF 2 <= n THEN n - 2 + 1 ELSE 0)
        /\ \A i \in 1 .. n - 2 + 1 : f[i] = c[2 + i - 1]
    <3>1. 2 \in Int /\ n \in Int
      BY <1>s
    <3>2. /\ SubSeq(c, 2, n) \in Seq(E) /\ Len(SubSeq(c, 2, n)) = (IF 2 <= n THEN n - 2 + 1 ELSE 0)
          /\ \A i \in 1 .. n - 2 + 1 : SubSeq(c, 2, n)[i] = c[2 + i - 1]
      BY <2>4, <3>1, SubSeqProperties
    <3> QED BY <2>3, <3>2, Zenon
  <2>6. PICK l \in Nat : l = n - 1 /\ l = L1Size - 1 /\ n - 2 + 1 = l /\ l < L1Size /\ l <= n
    <3>1. /\ n - 1 \in Nat /\ n - 1 = L1Size - 1 /\ n - 2 + 1 = n - 1
          /\ n - 1 < L1Size /\ n - 1 <= n
      BY <1>s, <2>1
    <3> QED BY <3>1
  <2>7. Len(f) = l
    BY <1>s, <2>1, <2>5, <2>6
  <2>8. DOMAIN f = 1..l
    BY <2>5, <2>7, LenProperties
  <2>9. \A i \in 1..l : f[i] = c[i + 1]
    <3>1. \A i \in 1..l : 2 + i - 1 = i + 1
      OBVIOUS
    <3> QED BY <2>5, <2>6, <3>1
  <2> DEFINE next == [i \in 1..l |-> i + 1]
  <2>10. next \in [1..l -> 1..n] /\ \A i \in 1..l : next[i] = i + 1
    BY <2>6
  <2> HIDE DEF next
  <2>11. \A i, j \in 1..l : i < j => next[i] < next[j]
    BY <2>10
  <2>12. Picks(f, c, E)
    <3>1. f \in Seq(E) /\ Len(f) <= Len(c)
      BY <1>1, <2>5, <2>6, <2>7
    <3>2. next \in [DOMAIN f -> DOMAIN c]
      BY <1>1, <2>8, <2>10
    <3>3. /\ \A i, j \in DOMAIN f : i < j => next[i] < next[j]
          /\ \A i \in DOMAIN f : f[i] = c[next[i]]
      BY <2>8, <2>9, <2>10, <2>11
    <3> QED BY <3>1, <3>2, <3>3 DEF Picks
  <2> QED BY <1>0, <1>1, <1>s, <2>1, <2>6, <2>7, <2>8, <2>9, <2>12
<1> QED BY <1>2, <1>3, <1>s

LEMMA AppendedIsDict ==
  ASSUME NEW E, NEW f, Dict(f, E), Len(f) < L1Size, NEW e \in E, e.key \notin LruKeys(f)
  PROVE  /\ Dict(Append(f, e), E)
         /\ LruKeys(Append(f, e)) = LruKeys(f) \cup {e.key}
         /\ Len(Append(f, e)) = Len(f) + 1
<1>1. PICK l \in 0..L1Size : Len(f) = l /\ DOMAIN f = 1..l
  BY Listed
<1>2. f \in Seq(E)
  BY DEF Dict
<1>3. PICK g \in Seq(E) : /\ g = Append(f, e) /\ Len(g) = l + 1
                         /\ (\A i \in 1..l : g[i] = f[i]) /\ g[l + 1] = e
  <2>1. f \in Seq(E) /\ Len(f) = l
    BY <1>1, <1>2
  <2> QED BY <2>1, AppendProperties
<1>4. DOMAIN g = 1..(l + 1)
  BY <1>3, LenProperties
<1>5. l + 1 <= L1Size
  BY <1>1, L1SizeAssumption
<1>6. \A i \in 1..l : f[i].key # e.key
  BY <1>1 DEF LruKeys
<1>7. ASSUME NEW i \in 1..(l + 1), NEW j \in 1..(l + 1), g[i].key = g[j].key PROVE i = j
  <2>1. CASE i \in 1..l /\ j \in 1..l
    BY <1>1, <1>3, <1>7, <2>1 DEF Dict
  <2>2. CASE i = l + 1 /\ j = l + 1
    BY <2>2
  <2>3. CASE i = l + 1 /\ j \in 1..l
    BY <1>3, <1>6, <1>7, <2>3
  <2>4. CASE i \in 1..l /\ j = l + 1
    BY <1>3, <1>6, <1>7, <2>4
  <2> QED BY <2>1, <2>2, <2>3, <2>4
<1>8. Dict(g, E)
  BY <1>3, <1>4, <1>5, <1>7 DEF Dict
<1>9. LruKeys(g) = LruKeys(f) \cup {e.key}
  <2>1. LruKeys(f) = {f[i].key : i \in 1..l} /\ LruKeys(g) = {g[i].key : i \in 1..(l + 1)}
    BY <1>1, <1>4 DEF LruKeys
  <2>2. ASSUME NEW i \in 1..(l + 1) PROVE g[i].key \in LruKeys(f) \cup {e.key}
    <3>1. CASE i = l + 1
      BY <1>3, <3>1
    <3>2. CASE i # l + 1
      <4>1. i \in 1..l
        BY <3>2
      <4> QED BY <1>3, <2>1, <4>1
    <3> QED BY <3>1, <3>2
  <2>3. ASSUME NEW i \in 1..l PROVE f[i].key \in LruKeys(g)
    <3>1. i \in 1..(l + 1) /\ g[i] = f[i]
      BY <1>3
    <3> QED BY <2>1, <3>1
  <2>4. e.key \in LruKeys(g)
    <3>1. l + 1 \in 1..(l + 1)
      OBVIOUS
    <3> QED BY <1>3, <2>1, <3>1
  <2> QED BY <2>1, <2>2, <2>3, <2>4
<1> QED BY <1>1, <1>3, <1>8, <1>9

\* The entries of f are entries of c without the keys ks.
Among(f, c, ks) ==
  \A i \in DOMAIN f : \E j \in DOMAIN c : f[i] = c[j] /\ c[j].key \notin ks

LEMMA WithoutIsDict ==
  ASSUME NEW E, NEW c, Dict(c, E), NEW ks
  PROVE  /\ Dict(LruWithout(c, ks), E) /\ Among(LruWithout(c, ks), c, ks)
         /\ LruKeys(LruWithout(c, ks)) = LruKeys(c) \ ks
<1>1. PICK f : f = LruWithout(c, ks)
  OBVIOUS
<1>2. Picks(f, c, E) /\ LruKeys(f) = LruKeys(c) \ ks
  BY <1>1, WithoutPicks
<1>3. Dict(f, E) /\ \A i \in DOMAIN f : \E j \in DOMAIN c : f[i] = c[j]
  BY <1>2, PicksIsDict
<1>4. \A i \in DOMAIN f : f[i].key \notin ks
  BY <1>2 DEF LruKeys
<1>5. Among(f, c, ks)
  BY <1>3, <1>4 DEF Among
<1> QED BY <1>1, <1>2, <1>3, <1>5

LEMMA EntryIs ==
  ASSUME NEW c, NEW k \in LruKeys(c)
  PROVE  \E i \in DOMAIN c : LruEntry(c, k) = c[i] /\ c[i].key = k
<1>1. \E i \in DOMAIN c : c[i].key = k
  BY DEF LruKeys
<1> QED BY <1>1 DEF LruEntry

\* g has e, an entry of k, after others: some entries of c, in their order.
Uses(g, c, k, e, E) ==
  \E f : Picks(f, c, E) /\ k \notin LruKeys(f) /\ Len(f) < L1Size /\ g = Append(f, e)

LEMMA GetUses ==
  ASSUME NEW E, NEW c, Dict(c, E), NEW k, LruVisible(c, k)
  PROVE  Uses(LruAfterGet(c, k), c, k, LruEntry(c, k), E)
<1>1. k \in LruKeys(c)
  BY DEF LruVisible
<1>2. PICK f : f = LruWithout(c, {k})
  OBVIOUS
<1>3. Picks(f, c, E) /\ LruKeys(f) = LruKeys(c) \ {k} /\ Len(f) < Len(c)
  BY <1>1, <1>2, WithoutPicks
<1>4. PICK n \in 0..L1Size : Len(c) = n
  BY Listed
<1>5. PICK l \in 0..L1Size : Len(f) = l
  BY <1>3, PicksIsDict, Listed
<1>6. Len(f) < L1Size
  BY <1>3, <1>4, <1>5, L1SizeAssumption
<1>7. LruAfterGet(c, k) = Append(f, LruEntry(c, k))
  BY <1>2 DEF LruAfterGet
<1> QED BY <1>3, <1>6, <1>7 DEF Uses

LEMMA SetUses ==
  ASSUME NEW E, NEW c, Dict(c, E), NEW k, NEW v, NEW live
  PROVE  Uses(LruAfterSet(c, k, v, live), c, k, [key |-> k, val |-> v, live |-> live], E)
<1>1. PICK e : e = [key |-> k, val |-> v, live |-> live]
  OBVIOUS
<1>2. PICK n \in 0..L1Size : Len(c) = n
  BY Listed
<1>3. CASE k \in LruKeys(c)
  <2>1. PICK f : f = LruWithout(c, {k})
    OBVIOUS
  <2>2. Picks(f, c, E) /\ LruKeys(f) = LruKeys(c) \ {k} /\ Len(f) < Len(c)
    BY <1>3, <2>1, WithoutPicks
  <2>3. PICK l \in 0..L1Size : Len(f) = l
    BY <2>2, PicksIsDict, Listed
  <2>4. Len(f) < L1Size
    BY <1>2, <2>2, <2>3, L1SizeAssumption
  <2>5. LruAfterSet(c, k, v, live) = Append(f, e)
    BY <1>1, <1>3, <2>1 DEF LruAfterSet
  <2> QED BY <1>1, <2>2, <2>4, <2>5 DEF Uses
<1>4. CASE k \notin LruKeys(c)
  <2>1. PICK f : f = LruMakeRoom(c)
    OBVIOUS
  <2>2. Picks(f, c, E) /\ Len(f) < L1Size
    BY <2>1, RoomPicks
  <2>3. \A i \in DOMAIN f : \E j \in DOMAIN c : f[i] = c[j]
    BY <2>2, PicksIsDict
  <2>4. k \notin LruKeys(f)
    BY <1>4, <2>3 DEF LruKeys
  <2>5. LruAfterSet(c, k, v, live) = Append(f, e)
    BY <1>1, <1>4, <2>1 DEF LruAfterSet
  <2> QED BY <1>1, <2>2, <2>4, <2>5 DEF Uses
<1> QED BY <1>3, <1>4

LEMMA UsesIsDict ==
  ASSUME NEW E, NEW c, Dict(c, E), NEW k, NEW e \in E, e.key = k, NEW g, Uses(g, c, k, e, E)
  PROVE  /\ Dict(g, E)
         /\ \A i \in DOMAIN g : g[i] = e \/ \E j \in DOMAIN c : g[i] = c[j] /\ c[j].key # k
<1>1. PICK f : Picks(f, c, E) /\ k \notin LruKeys(f) /\ Len(f) < L1Size /\ g = Append(f, e)
  BY DEF Uses
<1>2. Dict(f, E) /\ \A i \in DOMAIN f : \E j \in DOMAIN c : f[i] = c[j]
  BY <1>1, PicksIsDict
<1>3. Dict(g, E)
  BY <1>1, <1>2, AppendedIsDict
<1>4. PICK l \in 0..L1Size : Len(f) = l /\ DOMAIN f = 1..l
  BY <1>2, Listed
<1>5. f \in Seq(E)
  BY <1>2 DEF Dict
<1>6. PICK h \in Seq(E) : /\ h = Append(f, e) /\ Len(h) = l + 1
                         /\ (\A i \in 1..l : h[i] = f[i]) /\ h[l + 1] = e
  BY <1>4, <1>5, AppendProperties
<1>7. g = h /\ DOMAIN g = 1..(l + 1)
  <2>1. DOMAIN h = 1..Len(h)
    BY LenProperties
  <2> QED BY <1>1, <1>6, <2>1
<1>8. ASSUME NEW i \in 1..(l + 1), i # l + 1
      PROVE  \E j \in DOMAIN c : g[i] = c[j] /\ c[j].key # k
  <2>1. i \in 1..l
    BY <1>8
  <2>2. g[i] = f[i] /\ f[i].key # k
    BY <1>1, <1>4, <1>6, <1>7, <2>1 DEF LruKeys
  <2>3. PICK j \in DOMAIN c : f[i] = c[j]
    BY <1>2, <1>4, <2>1
  <2> QED BY <2>2, <2>3
<1>9. \A i \in DOMAIN g : g[i] = e \/ \E j \in DOMAIN c : g[i] = c[j] /\ c[j].key # k
  BY <1>6, <1>7, <1>8
<1> QED BY <1>3, <1>9

\* An entry expires where it is.
EntryOf(K, V) == [key : K, val : V, live : BOOLEAN]

LEMMA ExpiredIsDict ==
  ASSUME NEW K, NEW V, NEW c, Dict(c, EntryOf(K, V)), NEW k
  PROVE  /\ Dict(LruExpired(c, k), EntryOf(K, V))
         /\ DOMAIN LruExpired(c, k) = DOMAIN c
         /\ \A i \in DOMAIN c :
              /\ LruExpired(c, k)[i].key = c[i].key /\ LruExpired(c, k)[i].val = c[i].val
              /\ LruExpired(c, k)[i].live <=> c[i].live /\ c[i].key # k
<1>1. PICK n \in 0..L1Size : Len(c) = n /\ DOMAIN c = 1..n /\ \A i \in 1..n : c[i] \in EntryOf(K, V)
  BY Listed
<1> DEFINE r == [i \in 1..n |-> IF c[i].key = k THEN [c[i] EXCEPT !.live = FALSE] ELSE c[i]]
<1>2. LruExpired(c, k) = r
  BY <1>1 DEF LruExpired
<1>3. ASSUME NEW i \in 1..n
      PROVE  /\ r[i] \in EntryOf(K, V) /\ r[i].key = c[i].key /\ r[i].val = c[i].val
             /\ r[i].live <=> c[i].live /\ c[i].key # k
  <2>1. c[i] \in EntryOf(K, V)
    BY <1>1
  <2>2. r[i] = IF c[i].key = k THEN [c[i] EXCEPT !.live = FALSE] ELSE c[i]
    OBVIOUS
  <2> HIDE DEF r
  <2> QED BY <2>1, <2>2 DEF EntryOf
<1>4. DOMAIN r = 1..n /\ Len(r) = n /\ r \in Seq(EntryOf(K, V))
  <2>1. r \in [1..n -> EntryOf(K, V)] /\ n \in Nat
    BY <1>1, <1>3, L1SizeAssumption
  <2> HIDE DEF r
  <2>2. r \in Seq(EntryOf(K, V))
    BY <2>1
  <2>3. DOMAIN r = 1..n
    BY DEF r
  <2>4. Len(r) = n
    <3>1. DOMAIN r = 1..Len(r) /\ Len(r) \in Nat
      BY <2>2, LenProperties
    <3>2. n \in Nat
      BY <1>1, L1SizeAssumption
    <3> QED BY <2>3, <3>1, <3>2
  <2> QED BY <2>2, <2>3, <2>4
<1> HIDE DEF r
<1>5. Dict(r, EntryOf(K, V))
  <2>1. \A i, j \in 1..n : r[i].key = r[j].key => i = j
    BY <1>1, <1>3 DEF Dict
  <2>2. Len(r) <= L1Size
    BY <1>1, <1>4, L1SizeAssumption
  <2> QED BY <1>4, <2>1, <2>2 DEF Dict
<1> QED BY <1>1, <1>2, <1>3, <1>4, <1>5

\* The entries of f are entries of c, live only if they were.
Kept(f, c) ==
  \A i \in DOMAIN f : \E j \in DOMAIN c :
    f[i].key = c[j].key /\ f[i].val = c[j].val /\ (f[i].live => c[j].live)

LEMMA AfterGetIs ==
  ASSUME NEW E, NEW c, Dict(c, E), NEW k
  PROVE  Dict(LruAfterGet(c, k), E) /\ Kept(LruAfterGet(c, k), c)
<1>1. CASE LruVisible(c, k)
  <2>1. PICK e : e = LruEntry(c, k)
    OBVIOUS
  <2>2. PICK i \in DOMAIN c : e = c[i] /\ c[i].key = k
    BY <1>1, <2>1, EntryIs DEF LruVisible
  <2>3. e \in E
    BY <2>2, Listed
  <2>4. PICK g : g = LruAfterGet(c, k)
    OBVIOUS
  <2>5. Uses(g, c, k, e, E)
    BY <1>1, <2>1, <2>4, GetUses
  <2>6. /\ Dict(g, E)
        /\ \A j \in DOMAIN g : g[j] = e \/ \E x \in DOMAIN c : g[j] = c[x] /\ c[x].key # k
    BY <2>2, <2>3, <2>5, UsesIsDict
  <2>7. Kept(g, c)
    BY <2>2, <2>6 DEF Kept
  <2> QED BY <2>4, <2>6, <2>7
<1>2. CASE ~LruVisible(c, k)
  <2>1. LruAfterGet(c, k) = LruWithout(c, {k})
    BY <1>2 DEF LruAfterGet
  <2>2. Dict(LruWithout(c, {k}), E) /\ Among(LruWithout(c, {k}), c, {k})
    BY WithoutIsDict
  <2>3. Kept(LruWithout(c, {k}), c)
    BY <2>2 DEF Among, Kept
  <2> QED BY <2>1, <2>2, <2>3
<1> QED BY <1>1, <1>2

LEMMA AfterSetIs ==
  ASSUME NEW K, NEW V, NEW c, Dict(c, EntryOf(K, V)), NEW k \in K, NEW v \in V,
         NEW live \in BOOLEAN, NEW g, g = LruAfterSet(c, k, v, live)
  PROVE  /\ Dict(g, EntryOf(K, V))
         /\ \A i \in DOMAIN g :
              \/ g[i].key = k /\ g[i].val = v /\ g[i].live = live
              \/ \E j \in DOMAIN c : g[i] = c[j] /\ c[j].key # k
<1>1. PICK e : e = [key |-> k, val |-> v, live |-> live]
  OBVIOUS
<1>2. e \in EntryOf(K, V) /\ e.key = k /\ e.val = v /\ e.live = live
  BY <1>1 DEF EntryOf
<1>3. Uses(g, c, k, e, EntryOf(K, V))
  BY <1>1, SetUses
<1>4. /\ Dict(g, EntryOf(K, V))
      /\ \A i \in DOMAIN g : g[i] = e \/ \E j \in DOMAIN c : g[i] = c[j] /\ c[j].key # k
  BY <1>2, <1>3, UsesIsDict
<1> QED BY <1>2, <1>4

LEMMA EmptyIsDict ==
  ASSUME NEW E
  PROVE  Dict(<<>>, E) /\ DOMAIN <<>> = {}
<1>1. <<>> \in Seq(E) /\ Len(<<>>) = 0 /\ DOMAIN <<>> = {}
  BY EmptySeq
<1>2. 0 <= L1Size
  BY L1SizeAssumption
<1> QED BY <1>1, <1>2 DEF Dict

-----------------------------------------------------------------------------
(* The tiers.                                                               *)

Reads(t, k) == t.op = "read" /\ t.key = k
Updates(t, k) == t.op \in {"delete", "bulk"} /\ k \in KeysOf(t)

\* What a read is about to store is a version.
Carries(t) == t.op = "read" /\ t.step \in {"computed", "l2set"} => t.val \in Versions

TierTypes ==
  /\ Dict(l1, EntryOf(Keys, Versions))
  /\ l2 \in [Keys -> Versions \cup {NoVersion}]
  /\ db \in [Keys -> Versions]
  /\ task \in [Tasks -> Operations]
  /\ tainted \subseteq Keys
  /\ \A p \in Tasks : Carries(task[p])

\* Whatever is kept of a key, or on its way, is its current version.
Current(k) ==
  /\ \A i \in DOMAIN l1 : l1[i].key = k /\ l1[i].live => l1[i].val = db[k]
  /\ l2[k] \in {NoVersion, db[k]}
  /\ \A p \in Tasks : Reads(task[p], k) => task[p].val \in {NoVersion, db[k]}

\* The invalidation of an update has done its part up to here.
Cleared(t, k) ==
  /\ k \notin LruKeys(l1)
  /\ t.op = "bulk" /\ t.step = "l2del" /\ k \notin t.found => l2[k] = NoVersion

\* Reads and updates of a key do not overlap; it is current but for an update,
\* whose invalidation clears it.
Quiet(k) ==
  /\ \A p, q \in Tasks : ~(Reads(task[p], k) /\ Updates(task[q], k))
  /\ (\A p \in Tasks : ~Updates(task[p], k)) => Current(k)
  /\ \A p \in Tasks : Updates(task[p], k) /\ task[p].step # "committed" => Cleared(task[p], k)
  /\ \A p \in Tasks : Updates(task[p], k) /\ task[p].op = "bulk" => task[p].pat.star

TierInv == TierTypes /\ \A k \in Keys \ tainted : Quiet(k)

\* Where the entries of k in L1 come from, in a step of a task that was in t.
FoundOrCarried(t, k) ==
  \A i \in DOMAIN l1' : l1'[i].key = k =>
    \/ \E j \in DOMAIN l1 : l1[j].key = k /\ l1'[i].val = l1[j].val /\ (l1'[i].live => l1[j].live)
    \/ Reads(t, k) /\ t.val # NoVersion /\ l1'[i].val = t.val

\* What a step of p, whose operation becomes u, does to a key: it begins no
\* update of it, stores nothing but what it carries or finds, and ends an update
\* only after clearing the key.
Local(p, u, k) ==
  LET t == task[p] IN
  /\ Updates(u, k) => Updates(t, k) /\ (u.op = "bulk" => u.pat.star)
  /\ db'[k] = db[k]
  /\ l2'[k] \in {l2[k], NoVersion} \/ (Reads(t, k) /\ l2'[k] = t.val)
  /\ FoundOrCarried(t, k)
  /\ Reads(u, k) =>
       /\ \A q \in Tasks : ~Updates(task[q], k)
       /\ u.val \in {NoVersion, l2[k], db[k]} \/ (Reads(t, k) /\ u.val = t.val)
  /\ Updates(u, k) /\ u.step # "committed" =>
       /\ k \notin LruKeys(l1')
       /\ u.op = "bulk" /\ u.step = "l2del" /\ k \notin u.found => l2'[k] = NoVersion
  /\ Updates(t, k) /\ ~Updates(u, k) => k \notin LruKeys(l1') /\ l2'[k] = NoVersion

LEMMA LocalKeepsQuiet ==
  ASSUME TierTypes, NEW p \in Tasks, NEW u, task' = [task EXCEPT ![p] = u],
         NEW k \in Keys, Quiet(k), Local(p, u, k)
  PROVE  Quiet(k)'
<1>1. \A q \in Tasks : task'[q] = IF q = p THEN u ELSE task[q]
  BY DEF TierTypes
<1>2. PICK t : t = task[p]
  OBVIOUS
<1>3. /\ Updates(u, k) => Updates(t, k) /\ (u.op = "bulk" => u.pat.star)
      /\ db'[k] = db[k]
      /\ l2'[k] \in {l2[k], NoVersion} \/ (Reads(t, k) /\ l2'[k] = t.val)
      /\ \A i \in DOMAIN l1' : l1'[i].key = k =>
           \/ \E j \in DOMAIN l1 : l1[j].key = k /\ l1'[i].val = l1[j].val /\ (l1'[i].live => l1[j].live)
           \/ Reads(t, k) /\ t.val # NoVersion /\ l1'[i].val = t.val
      /\ Reads(u, k) =>
           /\ \A q \in Tasks : ~Updates(task[q], k)
           /\ u.val \in {NoVersion, l2[k], db[k]} \/ (Reads(t, k) /\ u.val = t.val)
      /\ Updates(u, k) /\ u.step # "committed" =>
           /\ k \notin LruKeys(l1')
           /\ u.op = "bulk" /\ u.step = "l2del" /\ k \notin u.found => l2'[k] = NoVersion
      /\ Updates(t, k) /\ ~Updates(u, k) => k \notin LruKeys(l1') /\ l2'[k] = NoVersion
  BY <1>2 DEF Local, FoundOrCarried
<1>4. /\ \A x, q \in Tasks : ~(Reads(task[x], k) /\ Updates(task[q], k))
      /\ (\A x \in Tasks : ~Updates(task[x], k)) => Current(k)
      /\ \A x \in Tasks : Updates(task[x], k) /\ task[x].step # "committed" => Cleared(task[x], k)
      /\ \A x \in Tasks : Updates(task[x], k) /\ task[x].op = "bulk" => task[x].pat.star
  BY DEF Quiet
<1>5. ASSUME NEW x \in Tasks, NEW q \in Tasks, Reads(task'[x], k), Updates(task'[q], k)
      PROVE  FALSE
  <2>1. Updates(task[q], k)
    BY <1>1, <1>2, <1>3, <1>5
  <2>2. CASE x = p
    BY <1>1, <1>3, <1>5, <2>1, <2>2
  <2>3. CASE x # p
    BY <1>1, <1>4, <1>5, <2>1, <2>3
  <2> QED BY <2>2, <2>3
<1>6. ASSUME \A x \in Tasks : ~Updates(task'[x], k) PROVE Current(k)'
  <2>1. CASE \A x \in Tasks : ~Updates(task[x], k)
    <3>1. /\ \A i \in DOMAIN l1 : l1[i].key = k /\ l1[i].live => l1[i].val = db[k]
          /\ l2[k] \in {NoVersion, db[k]}
          /\ \A x \in Tasks : Reads(task[x], k) => task[x].val \in {NoVersion, db[k]}
      BY <1>4, <2>1 DEF Current
    <3>2. \A i \in DOMAIN l1' : l1'[i].key = k /\ l1'[i].live => l1'[i].val = db'[k]
      BY <1>2, <1>3, <3>1
    <3>3. l2'[k] \in {NoVersion, db'[k]}
      BY <1>2, <1>3, <3>1
    <3>4. \A x \in Tasks : Reads(task'[x], k) => task'[x].val \in {NoVersion, db'[k]}
      BY <1>1, <1>2, <1>3, <3>1
    <3> QED BY <3>2, <3>3, <3>4 DEF Current
  <2>2. CASE ~ \A x \in Tasks : ~Updates(task[x], k)
    <3>1. PICK x \in Tasks : Updates(task[x], k)
      BY <2>2
    <3>2. x = p /\ Updates(t, k) /\ ~Updates(u, k)
      BY <1>1, <1>2, <1>6, <3>1
    <3>3. k \notin LruKeys(l1') /\ l2'[k] = NoVersion
      BY <1>3, <3>2
    <3>4. \A y \in Tasks : ~Reads(task'[y], k)
      BY <1>1, <1>3, <1>4, <3>1
    <3>5. \A i \in DOMAIN l1' : l1'[i].key # k
      BY <3>3 DEF LruKeys
    <3> QED BY <3>3, <3>4, <3>5 DEF Current
  <2> QED BY <2>1, <2>2
<1>7. ASSUME NEW x \in Tasks, Updates(task'[x], k), task'[x].step # "committed"
      PROVE  /\ k \notin LruKeys(l1')
             /\ task'[x].op = "bulk" /\ task'[x].step = "l2del" /\ k \notin task'[x].found
                  => l2'[k] = NoVersion
  <2>0. PICK o : o = task'[x]
    OBVIOUS
  <2>1. CASE x = p
    <3>1. o = u
      BY <1>1, <2>0, <2>1
    <3> QED BY <1>3, <1>7, <2>0, <3>1
  <2>2. CASE x # p
    <3>1. o = task[x] /\ Updates(o, k) /\ o.step # "committed"
      BY <1>1, <1>7, <2>0, <2>2
    <3>2. /\ k \notin LruKeys(l1)
          /\ o.op = "bulk" /\ o.step = "l2del" /\ k \notin o.found => l2[k] = NoVersion
      BY <1>4, <3>1 DEF Cleared
    <3>3. ~Reads(t, k)
      BY <1>2, <1>4, <3>1
    <3>4. \A j \in DOMAIN l1 : l1[j].key # k
      BY <3>2 DEF LruKeys
    <3>5. \A i \in DOMAIN l1' : l1'[i].key # k
      BY <1>3, <3>3, <3>4
    <3>6. k \notin LruKeys(l1')
      BY <3>5 DEF LruKeys
    <3>7. l2'[k] \in {l2[k], NoVersion}
      BY <1>3, <3>3
    <3> QED BY <2>0, <3>2, <3>6, <3>7
  <2> QED BY <2>1, <2>2
<1>8. \A x \in Tasks : Updates(task'[x], k) /\ task'[x].step # "committed" => Cleared(task[x], k)'
  BY <1>7 DEF Cleared
<1>9. ASSUME NEW x \in Tasks, Updates(task'[x], k), task'[x].op = "bulk" PROVE task'[x].pat.star
  <2>1. CASE x = p
    BY <1>1, <1>3, <1>9, <2>1
  <2>2. CASE x # p
    BY <1>1, <1>4, <1>9, <2>2
  <2> QED BY <2>1, <2>2
<1> QED BY <1>5, <1>6, <1>8, <1>9 DEF Quiet

\* The first step of an update of k, which nobody is reading.
Begins(p, u, k) ==
  /\ Updates(u, k) /\ u.step = "committed" /\ (u.op = "bulk" => u.pat.star)
  /\ \A q \in Tasks : ~Reads(task[q], k)
  /\ l1' = l1 /\ l2'[k] = l2[k]

LEMMA BeginsKeepsQuiet ==
  ASSUME TierTypes, NEW p \in Tasks, NEW u, task' = [task EXCEPT ![p] = u],
         NEW k \in Keys, Quiet(k), Begins(p, u, k)
  PROVE  Quiet(k)'
<1>1. \A q \in Tasks : task'[q] = IF q = p THEN u ELSE task[q]
  BY DEF TierTypes
<1>2. /\ Updates(u, k) /\ u.step = "committed" /\ (u.op = "bulk" => u.pat.star)
      /\ \A q \in Tasks : ~Reads(task[q], k)
      /\ l1' = l1 /\ l2'[k] = l2[k]
  BY DEF Begins
<1>3. /\ \A x \in Tasks : Updates(task[x], k) /\ task[x].step # "committed" => Cleared(task[x], k)
      /\ \A x \in Tasks : Updates(task[x], k) /\ task[x].op = "bulk" => task[x].pat.star
  BY DEF Quiet
<1>4. \A x \in Tasks : ~Reads(task'[x], k)
  BY <1>1, <1>2 DEF Reads, Updates
<1>5. Updates(task'[p], k)
  BY <1>1, <1>2
<1>6. ASSUME NEW x \in Tasks, Updates(task'[x], k), task'[x].step # "committed"
      PROVE  /\ k \notin LruKeys(l1')
             /\ task'[x].op = "bulk" /\ task'[x].step = "l2del" /\ k \notin task'[x].found
                  => l2'[k] = NoVersion
  <2>1. PICK o : o = task'[x]
    OBVIOUS
  <2>2. o = task[x]
    BY <1>1, <1>2, <1>6, <2>1
  <2>3. /\ k \notin LruKeys(l1)
        /\ o.op = "bulk" /\ o.step = "l2del" /\ k \notin o.found => l2[k] = NoVersion
    BY <1>3, <1>6, <2>1, <2>2 DEF Cleared
  <2> QED BY <1>2, <2>1, <2>3
<1>7. \A x \in Tasks : Updates(task'[x], k) /\ task'[x].step # "committed" => Cleared(task[x], k)'
  BY <1>6 DEF Cleared
<1>8. ASSUME NEW x \in Tasks, Updates(task'[x], k), task'[x].op = "bulk" PROVE task'[x].pat.star
  BY <1>1, <1>2, <1>3, <1>8
<1> QED BY <1>4, <1>5, <1>7, <1>8 DEF Quiet

\* What a step that changes neither tasks nor sources may do to a key: drop it.
LEMMA LossKeepsQuiet ==
  ASSUME UNCHANGED <<db, task>>, NEW k \in Keys, Quiet(k), l2'[k] \in {l2[k], NoVersion},
         \A i \in DOMAIN l1' : l1'[i].key = k =>
           \E j \in DOMAIN l1 : l1[j].key = k /\ l1'[i].val = l1[j].val /\ (l1'[i].live => l1[j].live)
  PROVE  Quiet(k)'
<1>1. k \notin LruKeys(l1) => k \notin LruKeys(l1')
  <2>1. SUFFICES ASSUME \A j \in DOMAIN l1 : l1[j].key # k PROVE k \notin LruKeys(l1')
    BY DEF LruKeys
  <2>2. \A i \in DOMAIN l1' : l1'[i].key # k
    BY <2>1
  <2> QED BY <2>2 DEF LruKeys
<1>2. Current(k) => Current(k)'
  BY DEF Current
<1>3. \A x \in Tasks : Cleared(task[x], k) => Cleared(task[x], k)'
  BY <1>1 DEF Cleared
<1> QED BY <1>2, <1>3 DEF Quiet

\* A step of p, whose operation becomes u.
LEMMA StepKeeps ==
  ASSUME TierInv, NEW p \in Tasks, NEW u \in Operations, task' = [task EXCEPT ![p] = u],
         Carries(u), Dict(l1', EntryOf(Keys, Versions)),
         l2' \in [Keys -> Versions \cup {NoVersion}], db' \in [Keys -> Versions],
         tainted \subseteq tainted', tainted' \subseteq Keys,
         \A k \in Keys \ tainted' : Quiet(k) => Local(p, u, k) \/ Begins(p, u, k)
  PROVE  TierInv'
<1>1. TierTypes
  BY DEF TierInv
<1>2. \A q \in Tasks : task'[q] = IF q = p THEN u ELSE task[q]
  BY <1>1 DEF TierTypes
<1>3. task' \in [Tasks -> Operations]
  BY <1>1 DEF TierTypes
<1>4. \A q \in Tasks : Carries(task'[q])
  BY <1>1, <1>2 DEF TierTypes
<1>5. TierTypes'
  BY <1>3, <1>4 DEF TierTypes
<1>6. ASSUME NEW k \in Keys \ tainted' PROVE Quiet(k)'
  <2>1. k \in Keys /\ Quiet(k)
    BY DEF TierInv
  <2>2. CASE Local(p, u, k)
    BY <1>1, <2>1, <2>2, LocalKeepsQuiet
  <2>3. CASE Begins(p, u, k)
    BY <1>1, <2>1, <2>3, BeginsKeepsQuiet
  <2> QED BY <2>1, <2>2, <2>3
<1> QED BY <1>5, <1>6 DEF TierInv

\* The operations, by their name.
ReadOps == [op : {"read"}, key : Keys, val : Versions \cup {NoVersion},
            step : {"l2get", "l2got", "compute", "computed", "l2set"}]
DeleteOps == [op : {"delete"}, key : Keys, step : {"committed", "l2del"}]
BulkOps == [op : {"bulk"}, pat : Patterns, found : SUBSET Keys, step : {"committed", "scan", "l2del"}]
ClearOps == [op : {"clear"}, found : SUBSET Keys, step : {"scan", "l2del"}]

LEMMA Kinds ==
  /\ Operations = {Idle} \cup ReadOps \cup DeleteOps \cup BulkOps \cup ClearOps
  /\ \A t \in Operations :
       /\ t.op = "read" => t \in ReadOps
       /\ t.op = "delete" => t \in DeleteOps
       /\ t.op = "bulk" => t \in BulkOps
       /\ t.op = "clear" => t \in ClearOps
  /\ Idle.op = "none"
<1>1. Operations = {Idle} \cup ReadOps \cup DeleteOps \cup BulkOps \cup ClearOps
  BY DEF Operations, ReadOps, DeleteOps, BulkOps, ClearOps
<1>2. Idle.op = "none"
  BY DEF Idle
<1>3. \A t \in Operations :
       /\ t.op = "read" => t \in ReadOps
       /\ t.op = "delete" => t \in DeleteOps
       /\ t.op = "bulk" => t \in BulkOps
       /\ t.op = "clear" => t \in ClearOps
  BY <1>1, <1>2 DEF ReadOps, DeleteOps, BulkOps, ClearOps
<1> QED BY <1>1, <1>2, <1>3

\* An idle task reads and updates nothing.
LEMMA IdleIs ==
  /\ Idle \in Operations /\ Carries(Idle)
  /\ \A k \in Keys : ~Reads(Idle, k) /\ ~Updates(Idle, k)
<1>1. Idle \in Operations /\ Idle.op = "none"
  BY Kinds
<1> QED BY <1>1 DEF Carries, Reads, Updates

\* A read, of key m.
LEMMA ReadIs ==
  ASSUME NEW m \in Keys, NEW v \in Versions \cup {NoVersion},
         NEW s \in {"l2get", "l2got", "compute", "computed", "l2set"},
         NEW u, u = [op |-> "read", key |-> m, val |-> v, step |-> s]
  PROVE  /\ u \in Operations /\ (v # NoVersion \/ s \notin {"computed", "l2set"} => Carries(u))
         /\ u.val = v /\ u.step = s
         /\ \A k \in Keys : (Reads(u, k) <=> k = m) /\ ~Updates(u, k)
<1>1. u \in ReadOps /\ u.op = "read" /\ u.key = m /\ u.val = v /\ u.step = s
  BY DEF ReadOps
<1>2. u \in Operations
  BY <1>1, Kinds
<1> QED BY <1>1, <1>2 DEF Carries, Reads, Updates

\* The state of the tiers and of a task p at the start of a step.
LEMMA Before ==
  ASSUME TierInv, NEW p \in Tasks
  PROVE  /\ Dict(l1, EntryOf(Keys, Versions))
         /\ l2 \in [Keys -> Versions \cup {NoVersion}]
         /\ db \in [Keys -> Versions]
         /\ task \in [Tasks -> Operations] /\ tainted \subseteq Keys
         /\ task[p] \in Operations /\ Carries(task[p])
<1> QED BY DEF TierInv, TierTypes

LEMMA ReadHitKeeps ==
  ASSUME TierInv, NEW p \in Tasks, NEW m \in Keys, ReadHit(p, m)
  PROVE  TierInv'
<1>1. TierTypes
  BY DEF TierInv
<1>2. l1' = LruAfterGet(l1, m) /\ UNCHANGED <<l2, db, task, tainted>>
  BY DEF ReadHit
<1>3. Dict(l1', EntryOf(Keys, Versions)) /\ Kept(l1', l1)
  BY <1>1, <1>2, AfterGetIs DEF TierTypes
<1>4. TierTypes'
  BY <1>1, <1>2, <1>3 DEF TierTypes
<1>5. ASSUME NEW k \in Keys \ tainted' PROVE Quiet(k)'
  <2>1. Quiet(k)
    BY <1>2 DEF TierInv
  <2>2. \A i \in DOMAIN l1' : l1'[i].key = k =>
           \E j \in DOMAIN l1 : l1[j].key = k /\ l1'[i].val = l1[j].val /\ (l1'[i].live => l1[j].live)
    BY <1>3 DEF Kept
  <2> QED BY <1>2, <2>1, <2>2, LossKeepsQuiet
<1> QED BY <1>4, <1>5 DEF TierInv

\* A read begins, of a key that nobody is updating unless it becomes tainted.
LEMMA BeginReadKeeps ==
  ASSUME TierInv, NEW p \in Tasks, task[p] = Idle, NEW m \in Keys, NEW s \in {"l2get", "compute"},
         NEW u, u = [op |-> "read", key |-> m, val |-> NoVersion, step |-> s],
         task' = [task EXCEPT ![p] = u], UNCHANGED <<l2, db>>,
         tainted' = tainted \cup {k \in {m} : Updating(k)},
         Dict(l1', EntryOf(Keys, Versions)), Kept(l1', l1)
  PROVE  TierInv'
<1>1. /\ u \in Operations /\ Carries(u) /\ u.val = NoVersion
      /\ \A k \in Keys : (Reads(u, k) <=> k = m) /\ ~Updates(u, k)
  <2>1. /\ NoVersion \in Versions \cup {NoVersion}
        /\ s \in {"l2get", "l2got", "compute", "computed", "l2set"} /\ s \notin {"computed", "l2set"}
    OBVIOUS
  <2> QED BY <2>1, ReadIs
<1>2. ASSUME NEW k \in Keys \ tainted', Quiet(k) PROVE Local(p, u, k)
  <2>1. k = m => \A q \in Tasks : ~Updates(task[q], k)
    BY DEF Updating, Updates
  <2>2. FoundOrCarried(task[p], k)
    BY DEF Kept, FoundOrCarried
  <2>3. k \in Keys /\ (Reads(u, k) => k = m) /\ ~Updates(u, k) /\ u.val = NoVersion
    BY <1>1
  <2>4. db'[k] = db[k] /\ l2'[k] = l2[k] /\ ~Updates(task[p], k)
    BY IdleIs
  <2> QED BY <2>1, <2>2, <2>3, <2>4 DEF Local
<1>3. /\ tainted \subseteq tainted' /\ tainted' \subseteq Keys
      /\ l2' \in [Keys -> Versions \cup {NoVersion}] /\ db' \in [Keys -> Versions]
  BY Before
<1> QED BY <1>1, <1>2, <1>3, StepKeeps

LEMMA ReadMissKeeps ==
  ASSUME TierInv, NEW p \in Tasks, NEW m \in Keys, ReadMiss(p, m)
  PROVE  TierInv'
<1>1. PICK u : u = [op |-> "read", key |-> m, val |-> NoVersion, step |-> "l2get"]
  OBVIOUS
<1>2. /\ task[p] = Idle /\ l1' = LruAfterGet(l1, m)
      /\ task' = [task EXCEPT ![p] = u]
      /\ tainted' = tainted \cup {k \in {m} : Updating(k)}
      /\ UNCHANGED <<l2, db>>
  BY <1>1 DEF ReadMiss
<1>3. Dict(l1', EntryOf(Keys, Versions)) /\ Kept(l1', l1)
  BY <1>2, Before, AfterGetIs
<1> QED BY <1>1, <1>2, <1>3, BeginReadKeeps

LEMMA WarmKeeps ==
  ASSUME TierInv, NEW p \in Tasks, NEW m \in Keys, Warm(p, m)
  PROVE  TierInv'
<1>1. PICK u : u = [op |-> "read", key |-> m, val |-> NoVersion, step |-> "compute"]
  OBVIOUS
<1>2. /\ task[p] = Idle /\ task' = [task EXCEPT ![p] = u]
      /\ tainted' = tainted \cup {k \in {m} : Updating(k)}
      /\ UNCHANGED <<l1, l2, db>>
  BY <1>1 DEF Warm
<1>3. Dict(l1', EntryOf(Keys, Versions)) /\ Kept(l1', l1)
  BY <1>2, Before DEF Kept
<1> QED BY <1>1, <1>2, <1>3, BeginReadKeeps

\* A read goes on: it takes the value of a tier or of the source with it, and
\* leaves no other in the tiers than the one it carried.
LEMMA ReadingKeeps ==
  ASSUME TierInv, NEW p \in Tasks, NEW t, t = task[p], t.op = "read",
         NEW u \in Operations, task' = [task EXCEPT ![p] = u], Carries(u),
         UNCHANGED <<db, tainted>>,
         \A k \in Keys : ~Updates(u, k) /\ FoundOrCarried(t, k),
         \A k \in Keys : Reads(u, k) => k = t.key /\ u.val \in {NoVersion, l2[k], db[k], t.val},
         Dict(l1', EntryOf(Keys, Versions)), l2' \in [Keys -> Versions \cup {NoVersion}],
         \A k \in Keys : l2'[k] = l2[k] \/ (k = t.key /\ l2'[k] = t.val)
  PROVE  TierInv'
<1>1. ASSUME NEW k \in Keys \ tainted', Quiet(k) PROVE Local(p, u, k)
  <2>1. k \in Keys /\ db'[k] = db[k] /\ ~Updates(u, k) /\ FoundOrCarried(t, k)
    OBVIOUS
  <2>2. (Reads(t, k) <=> k = t.key) /\ ~Updates(t, k)
    BY DEF Reads, Updates
  <2>3. Reads(t, k) => \A q \in Tasks : ~Updates(task[q], k)
    <3>1. \A x, q \in Tasks : ~(Reads(task[x], k) /\ Updates(task[q], k))
      BY <1>1 DEF Quiet
    <3> QED BY <3>1
  <2>4. Reads(u, k) => Reads(t, k) /\ (u.val \in {NoVersion, l2[k], db[k]} \/ u.val = t.val)
    BY <2>1, <2>2
  <2>5. l2'[k] \in {l2[k], NoVersion} \/ (Reads(t, k) /\ l2'[k] = t.val)
    BY <2>1, <2>2
  <2> QED BY <2>1, <2>2, <2>3, <2>4, <2>5 DEF Local
<1>2. /\ tainted \subseteq tainted' /\ tainted' \subseteq Keys
      /\ db' \in [Keys -> Versions]
  BY Before
<1> QED BY <1>1, <1>2, StepKeeps

\* What a read is.
LEMMA ReadOf ==
  ASSUME TierInv, NEW p \in Tasks, NEW t, t = task[p], t.op = "read"
  PROVE  /\ t.key \in Keys /\ t.val \in Versions \cup {NoVersion}
         /\ t.step \in {"computed", "l2set"} => t.val \in Versions
         /\ \E s \in {"l2get", "l2got", "compute", "computed", "l2set"} :
              t.step = s /\ t = [op |-> "read", key |-> t.key, val |-> t.val, step |-> s]
<1>1. t \in Operations /\ Carries(t)
  BY Before
<1>2. t \in ReadOps
  BY <1>1, Kinds
<1> QED BY <1>1, <1>2 DEF ReadOps, Carries

LEMMA Untouched ==
  ASSUME TierInv, UNCHANGED l1, NEW t
  PROVE  Dict(l1', EntryOf(Keys, Versions)) /\ \A k \in Keys : FoundOrCarried(t, k)
<1> QED BY DEF TierInv, TierTypes, FoundOrCarried

\* L1 stores what the read in t carries.
LEMMA StoredInL1 ==
  ASSUME TierInv, NEW t, t.op = "read", t.key \in Keys, t.val \in Versions, t.val # NoVersion,
         l1' = LruAfterSet(l1, t.key, t.val, TRUE)
  PROVE  Dict(l1', EntryOf(Keys, Versions)) /\ \A k \in Keys : FoundOrCarried(t, k)
<1>1. PICK m \in Keys : m = t.key
  OBVIOUS
<1>2. PICK v \in Versions : v = t.val
  OBVIOUS
<1>0. PICK yes \in BOOLEAN : yes = TRUE
  OBVIOUS
<1>3. PICK g : g = LruAfterSet(l1, m, v, yes)
  OBVIOUS
<1>4. Dict(l1, EntryOf(Keys, Versions))
  BY DEF TierInv, TierTypes
<1>5. /\ Dict(g, EntryOf(Keys, Versions))
      /\ \A i \in DOMAIN g :
           \/ g[i].key = m /\ g[i].val = v /\ g[i].live = yes
           \/ \E j \in DOMAIN l1 : g[i] = l1[j] /\ l1[j].key # m
  BY <1>3, <1>4, AfterSetIs
<1>6. l1' = g
  BY <1>0, <1>1, <1>2, <1>3
<1>7. ASSUME NEW k \in Keys PROVE FoundOrCarried(t, k)
  <2>1. Reads(t, m)
    BY <1>1 DEF Reads
  <2>2. ASSUME NEW i \in DOMAIN g, g[i].key = k
        PROVE  \/ \E j \in DOMAIN l1 : l1[j].key = k /\ g[i].val = l1[j].val /\ (g[i].live => l1[j].live)
               \/ Reads(t, k) /\ t.val # NoVersion /\ g[i].val = t.val
    <3>1. CASE g[i].key = m /\ g[i].val = v
      <4>1. k = m /\ t.val # NoVersion /\ g[i].val = t.val
        BY <1>2, <2>2, <3>1
      <4> QED BY <2>1, <4>1
    <3>2. CASE \E j \in DOMAIN l1 : g[i] = l1[j]
      BY <2>2, <3>2
    <3> QED BY <1>5, <3>1, <3>2
  <2> QED BY <1>6, <2>2 DEF FoundOrCarried
<1> QED BY <1>5, <1>6, <1>7

\* Task p, in the read t, takes v and goes on to step s.
Takes(p, v, s) == task' = [task EXCEPT ![p].val = v, ![p].step = s]
ReadOp(k, v, s) == [op |-> "read", key |-> k, val |-> v, step |-> s]

LEMMA ReadTakes ==
  ASSUME TierInv, NEW p \in Tasks, NEW t, t = task[p], t.op = "read", NEW v, NEW s, Takes(p, v, s)
  PROVE  task' = [task EXCEPT ![p] = ReadOp(t.key, v, s)]
<1>0. PICK u : u = [op |-> "read", key |-> t.key, val |-> v, step |-> s]
  OBVIOUS
<1>1. u = [t EXCEPT !.val = v, !.step = s]
  <2>1. PICK o \in {"l2get", "l2got", "compute", "computed", "l2set"} :
          t = [op |-> "read", key |-> t.key, val |-> t.val, step |-> o]
    BY ReadOf
  <2>2. PICK m, w : m = t.key /\ w = t.val
    OBVIOUS
  <2>3. t = [op |-> "read", key |-> m, val |-> w, step |-> o]
    BY <2>1, <2>2
  <2>4. u = [op |-> "read", key |-> m, val |-> v, step |-> s]
    BY <1>0, <2>2
  <2>5. PICK r : r = [t EXCEPT !.val = v]
    OBVIOUS
  <2>6. r = [op |-> "read", key |-> m, val |-> v, step |-> o]
    BY <2>3, <2>5
  <2>7. [r EXCEPT !.step = s] = u
    BY <2>4, <2>6
  <2> QED BY <2>5, <2>7
<1>2. task \in [Tasks -> Operations]
  BY Before
<1>3. task' = [task EXCEPT ![p] = [[@ EXCEPT !.val = v] EXCEPT !.step = s]]
  BY <1>2 DEF Takes
<1>4. [[t EXCEPT !.val = v] EXCEPT !.step = s] = [t EXCEPT !.val = v, !.step = s]
  OBVIOUS
<1>5. task' = [task EXCEPT ![p] = u]
  BY <1>1, <1>2, <1>3, <1>4
<1> QED BY <1>0, <1>5 DEF ReadOp

LEMMA L2GetKeeps ==
  ASSUME TierInv, NEW p \in Tasks, L2Get(p)
  PROVE  TierInv'
<1>1. PICK t : t = task[p]
  OBVIOUS
<1>2. PICK v \in {l2[t.key], NoVersion} : task' = [task EXCEPT ![p].val = v, ![p].step = "l2got"]
  BY <1>1 DEF L2Get
<1>3. t.op = "read" /\ UNCHANGED <<l1, l2, db, tainted>>
  BY <1>1 DEF L2Get
<1>4. t.key \in Keys
  BY <1>1, <1>3, ReadOf
<1>5. v \in Versions \cup {NoVersion}
  BY <1>2, <1>4, Before
<1>6. PICK u : u = [op |-> "read", key |-> t.key, val |-> v, step |-> "l2got"]
  OBVIOUS
<1>8. task' = [task EXCEPT ![p] = u]
  <2>1. Takes(p, v, "l2got")
    BY <1>2 DEF Takes
  <2>2. u = ReadOp(t.key, v, "l2got")
    BY <1>6 DEF ReadOp
  <2> QED BY <1>1, <1>3, <2>1, <2>2, ReadTakes
<1>9. /\ u \in Operations /\ Carries(u) /\ u.val = v
      /\ \A k \in Keys : (Reads(u, k) <=> k = t.key) /\ ~Updates(u, k)
  <2>1. "l2got" \in {"l2get", "l2got", "compute", "computed", "l2set"}
        /\ "l2got" \notin {"computed", "l2set"}
    OBVIOUS
  <2> QED BY <1>4, <1>5, <1>6, <2>1, ReadIs
<1>10. Dict(l1', EntryOf(Keys, Versions)) /\ \A k \in Keys : FoundOrCarried(t, k)
  BY <1>3, Untouched
<1>11. \A k \in Keys : Reads(u, k) => k = t.key /\ u.val \in {NoVersion, l2[k], db[k], t.val}
  BY <1>2, <1>9
<1>12. l2' \in [Keys -> Versions \cup {NoVersion}] /\ \A k \in Keys : l2'[k] = l2[k]
  BY <1>3, Before
<1> QED BY <1>1, <1>3, <1>8, <1>9, <1>10, <1>11, <1>12, ReadingKeeps

\* Task p, in t, goes on to step s.
LEMMA Moved ==
  ASSUME TierInv, NEW p \in Tasks, NEW t, t = task[p], NEW s, Goto(p, s)
  PROVE  task' = [task EXCEPT ![p] = [t EXCEPT !.step = s]]
<1>1. task \in [Tasks -> Operations]
  BY Before
<1>2. task' = [task EXCEPT ![p] = [@ EXCEPT !.step = s]]
  BY <1>1 DEF Goto
<1> QED BY <1>1, <1>2

LEMMA ReadMoved ==
  ASSUME TierInv, NEW p \in Tasks, NEW t, t = task[p], t.op = "read",
         NEW s \in {"l2get", "l2got", "compute", "computed", "l2set"}, Goto(p, s),
         s \in {"computed", "l2set"} => t.val # NoVersion
  PROVE  \E u \in Operations :
           /\ task' = [task EXCEPT ![p] = u] /\ Carries(u)
           /\ \A k \in Keys : ~Updates(u, k)
           /\ \A k \in Keys : Reads(u, k) => k = t.key /\ u.val \in {NoVersion, l2[k], db[k], t.val}
<1>1. t.key \in Keys /\ t.val \in Versions \cup {NoVersion}
  BY ReadOf
<1>2. PICK o \in {"l2get", "l2got", "compute", "computed", "l2set"} :
          t = [op |-> "read", key |-> t.key, val |-> t.val, step |-> o]
  BY ReadOf
<1>3. PICK m, w : m = t.key /\ w = t.val
  OBVIOUS
<1>4. t = [op |-> "read", key |-> m, val |-> w, step |-> o]
  BY <1>2, <1>3
<1>5. PICK u : u = [op |-> "read", key |-> m, val |-> w, step |-> s]
  OBVIOUS
<1>6. u = [t EXCEPT !.step = s]
  BY <1>4, <1>5
<1>7. task' = [task EXCEPT ![p] = u]
  BY <1>6, Moved
<1>8. /\ u \in Operations /\ Carries(u) /\ u.val = w
      /\ \A k \in Keys : (Reads(u, k) <=> k = m) /\ ~Updates(u, k)
  BY <1>1, <1>3, <1>5, ReadIs
<1> QED BY <1>3, <1>7, <1>8

\* Task p is done.
LEMMA Finished ==
  ASSUME NEW p \in Tasks, Finish(p)
  PROVE  /\ task' = [task EXCEPT ![p] = Idle]
         /\ Idle \in Operations /\ Carries(Idle)
         /\ \A k \in Keys : ~Reads(Idle, k) /\ ~Updates(Idle, k)
<1> QED BY IdleIs DEF Finish

LEMMA L2HitKeeps ==
  ASSUME TierInv, NEW p \in Tasks, L2Hit(p)
  PROVE  TierInv'
<1>1. PICK t : t = task[p]
  OBVIOUS
<1>2. /\ t.op = "read" /\ t.val # NoVersion
      /\ l1' = LruAfterSet(l1, t.key, t.val, TRUE) /\ Finish(p)
      /\ UNCHANGED <<l2, db, tainted>>
  BY <1>1 DEF L2Hit
<1>3. t.key \in Keys /\ t.val \in Versions
  BY <1>1, <1>2, ReadOf
<1>4. /\ Dict(l1', EntryOf(Keys, Versions))
      /\ \A k \in Keys : FoundOrCarried(t, k)
  BY <1>1, <1>2, <1>3, StoredInL1
<1>5. l2' \in [Keys -> Versions \cup {NoVersion}] /\ \A k \in Keys : l2'[k] = l2[k]
  BY <1>2, Before
<1> QED BY <1>1, <1>2, <1>4, <1>5, Finished, ReadingKeeps

LEMMA L2MissKeeps ==
  ASSUME TierInv, NEW p \in Tasks, L2Miss(p)
  PROVE  TierInv'
<1>1. PICK t : t = task[p]
  OBVIOUS
<1>2. t.op = "read" /\ Goto(p, "compute") /\ UNCHANGED <<l1, l2, db, tainted>>
  BY <1>1 DEF L2Miss
<1>3. PICK u \in Operations :
        /\ task' = [task EXCEPT ![p] = u] /\ Carries(u)
        /\ \A k \in Keys : ~Updates(u, k)
        /\ \A k \in Keys : Reads(u, k) => k = t.key /\ u.val \in {NoVersion, l2[k], db[k], t.val}
  <2>1. /\ "compute" \in {"l2get", "l2got", "compute", "computed", "l2set"}
        /\ "compute" \notin {"computed", "l2set"}
    OBVIOUS
  <2> QED BY <1>1, <1>2, <2>1, ReadMoved
<1>4. Dict(l1', EntryOf(Keys, Versions)) /\ \A k \in Keys : FoundOrCarried(t, k)
  BY <1>2, Untouched
<1>5. l2' \in [Keys -> Versions \cup {NoVersion}] /\ \A k \in Keys : l2'[k] = l2[k]
  BY <1>2, Before
<1> QED BY <1>1, <1>2, <1>3, <1>4, <1>5, ReadingKeeps

LEMMA ComputeKeeps ==
  ASSUME TierInv, NEW p \in Tasks, Compute(p)
  PROVE  TierInv'
<1>1. PICK t : t = task[p]
  OBVIOUS
<1>2. /\ t.op = "read" /\ UNCHANGED <<l1, l2, db, tainted>>
      /\ task' = [task EXCEPT ![p].val = db[t.key], ![p].step = "computed"]
  BY <1>1 DEF Compute
<1>3. t.key \in Keys
  BY <1>1, <1>2, ReadOf
<1>4. PICK v \in Versions : v = db[t.key]
  BY <1>3, Before
<1>5. PICK u : u = [op |-> "read", key |-> t.key, val |-> v, step |-> "computed"]
  OBVIOUS
<1>6. task' = [task EXCEPT ![p] = u]
  <2>1. Takes(p, v, "computed")
    BY <1>2, <1>4 DEF Takes
  <2>2. u = ReadOp(t.key, v, "computed")
    BY <1>5 DEF ReadOp
  <2>3. t.op = "read"
    BY <1>2
  <2> QED BY <1>1, <2>1, <2>2, <2>3, ReadTakes
<1>7. /\ u \in Operations /\ Carries(u) /\ u.val = v
      /\ \A k \in Keys : (Reads(u, k) <=> k = t.key) /\ ~Updates(u, k)
  <2>1. /\ "computed" \in {"l2get", "l2got", "compute", "computed", "l2set"}
        /\ v # NoVersion
    BY DEF Versions, NoVersion
  <2> QED BY <1>3, <1>5, <2>1, ReadIs
<1>8. Dict(l1', EntryOf(Keys, Versions)) /\ \A k \in Keys : FoundOrCarried(t, k)
  BY <1>2, Untouched
<1>9. \A k \in Keys : Reads(u, k) => k = t.key /\ u.val \in {NoVersion, l2[k], db[k], t.val}
  BY <1>4, <1>7
<1>10. l2' \in [Keys -> Versions \cup {NoVersion}] /\ \A k \in Keys : l2'[k] = l2[k]
  BY <1>2, Before
<1> QED BY <1>1, <1>2, <1>6, <1>7, <1>8, <1>9, <1>10, ReadingKeeps

LEMMA ComputeFailsKeeps ==
  ASSUME TierInv, NEW p \in Tasks, ComputeFails(p)
  PROVE  TierInv'
<1>1. PICK t : t = task[p]
  OBVIOUS
<1>2. t.op = "read" /\ Finish(p) /\ UNCHANGED <<l1, l2, db, tainted>>
  BY <1>1 DEF ComputeFails
<1>3. Dict(l1', EntryOf(Keys, Versions)) /\ \A k \in Keys : FoundOrCarried(t, k)
  BY <1>2, Untouched
<1>4. l2' \in [Keys -> Versions \cup {NoVersion}] /\ \A k \in Keys : l2'[k] = l2[k]
  BY <1>2, Before
<1> QED BY <1>1, <1>2, <1>3, <1>4, Finished, ReadingKeeps

LEMMA StoreL1Keeps ==
  ASSUME TierInv, NEW p \in Tasks, StoreL1(p)
  PROVE  TierInv'
<1>1. PICK t : t = task[p]
  OBVIOUS
<1>2. /\ t.op = "read" /\ t.step = "computed" /\ Goto(p, "l2set")
      /\ l1' = LruAfterSet(l1, t.key, t.val, TRUE)
      /\ UNCHANGED <<l2, db, tainted>>
  BY <1>1 DEF StoreL1
<1>3. t.key \in Keys /\ t.val \in Versions /\ t.val # NoVersion
  <2>1. t.key \in Keys /\ t.val \in Versions
    BY <1>1, <1>2, ReadOf
  <2> QED BY <2>1 DEF Versions, NoVersion
<1>4. /\ Dict(l1', EntryOf(Keys, Versions))
      /\ \A k \in Keys : FoundOrCarried(t, k)
  BY <1>1, <1>2, <1>3, StoredInL1
<1>5. PICK u \in Operations :
        /\ task' = [task EXCEPT ![p] = u] /\ Carries(u)
        /\ \A k \in Keys : ~Updates(u, k)
        /\ \A k \in Keys : Reads(u, k) => k = t.key /\ u.val \in {NoVersion, l2[k], db[k], t.val}
  <2>1. "l2set" \in {"l2get", "l2got", "compute", "computed", "l2set"}
    OBVIOUS
  <2> QED BY <1>1, <1>2, <1>3, <2>1, ReadMoved
<1>6. l2' \in [Keys -> Versions \cup {NoVersion}] /\ \A k \in Keys : l2'[k] = l2[k]
  BY <1>2, Before
<1> QED BY <1>1, <1>2, <1>4, <1>5, <1>6, ReadingKeeps

LEMMA StoreL2Keeps ==
  ASSUME TierInv, NEW p \in Tasks, StoreL2(p)
  PROVE  TierInv'
<1>1. PICK t : t = task[p]
  OBVIOUS
<1>2. /\ t.op = "read" /\ t.step = "l2set" /\ Finish(p)
      /\ l2' = [l2 EXCEPT ![t.key] = t.val] \/ l2' = l2
      /\ UNCHANGED <<l1, db, tainted>>
  BY <1>1 DEF StoreL2
<1>3. t.key \in Keys /\ t.val \in Versions
  BY <1>1, <1>2, ReadOf
<1>4. /\ l2' \in [Keys -> Versions \cup {NoVersion}]
      /\ \A k \in Keys : l2'[k] = l2[k] \/ (k = t.key /\ l2'[k] = t.val)
  <2>1. l2 \in [Keys -> Versions \cup {NoVersion}]
    BY Before
  <2>2. CASE l2' = [l2 EXCEPT ![t.key] = t.val]
    BY <1>3, <2>1, <2>2
  <2>3. CASE l2' = l2
    BY <2>1, <2>3
  <2> QED BY <1>2, <2>2, <2>3
<1>5. Dict(l1', EntryOf(Keys, Versions)) /\ \A k \in Keys : FoundOrCarried(t, k)
  BY <1>2, Untouched
<1> QED BY <1>1, <1>2, <1>4, <1>5, Finished, ReadingKeeps

-----------------------------------------------------------------------------
(* Updates and invalidations.                                               *)

LEMMA DeleteIs ==
  ASSUME NEW m \in Keys, NEW s \in {"committed", "l2del"},
         NEW u, u = [op |-> "delete", key |-> m, step |-> s]
  PROVE  /\ u \in Operations /\ Carries(u) /\ u.op = "delete" /\ u.step = s
         /\ \A k \in Keys : ~Reads(u, k) /\ (Updates(u, k) <=> k = m)
<1>1. u \in DeleteOps /\ u.op = "delete" /\ u.key = m /\ u.step = s
  BY DEF DeleteOps
<1>2. u \in Operations
  BY <1>1, Kinds
<1>3. KeysOf(u) = {m}
  BY <1>1 DEF KeysOf
<1> QED BY <1>1, <1>2, <1>3 DEF Carries, Reads, Updates

LEMMA BulkIs ==
  ASSUME NEW pat \in Patterns, NEW found \in SUBSET Keys, NEW s \in {"committed", "scan", "l2del"},
         NEW u, u = [op |-> "bulk", pat |-> pat, found |-> found, step |-> s]
  PROVE  /\ u \in Operations /\ Carries(u)
         /\ u.op = "bulk" /\ u.pat = pat /\ u.found = found /\ u.step = s
         /\ \A k \in Keys : ~Reads(u, k) /\ (Updates(u, k) <=> L2Matches(k, pat))
<1>1. /\ u \in BulkOps /\ u.op = "bulk"
      /\ u.pat = pat /\ u.found = found /\ u.step = s
  BY DEF BulkOps
<1>2. u \in Operations
  BY <1>1, Kinds
<1>3. KeysOf(u) = {k \in Keys : L2Matches(k, pat)}
  BY <1>1 DEF KeysOf
<1> QED BY <1>1, <1>2, <1>3 DEF Carries, Reads, Updates

LEMMA ClearIs ==
  ASSUME NEW found \in SUBSET Keys, NEW s \in {"scan", "l2del"},
         NEW u, u = [op |-> "clear", found |-> found, step |-> s]
  PROVE  /\ u \in Operations /\ Carries(u) /\ u.op = "clear"
         /\ \A k \in Keys : ~Reads(u, k) /\ ~Updates(u, k)
<1>1. u \in ClearOps /\ u.op = "clear"
  BY DEF ClearOps
<1>2. u \in Operations
  BY <1>1, Kinds
<1> QED BY <1>1, <1>2 DEF Carries, Reads, Updates

\* What the step of an invalidation from t to u does to a key that it is about.
Invalidates(t, u, k) ==
  /\ Updates(u, k) => Updates(t, k) /\ (u.op = "bulk" => u.pat.star)
  /\ Updates(u, k) /\ u.step # "committed" =>
       /\ k \notin LruKeys(l1')
       /\ u.op = "bulk" /\ u.step = "l2del" /\ k \notin u.found => l2'[k] = NoVersion
  /\ Updates(t, k) /\ ~Updates(u, k) => k \notin LruKeys(l1') /\ l2'[k] = NoVersion

LEMMA InvalidatingKeeps ==
  ASSUME TierInv, NEW p \in Tasks, NEW u \in Operations, task' = [task EXCEPT ![p] = u], Carries(u),
         UNCHANGED db, tainted \subseteq tainted', tainted' \subseteq Keys,
         Dict(l1', EntryOf(Keys, Versions)), Kept(l1', l1),
         l2' \in [Keys -> Versions \cup {NoVersion}],
         \A k \in Keys : l2'[k] \in {l2[k], NoVersion} /\ ~Reads(u, k),
         \A k \in Keys \ tainted' : Quiet(k) => Invalidates(task[p], u, k)
  PROVE  TierInv'
<1>1. ASSUME NEW k \in Keys \ tainted', Quiet(k) PROVE Local(p, u, k)
  <2>1. k \in Keys /\ db'[k] = db[k] /\ l2'[k] \in {l2[k], NoVersion} /\ ~Reads(u, k)
    OBVIOUS
  <2>2. FoundOrCarried(task[p], k)
    BY DEF FoundOrCarried, Kept
  <2>3. Invalidates(task[p], u, k)
    BY <1>1
  <2> QED BY <2>1, <2>2, <2>3 DEF Local, Invalidates
<1>2. db' \in [Keys -> Versions]
  BY Before
<1> QED BY <1>1, <1>2, StepKeeps

\* What is known of a quiet key that task p, in t, is updating.
LEMMA QuietUpdate ==
  ASSUME NEW k, Quiet(k), NEW p \in Tasks, NEW t, t = task[p], Updates(t, k)
  PROVE  /\ t.step # "committed" =>
              /\ k \notin LruKeys(l1)
              /\ t.op = "bulk" /\ t.step = "l2del" /\ k \notin t.found => l2[k] = NoVersion
         /\ t.op = "bulk" => t.pat.star
<1> QED BY DEF Quiet, Cleared

LEMMA SameL1 ==
  ASSUME TierInv, UNCHANGED l1
  PROVE  Dict(l1', EntryOf(Keys, Versions)) /\ Kept(l1', l1)
<1> QED BY DEF TierInv, TierTypes, Kept

LEMMA LessL1 ==
  ASSUME TierInv, NEW ks, l1' = LruWithout(l1, ks)
  PROVE  /\ Dict(l1', EntryOf(Keys, Versions)) /\ Kept(l1', l1)
         /\ LruKeys(l1') = LruKeys(l1) \ ks
<1>1. PICK f : f = LruWithout(l1, ks)
  OBVIOUS
<1>2. Dict(l1, EntryOf(Keys, Versions))
  BY DEF TierInv, TierTypes
<1>3. /\ Dict(f, EntryOf(Keys, Versions)) /\ Among(f, l1, ks)
      /\ LruKeys(f) = LruKeys(l1) \ ks
  BY <1>1, <1>2, WithoutIsDict
<1>4. Kept(f, l1)
  BY <1>3 DEF Among, Kept
<1> QED BY <1>1, <1>3, <1>4

LEMMA SameL2 ==
  ASSUME TierInv, UNCHANGED l2
  PROVE  l2' \in [Keys -> Versions \cup {NoVersion}] /\ \A k \in Keys : l2'[k] \in {l2[k], NoVersion}
<1> QED BY DEF TierInv, TierTypes

LEMMA UpdateOneKeeps ==
  ASSUME TierInv, NEW p \in Tasks, NEW m \in Keys, UpdateOne(p, m)
  PROVE  TierInv'
<1>1. PICK u : u = [op |-> "delete", key |-> m, step |-> "committed"]
  OBVIOUS
<1>2. /\ task[p] = Idle /\ db[m] < MaxVersion /\ db' = [db EXCEPT ![m] = @ + 1]
      /\ task' = [task EXCEPT ![p] = u]
      /\ tainted' = tainted \cup {k \in {m} : Reading(k)}
      /\ UNCHANGED <<l1, l2>>
  BY <1>1 DEF UpdateOne
<1>3. /\ u \in Operations /\ Carries(u) /\ u.op = "delete" /\ u.step = "committed"
      /\ \A k \in Keys : ~Reads(u, k) /\ (Updates(u, k) <=> k = m)
  <2>1. "committed" \in {"committed", "l2del"}
    OBVIOUS
  <2> QED BY <1>1, <2>1, DeleteIs
<1>4. db \in [Keys -> Versions]
  BY Before
<1>5. db' \in [Keys -> Versions] /\ \A k \in Keys : k # m => db'[k] = db[k]
  <2>1. db[m] \in Versions
    BY <1>4
  <2>2. db[m] + 1 \in Versions
    BY <1>2, <2>1, MaxVersionAssumption DEF Versions
  <2> QED BY <1>2, <1>4, <2>2
<1>6. Dict(l1', EntryOf(Keys, Versions)) /\ Kept(l1', l1)
  BY <1>2, SameL1
<1>7. l2' \in [Keys -> Versions \cup {NoVersion}] /\ \A k \in Keys : l2'[k] = l2[k]
  BY <1>2, Before
<1>8. ASSUME NEW k \in Keys \ tainted', Quiet(k) PROVE Local(p, u, k) \/ Begins(p, u, k)
  <2>1. CASE k = m
    <3>1. \A q \in Tasks : ~Reads(task[q], k)
      BY <1>2, <2>1 DEF Reading, Reads
    <3>2. Updates(u, k) /\ u.step = "committed" /\ u.op = "delete"
      BY <1>3, <2>1
    <3>3. Begins(p, u, k)
      BY <1>2, <1>7, <3>1, <3>2 DEF Begins
    <3> QED BY <3>3
  <2>2. CASE k # m
    <3>1. ~Updates(u, k) /\ ~Reads(u, k) /\ db'[k] = db[k] /\ l2'[k] = l2[k]
      BY <1>3, <1>5, <1>7, <2>2
    <3>2. FoundOrCarried(task[p], k)
      BY <1>6 DEF FoundOrCarried, Kept
    <3>3. ~Updates(task[p], k)
      BY <1>2, IdleIs
    <3>4. Local(p, u, k)
      BY <3>1, <3>2, <3>3 DEF Local
    <3> QED BY <3>4
  <2> QED BY <2>1, <2>2
<1>9. tainted \subseteq tainted' /\ tainted' \subseteq Keys
  BY <1>2, Before
<1> QED BY <1>2, <1>3, <1>5, <1>6, <1>7, <1>8, <1>9, StepKeeps

LEMMA UpdateManyKeeps ==
  ASSUME TierInv, NEW p \in Tasks, NEW pat \in Patterns, UpdateMany(p, pat)
  PROVE  TierInv'
<1>1. PICK u : u = [op |-> "bulk", pat |-> pat, found |-> {}, step |-> "committed"]
  OBVIOUS
<1>2. /\ task[p] = Idle /\ task' = [task EXCEPT ![p] = u]
      /\ \A k \in Keys : L2Matches(k, pat) => db[k] < MaxVersion
      /\ db' = [k \in Keys |-> IF k \in {m \in Keys : L2Matches(m, pat)} THEN db[k] + 1 ELSE db[k]]
      /\ tainted' = tainted \cup
           {k \in {m \in Keys : L2Matches(m, pat)} : Reading(k) \/ ~L1Matches(k, pat)}
      /\ UNCHANGED <<l1, l2>>
  BY <1>1 DEF UpdateMany
<1>3. /\ u \in Operations /\ Carries(u) /\ u.op = "bulk" /\ u.pat = pat /\ u.step = "committed"
      /\ \A k \in Keys : ~Reads(u, k) /\ (Updates(u, k) <=> L2Matches(k, pat))
  <2>1. "committed" \in {"committed", "scan", "l2del"} /\ {} \in SUBSET Keys
    OBVIOUS
  <2> QED BY <1>1, <2>1, BulkIs
<1>4. db \in [Keys -> Versions]
  BY Before
<1>5. db' \in [Keys -> Versions] /\ \A k \in Keys : ~L2Matches(k, pat) => db'[k] = db[k]
  <2>1. ASSUME NEW k \in Keys, L2Matches(k, pat) PROVE db[k] + 1 \in Versions
    <3>1. db[k] \in Versions /\ db[k] < MaxVersion
      BY <1>2, <1>4, <2>1
    <3> QED BY <3>1, MaxVersionAssumption DEF Versions
  <2> QED BY <1>2, <1>4, <2>1
<1>6. Dict(l1', EntryOf(Keys, Versions)) /\ Kept(l1', l1)
  BY <1>2, SameL1
<1>7. l2' \in [Keys -> Versions \cup {NoVersion}] /\ \A k \in Keys : l2'[k] = l2[k]
  BY <1>2, Before
<1>8. ASSUME NEW k \in Keys \ tainted', Quiet(k) PROVE Local(p, u, k) \/ Begins(p, u, k)
  <2>1. CASE L2Matches(k, pat)
    <3>1. \A q \in Tasks : ~Reads(task[q], k)
      BY <1>2, <2>1 DEF Reading, Reads
    <3>2. pat.star
      BY <1>2, <2>1 DEF L1Matches
    <3>3. Updates(u, k) /\ u.step = "committed" /\ u.pat = pat
      BY <1>3, <2>1
    <3>4. Begins(p, u, k)
      BY <1>2, <1>7, <3>1, <3>2, <3>3 DEF Begins
    <3> QED BY <3>4
  <2>2. CASE ~L2Matches(k, pat)
    <3>1. ~Updates(u, k) /\ ~Reads(u, k) /\ db'[k] = db[k] /\ l2'[k] = l2[k]
      BY <1>3, <1>5, <1>7, <2>2
    <3>2. FoundOrCarried(task[p], k)
      BY <1>6 DEF FoundOrCarried, Kept
    <3>3. ~Updates(task[p], k)
      BY <1>2, IdleIs
    <3>4. Local(p, u, k)
      BY <3>1, <3>2, <3>3 DEF Local
    <3> QED BY <3>4
  <2> QED BY <2>1, <2>2
<1>9. tainted \subseteq tainted' /\ tainted' \subseteq Keys
  BY <1>2, Before
<1> QED BY <1>2, <1>3, <1>5, <1>6, <1>7, <1>8, <1>9, StepKeeps

\* What a deletion, an invalidation under a prefix and a clearing are.
LEMMA DeleteOf ==
  ASSUME TierInv, NEW p \in Tasks, NEW t, t = task[p], t.op = "delete"
  PROVE  /\ t.key \in Keys /\ t = [op |-> "delete", key |-> t.key, step |-> t.step]
         /\ \A k \in Keys : Updates(t, k) <=> k = t.key
<1>1. t \in Operations
  BY Before
<1>2. t \in DeleteOps
  BY <1>1, Kinds
<1>3. t.key \in Keys /\ t = [op |-> "delete", key |-> t.key, step |-> t.step]
  BY <1>2 DEF DeleteOps
<1>4. KeysOf(t) = {t.key}
  BY DEF KeysOf
<1> QED BY <1>3, <1>4 DEF Updates

LEMMA BulkOf ==
  ASSUME TierInv, NEW p \in Tasks, NEW t, t = task[p], t.op = "bulk"
  PROVE  /\ t.pat \in Patterns /\ t.found \in SUBSET Keys
         /\ t = [op |-> "bulk", pat |-> t.pat, found |-> t.found, step |-> t.step]
         /\ \A k \in Keys : Updates(t, k) <=> L2Matches(k, t.pat)
         /\ KeysOf(t) = {k \in Keys : L2Matches(k, t.pat)}
<1>1. t \in Operations
  BY Before
<1>2. t \in BulkOps
  BY <1>1, Kinds
<1>3. /\ t.pat \in Patterns /\ t.found \in SUBSET Keys
      /\ t = [op |-> "bulk", pat |-> t.pat, found |-> t.found, step |-> t.step]
  BY <1>2 DEF BulkOps
<1>4. KeysOf(t) = {k \in Keys : L2Matches(k, t.pat)}
  BY DEF KeysOf
<1> QED BY <1>3, <1>4 DEF Updates

LEMMA ClearOf ==
  ASSUME TierInv, NEW p \in Tasks, NEW t, t = task[p], t.op = "clear"
  PROVE  /\ t.found \in SUBSET Keys
         /\ t = [op |-> "clear", found |-> t.found, step |-> t.step]
         /\ \A k \in Keys : ~Updates(t, k)
         /\ KeysOf(t) = {}
<1>1. t \in Operations
  BY Before
<1>2. t \in ClearOps
  BY <1>1, Kinds
<1>3. t.found \in SUBSET Keys /\ t = [op |-> "clear", found |-> t.found, step |-> t.step]
  BY <1>2 DEF ClearOps
<1>4. KeysOf(t) = {}
  BY DEF KeysOf
<1> QED BY <1>3, <1>4 DEF Updates

LEMMA DeleteL1Keeps ==
  ASSUME TierInv, NEW p \in Tasks, DeleteL1(p)
  PROVE  TierInv'
<1>1. PICK t : t = task[p]
  OBVIOUS
<1>2. /\ t.op = "delete" /\ t.step = "committed" /\ Goto(p, "l2del")
      /\ l1' = LruWithout(l1, {t.key}) /\ UNCHANGED <<l2, db, tainted>>
  BY <1>1 DEF DeleteL1, WithoutInL1, LruAfterDelete
<1>3. /\ t.key \in Keys /\ t = [op |-> "delete", key |-> t.key, step |-> t.step]
      /\ \A k \in Keys : Updates(t, k) <=> k = t.key
  BY <1>1, <1>2, DeleteOf
<1>4. PICK m, s : m = t.key /\ s = t.step
  OBVIOUS
<1>5. PICK u : u = [op |-> "delete", key |-> m, step |-> "l2del"]
  OBVIOUS
<1>6. task' = [task EXCEPT ![p] = u]
  <2>1. t = [op |-> "delete", key |-> m, step |-> s]
    BY <1>3, <1>4
  <2>2. u = [t EXCEPT !.step = "l2del"]
    BY <1>5, <2>1
  <2> QED BY <1>1, <1>2, <2>2, Moved
<1>7. /\ u \in Operations /\ Carries(u) /\ u.op = "delete"
      /\ \A k \in Keys : ~Reads(u, k) /\ (Updates(u, k) <=> k = m)
  <2>1. "l2del" \in {"committed", "l2del"} /\ m \in Keys
    BY <1>3, <1>4
  <2> QED BY <1>5, <2>1, DeleteIs
<1>8. /\ Dict(l1', EntryOf(Keys, Versions)) /\ Kept(l1', l1)
      /\ LruKeys(l1') = LruKeys(l1) \ {m}
  BY <1>2, <1>4, LessL1
<1>9. /\ l2' \in [Keys -> Versions \cup {NoVersion}]
      /\ \A k \in Keys : l2'[k] \in {l2[k], NoVersion}
  BY <1>2, SameL2
<1>10. ASSUME NEW k \in Keys \ tainted', Quiet(k) PROVE Invalidates(t, u, k)
  BY <1>3, <1>4, <1>7, <1>8 DEF Invalidates
<1>11. UNCHANGED <<db, tainted>> /\ tainted' \subseteq Keys
  BY <1>2, Before
<1> QED BY <1>1, <1>6, <1>7, <1>8, <1>9, <1>10, <1>11, InvalidatingKeeps

LEMMA DeleteL2Keeps ==
  ASSUME TierInv, NEW p \in Tasks, DeleteL2(p)
  PROVE  TierInv'
<1>1. PICK t : t = task[p]
  OBVIOUS
<1>2. /\ t.op = "delete" /\ t.step = "l2del" /\ Finish(p)
      /\ l2' = [l2 EXCEPT ![t.key] = NoVersion] /\ UNCHANGED <<l1, db, tainted>>
  BY <1>1 DEF DeleteL2
<1>3. t.key \in Keys /\ \A k \in Keys : Updates(t, k) <=> k = t.key
  BY <1>1, <1>2, DeleteOf
<1>4. Dict(l1', EntryOf(Keys, Versions)) /\ Kept(l1', l1)
  BY <1>2, SameL1
<1>5. /\ l2' \in [Keys -> Versions \cup {NoVersion}]
      /\ \A k \in Keys : l2'[k] \in {l2[k], NoVersion}
      /\ l2'[t.key] = NoVersion
  BY <1>2, <1>3, Before
<1>6. ASSUME NEW k \in Keys \ tainted', Quiet(k) PROVE Invalidates(t, Idle, k)
  <2>1. ~Updates(Idle, k)
    BY IdleIs
  <2>2. CASE Updates(t, k)
    <3>1. k = t.key
      BY <1>3, <2>2
    <3>2. k \notin LruKeys(l1)
      BY <1>1, <1>2, <1>6, <2>2, QuietUpdate
    <3> QED BY <1>2, <1>5, <2>1, <3>1, <3>2 DEF Invalidates
  <2>3. CASE ~Updates(t, k)
    BY <2>1, <2>3 DEF Invalidates
  <2> QED BY <2>2, <2>3
<1>7. UNCHANGED <<db, tainted>> /\ tainted' \subseteq Keys
  BY <1>2, Before
<1> QED BY <1>1, <1>2, <1>4, <1>5, <1>6, <1>7, Finished, InvalidatingKeeps

LEMMA DeleteL2FailsKeeps ==
  ASSUME TierInv, NEW p \in Tasks, DeleteL2Fails(p)
  PROVE  TierInv'
<1>1. PICK t : t = task[p]
  OBVIOUS
<1>2. /\ t.op = "delete" /\ Finish(p)
      /\ tainted' = tainted \cup {t.key} /\ UNCHANGED <<l1, l2, db>>
  BY <1>1 DEF DeleteL2Fails
<1>3. t.key \in Keys /\ \A k \in Keys : Updates(t, k) <=> k = t.key
  BY <1>1, <1>2, DeleteOf
<1>4. Dict(l1', EntryOf(Keys, Versions)) /\ Kept(l1', l1)
  BY <1>2, SameL1
<1>5. /\ l2' \in [Keys -> Versions \cup {NoVersion}]
      /\ \A k \in Keys : l2'[k] \in {l2[k], NoVersion}
  BY <1>2, SameL2
<1>6. ASSUME NEW k \in Keys \ tainted', Quiet(k) PROVE Invalidates(t, Idle, k)
  <2>1. ~Updates(Idle, k) /\ ~Updates(t, k)
    BY <1>2, <1>3, IdleIs
  <2> QED BY <2>1 DEF Invalidates
<1>7. UNCHANGED db /\ tainted \subseteq tainted' /\ tainted' \subseteq Keys
  BY <1>2, <1>3, Before
<1> QED BY <1>1, <1>2, <1>4, <1>5, <1>6, <1>7, Finished, InvalidatingKeeps

LEMMA DeletePatternL1Keeps ==
  ASSUME TierInv, NEW p \in Tasks, DeletePatternL1(p)
  PROVE  TierInv'
<1>1. PICK t : t = task[p]
  OBVIOUS
<1>2. /\ t.op = "bulk" /\ t.step = "committed" /\ Goto(p, "scan")
      /\ l1' = LruWithout(l1, {k \in Keys : L1Matches(k, t.pat)}) /\ UNCHANGED <<l2, db, tainted>>
  BY <1>1 DEF DeletePatternL1
<1>3. /\ t.pat \in Patterns /\ t.found \in SUBSET Keys
      /\ t = [op |-> "bulk", pat |-> t.pat, found |-> t.found, step |-> t.step]
      /\ \A k \in Keys : Updates(t, k) <=> L2Matches(k, t.pat)
  BY <1>1, <1>2, BulkOf
<1>4. PICK pat, found, s : pat = t.pat /\ found = t.found /\ s = t.step
  OBVIOUS
<1>5. PICK u : u = [op |-> "bulk", pat |-> pat, found |-> found, step |-> "scan"]
  OBVIOUS
<1>6. task' = [task EXCEPT ![p] = u]
  <2>1. t = [op |-> "bulk", pat |-> pat, found |-> found, step |-> s]
    BY <1>3, <1>4
  <2>2. u = [t EXCEPT !.step = "scan"]
    BY <1>5, <2>1
  <2> QED BY <1>1, <1>2, <2>2, Moved
<1>7. /\ u \in Operations /\ Carries(u) /\ u.op = "bulk" /\ u.pat = pat /\ u.step = "scan"
      /\ \A k \in Keys : ~Reads(u, k) /\ (Updates(u, k) <=> L2Matches(k, pat))
  <2>1. "scan" \in {"committed", "scan", "l2del"} /\ pat \in Patterns /\ found \in SUBSET Keys
    BY <1>3, <1>4
  <2> QED BY <1>5, <2>1, BulkIs
<1>8. /\ Dict(l1', EntryOf(Keys, Versions)) /\ Kept(l1', l1)
      /\ LruKeys(l1') = LruKeys(l1) \ {k \in Keys : L1Matches(k, pat)}
  BY <1>2, <1>4, LessL1
<1>9. /\ l2' \in [Keys -> Versions \cup {NoVersion}]
      /\ \A k \in Keys : l2'[k] \in {l2[k], NoVersion}
  BY <1>2, SameL2
<1>10. ASSUME NEW k \in Keys \ tainted', Quiet(k) PROVE Invalidates(t, u, k)
  <2>1. CASE Updates(t, k)
    <3>1. t.pat.star
      BY <1>1, <1>2, <1>10, <2>1, QuietUpdate
    <3>2. L2Matches(k, pat) /\ L1Matches(k, pat)
      BY <1>3, <1>4, <2>1, <3>1 DEF L1Matches, L2Matches
    <3>3. k \notin LruKeys(l1')
      BY <1>8, <3>2
    <3> QED BY <1>4, <1>7, <2>1, <3>1, <3>2, <3>3 DEF Invalidates
  <2>2. CASE ~Updates(t, k)
    <3>1. ~Updates(u, k)
      BY <1>3, <1>4, <1>7, <2>2
    <3> QED BY <2>2, <3>1 DEF Invalidates
  <2> QED BY <2>1, <2>2
<1>11. UNCHANGED <<db, tainted>> /\ tainted' \subseteq Keys
  BY <1>2, Before
<1> QED BY <1>1, <1>6, <1>7, <1>8, <1>9, <1>10, <1>11, InvalidatingKeeps

LEMMA ClearL1Keeps ==
  ASSUME TierInv, NEW p \in Tasks, ClearL1(p)
  PROVE  TierInv'
<1>1. PICK u : u = [op |-> "clear", found |-> {}, step |-> "scan"]
  OBVIOUS
<1>2. /\ task[p] = Idle /\ task' = [task EXCEPT ![p] = u]
      /\ l1' = <<>> /\ UNCHANGED <<l2, db, tainted>>
  BY <1>1 DEF ClearL1
<1>3. /\ u \in Operations /\ Carries(u)
      /\ \A k \in Keys : ~Reads(u, k) /\ ~Updates(u, k)
  <2>1. "scan" \in {"scan", "l2del"} /\ {} \in SUBSET Keys
    OBVIOUS
  <2> QED BY <1>1, <2>1, ClearIs
<1>4. Dict(l1', EntryOf(Keys, Versions)) /\ Kept(l1', l1)
  BY <1>2, EmptyIsDict DEF Kept
<1>5. /\ l2' \in [Keys -> Versions \cup {NoVersion}]
      /\ \A k \in Keys : l2'[k] \in {l2[k], NoVersion}
  BY <1>2, SameL2
<1>6. ASSUME NEW k \in Keys \ tainted', Quiet(k) PROVE Invalidates(task[p], u, k)
  <2>1. ~Updates(task[p], k) /\ ~Updates(u, k)
    BY <1>2, <1>3, IdleIs
  <2> QED BY <2>1 DEF Invalidates
<1>7. UNCHANGED <<db, tainted>> /\ tainted' \subseteq Keys
  BY <1>2, Before
<1> QED BY <1>2, <1>3, <1>4, <1>5, <1>6, <1>7, InvalidatingKeeps

\* Task p, in t, has found keys of L2 and goes on to delete them.
Finds(p, found) == task' = [task EXCEPT ![p].found = found, ![p].step = "l2del"]
WithFound(t, found) == [t EXCEPT !.found = found]
AtL2Del(t) == [t EXCEPT !.step = "l2del"]

LEMMA TaskFinds ==
  ASSUME TierInv, NEW p \in Tasks, NEW t, t = task[p], NEW found, Finds(p, found)
  PROVE  task' = [task EXCEPT ![p] = AtL2Del(WithFound(t, found))]
<1>1. task \in [Tasks -> Operations]
  BY Before
<1>2. task' = [task EXCEPT ![p] = [[@ EXCEPT !.found = found] EXCEPT !.step = "l2del"]]
  BY <1>1 DEF Finds
<1> QED BY <1>1, <1>2 DEF AtL2Del, WithFound

LEMMA ScanKeeps ==
  ASSUME TierInv, NEW p \in Tasks, Scan(p)
  PROVE  TierInv'
<1>1. PICK t : t = task[p]
  OBVIOUS
<1>2. PICK found : found = {k \in Matched(t) : l2[k] # NoVersion}
  OBVIOUS
<1>3. /\ t.op \in {"bulk", "clear"} /\ t.step = "scan" /\ UNCHANGED <<l1, l2, db, tainted>>
      /\ IF found = {} THEN Finish(p) ELSE Finds(p, found)
  BY <1>1, <1>2 DEF Scan, Finds
<1>4. found \in SUBSET Keys
  BY <1>1, <1>2, <1>3, BulkOf DEF Matched
<1>5. Dict(l1', EntryOf(Keys, Versions)) /\ Kept(l1', l1)
  BY <1>3, SameL1
<1>6. /\ l2' \in [Keys -> Versions \cup {NoVersion}]
      /\ \A k \in Keys : l2'[k] \in {l2[k], NoVersion}
  BY <1>3, SameL2
<1>7. UNCHANGED <<db, tainted>> /\ tainted' \subseteq Keys
  BY <1>3, Before
<1>8. ASSUME NEW k \in Keys \ tainted', Quiet(k), Updates(t, k)
      PROVE  /\ t.op = "bulk" /\ t.pat.star /\ k \notin LruKeys(l1')
             /\ k \notin found => l2'[k] = NoVersion
  <2>1. t.op = "bulk"
    BY <1>1, <1>3, <1>8, ClearOf
  <2>2. k \in Matched(t)
    BY <1>1, <1>8, <2>1, BulkOf DEF Matched
  <2>3. t.pat.star /\ k \notin LruKeys(l1)
    BY <1>1, <1>3, <1>8, <2>1, QuietUpdate
  <2> QED BY <1>2, <1>3, <2>1, <2>2, <2>3
<1>9. CASE found = {}
  <2>1. Finish(p)
    BY <1>3, <1>9
  <2>2. ASSUME NEW k \in Keys \ tainted', Quiet(k) PROVE Invalidates(t, Idle, k)
    <3>1. ~Updates(Idle, k)
      BY IdleIs
    <3>2. Updates(t, k) => k \notin LruKeys(l1') /\ l2'[k] = NoVersion
      BY <1>8, <1>9, <2>2
    <3> QED BY <3>1, <3>2 DEF Invalidates
  <2> QED BY <1>1, <1>5, <1>6, <1>7, <2>1, <2>2, Finished, InvalidatingKeeps
<1>10. CASE found # {} /\ t.op = "bulk"
  <2>1. /\ t.pat \in Patterns /\ t.found \in SUBSET Keys
        /\ t = [op |-> "bulk", pat |-> t.pat, found |-> t.found, step |-> t.step]
        /\ \A k \in Keys : Updates(t, k) <=> L2Matches(k, t.pat)
    BY <1>1, <1>10, BulkOf
  <2>2. PICK pat, old, s : pat = t.pat /\ old = t.found /\ s = t.step
    OBVIOUS
  <2>3. t = [op |-> "bulk", pat |-> pat, found |-> old, step |-> s]
    BY <2>1, <2>2
  <2>4. PICK u : u = [op |-> "bulk", pat |-> pat, found |-> found, step |-> "l2del"]
    OBVIOUS
  <2>5. task' = [task EXCEPT ![p] = u]
    <3>1. PICK r : r = WithFound(t, found)
      OBVIOUS
    <3>2. r = [op |-> "bulk", pat |-> pat, found |-> found, step |-> s]
      BY <2>3, <3>1 DEF WithFound
    <3>3. AtL2Del(r) = u
      BY <2>4, <3>2 DEF AtL2Del
    <3>4. Finds(p, found)
      BY <1>3, <1>10
    <3> QED BY <1>1, <3>1, <3>3, <3>4, TaskFinds
  <2>6. /\ u \in Operations /\ Carries(u) /\ u.op = "bulk" /\ u.pat = pat /\ u.found = found
        /\ \A k \in Keys : ~Reads(u, k) /\ (Updates(u, k) <=> L2Matches(k, pat))
    <3>1. "l2del" \in {"committed", "scan", "l2del"} /\ pat \in Patterns
      BY <2>1, <2>2
    <3> QED BY <1>4, <2>4, <3>1, BulkIs
  <2>7. ASSUME NEW k \in Keys \ tainted', Quiet(k) PROVE Invalidates(t, u, k)
    <3>1. Updates(u, k) <=> Updates(t, k)
      BY <2>1, <2>2, <2>6
    <3>2. Updates(t, k) => /\ t.pat.star /\ k \notin LruKeys(l1')
                           /\ k \notin found => l2'[k] = NoVersion
      BY <1>8, <2>7
    <3> QED BY <2>2, <2>6, <3>1, <3>2 DEF Invalidates
  <2> QED BY <1>1, <1>5, <1>6, <1>7, <2>5, <2>6, <2>7, InvalidatingKeeps
<1>11. CASE found # {} /\ t.op = "clear"
  <2>1. /\ t.found \in SUBSET Keys
        /\ t = [op |-> "clear", found |-> t.found, step |-> t.step]
        /\ \A k \in Keys : ~Updates(t, k)
    BY <1>1, <1>11, ClearOf
  <2>2. PICK old, s : old = t.found /\ s = t.step
    OBVIOUS
  <2>3. t = [op |-> "clear", found |-> old, step |-> s]
    BY <2>1, <2>2
  <2>4. PICK u : u = [op |-> "clear", found |-> found, step |-> "l2del"]
    OBVIOUS
  <2>5. task' = [task EXCEPT ![p] = u]
    <3>1. PICK r : r = WithFound(t, found)
      OBVIOUS
    <3>2. r = [op |-> "clear", found |-> found, step |-> s]
      BY <2>3, <3>1 DEF WithFound
    <3>3. AtL2Del(r) = u
      BY <2>4, <3>2 DEF AtL2Del
    <3>4. Finds(p, found)
      BY <1>3, <1>11
    <3> QED BY <1>1, <3>1, <3>3, <3>4, TaskFinds
  <2>6. /\ u \in Operations /\ Carries(u)
        /\ \A k \in Keys : ~Reads(u, k) /\ ~Updates(u, k)
    <3>1. "l2del" \in {"scan", "l2del"}
      OBVIOUS
    <3> QED BY <1>4, <2>4, <3>1, ClearIs
  <2>7. ASSUME NEW k \in Keys \ tainted', Quiet(k) PROVE Invalidates(t, u, k)
    BY <2>1, <2>6 DEF Invalidates
  <2> QED BY <1>1, <1>5, <1>6, <1>7, <2>5, <2>6, <2>7, InvalidatingKeeps
<1> QED BY <1>3, <1>9, <1>10, <1>11

LEMMA DeleteFoundKeeps ==
  ASSUME TierInv, NEW p \in Tasks, DeleteFound(p)
  PROVE  TierInv'
<1>1. PICK t : t = task[p]
  OBVIOUS
<1>2. /\ t.op \in {"bulk", "clear"} /\ t.step = "l2del" /\ Finish(p)
      /\ l2' = [k \in Keys |-> IF k \in t.found THEN NoVersion ELSE l2[k]]
      /\ UNCHANGED <<l1, db, tainted>>
  BY <1>1 DEF DeleteFound, WithoutInL2
<1>3. Dict(l1', EntryOf(Keys, Versions)) /\ Kept(l1', l1)
  BY <1>2, SameL1
<1>4. /\ l2' \in [Keys -> Versions \cup {NoVersion}]
      /\ \A k \in Keys : l2'[k] \in {l2[k], NoVersion} /\ (k \in t.found => l2'[k] = NoVersion)
  BY <1>2, Before
<1>5. ASSUME NEW k \in Keys \ tainted', Quiet(k) PROVE Invalidates(t, Idle, k)
  <2>1. ~Updates(Idle, k)
    BY IdleIs
  <2>2. CASE Updates(t, k)
    <3>1. t.op = "bulk"
      BY <1>1, <1>2, <2>2, ClearOf
    <3>2. k \notin LruKeys(l1) /\ (k \notin t.found => l2[k] = NoVersion)
      BY <1>1, <1>2, <1>5, <2>2, <3>1, QuietUpdate
    <3>3. k \notin LruKeys(l1') /\ l2'[k] = NoVersion
      BY <1>2, <1>4, <3>2
    <3> QED BY <2>1, <3>3 DEF Invalidates
  <2>3. CASE ~Updates(t, k)
    BY <2>1, <2>3 DEF Invalidates
  <2> QED BY <2>2, <2>3
<1>6. UNCHANGED <<db, tainted>> /\ tainted' \subseteq Keys
  BY <1>2, Before
<1> QED BY <1>1, <1>2, <1>3, <1>4, <1>5, <1>6, Finished, InvalidatingKeeps

LEMMA DeletePatternFailsKeeps ==
  ASSUME TierInv, NEW p \in Tasks, DeletePatternFails(p)
  PROVE  TierInv'
<1>1. PICK t : t = task[p]
  OBVIOUS
<1>2. /\ t.op \in {"bulk", "clear"} /\ Finish(p)
      /\ tainted' = tainted \cup KeysOf(t) /\ UNCHANGED <<l1, l2, db>>
  BY <1>1 DEF DeletePatternFails
<1>3. KeysOf(t) \subseteq Keys
  BY <1>1, <1>2, BulkOf, ClearOf
<1>4. Dict(l1', EntryOf(Keys, Versions)) /\ Kept(l1', l1)
  BY <1>2, SameL1
<1>5. /\ l2' \in [Keys -> Versions \cup {NoVersion}]
      /\ \A k \in Keys : l2'[k] \in {l2[k], NoVersion}
  BY <1>2, SameL2
<1>6. ASSUME NEW k \in Keys \ tainted', Quiet(k) PROVE Invalidates(t, Idle, k)
  <2>1. ~Updates(Idle, k)
    BY IdleIs
  <2>2. ~Updates(t, k)
    BY <1>2 DEF Updates
  <2> QED BY <2>1, <2>2 DEF Invalidates
<1>7. UNCHANGED db /\ tainted \subseteq tainted' /\ tainted' \subseteq Keys
  BY <1>2, <1>3, Before
<1> QED BY <1>1, <1>2, <1>4, <1>5, <1>6, <1>7, Finished, InvalidatingKeeps

LEMMA ExpireL1Keeps ==
  ASSUME TierInv, NEW m \in Keys, ExpireL1(m)
  PROVE  TierInv'
<1>1. l1' = LruExpired(l1, m) /\ UNCHANGED <<l2, db, task, tainted>>
  BY DEF ExpireL1
<1>2. PICK g : g = LruExpired(l1, m)
  OBVIOUS
<1>3. TierTypes
  BY DEF TierInv
<1>4. /\ Dict(g, EntryOf(Keys, Versions)) /\ DOMAIN g = DOMAIN l1
      /\ \A i \in DOMAIN l1 : /\ g[i].key = l1[i].key /\ g[i].val = l1[i].val
                              /\ g[i].live <=> l1[i].live /\ l1[i].key # m
  BY <1>2, <1>3, ExpiredIsDict DEF TierTypes
<1>5. TierTypes'
  BY <1>1, <1>2, <1>3, <1>4 DEF TierTypes
<1>6. ASSUME NEW k \in Keys \ tainted' PROVE Quiet(k)'
  <2>1. k \in Keys /\ Quiet(k)
    BY <1>1 DEF TierInv
  <2>2. l2'[k] \in {l2[k], NoVersion}
    BY <1>1
  <2>3. \A i \in DOMAIN l1' : l1'[i].key = k =>
           \E j \in DOMAIN l1 : l1[j].key = k /\ l1'[i].val = l1[j].val /\ (l1'[i].live => l1[j].live)
    BY <1>1, <1>2, <1>4
  <2> QED BY <1>1, <2>1, <2>2, <2>3, LossKeepsQuiet
<1> QED BY <1>5, <1>6 DEF TierInv

LEMMA ExpireL2Keeps ==
  ASSUME TierInv, NEW m \in Keys, ExpireL2(m)
  PROVE  TierInv'
<1>1. l2' = [l2 EXCEPT ![m] = NoVersion] /\ UNCHANGED <<l1, db, task, tainted>>
  BY DEF ExpireL2
<1>2. TierTypes
  BY DEF TierInv
<1>3. /\ l2' \in [Keys -> Versions \cup {NoVersion}]
      /\ \A k \in Keys : l2'[k] \in {l2[k], NoVersion}
  BY <1>1, <1>2 DEF TierTypes
<1>4. TierTypes'
  BY <1>1, <1>2, <1>3 DEF TierTypes
<1>5. ASSUME NEW k \in Keys \ tainted' PROVE Quiet(k)'
  <2>1. k \in Keys /\ Quiet(k)
    BY <1>1 DEF TierInv
  <2>2. l2'[k] \in {l2[k], NoVersion}
    BY <1>3, <2>1
  <2>3. \A i \in DOMAIN l1' : l1'[i].key = k =>
           \E j \in DOMAIN l1 : l1[j].key = k /\ l1'[i].val = l1[j].val /\ (l1'[i].live => l1[j].live)
    BY <1>1
  <2> QED BY <1>1, <2>1, <2>2, <2>3, LossKeepsQuiet
<1> QED BY <1>4, <1>5 DEF TierInv

LEMMA TiersStart == Init => TierInv
<1> SUFFICES ASSUME Init PROVE TierInv
  OBVIOUS
<1>1. /\ l1 = <<>> /\ l2 = [k \in Keys |-> NoVersion] /\ db = [k \in Keys |-> 1]
      /\ task = [p \in Tasks |-> Idle] /\ tainted = {}
  BY DEF Init
<1>2. Dict(l1, EntryOf(Keys, Versions)) /\ DOMAIN l1 = {}
  BY <1>1, EmptyIsDict
<1>3. 1 \in Versions
  BY MaxVersionAssumption DEF Versions
<1>4. \A p \in Tasks : task[p] = Idle /\ \A k \in Keys : ~Reads(task[p], k) /\ ~Updates(task[p], k)
  BY <1>1, IdleIs
<1>5. TierTypes
  BY <1>1, <1>2, <1>3, <1>4, IdleIs DEF TierTypes
<1>6. ASSUME NEW k \in Keys PROVE Quiet(k)
  <2>1. Current(k)
    BY <1>1, <1>2, <1>4 DEF Current
  <2> QED BY <1>4, <2>1 DEF Quiet
<1> QED BY <1>5, <1>6 DEF TierInv

LEMMA TiersStep == TierInv /\ [Next]_vars => TierInv'
<1> SUFFICES ASSUME TierInv, [Next]_vars PROVE TierInv'
  OBVIOUS
<1>1. CASE UNCHANGED vars
  <2>1. UNCHANGED <<l1, l2, db, task, tainted>>
    BY <1>1 DEF vars
  <2>2. TierTypes'
    BY <2>1 DEF TierInv, TierTypes
  <2>3. \A k \in Keys : Quiet(k) => Quiet(k)'
    BY <2>1 DEF Quiet, Current, Cleared
  <2> QED BY <2>1, <2>2, <2>3 DEF TierInv
<1>2. CASE Next
  <2>1. ASSUME NEW p \in Tasks, NEW k \in Keys,
               ReadHit(p, k) \/ ReadMiss(p, k) \/ Warm(p, k) \/ UpdateOne(p, k)
        PROVE  TierInv'
    BY <2>1, ReadHitKeeps, ReadMissKeeps, WarmKeeps, UpdateOneKeeps
  <2>2. ASSUME NEW p \in Tasks, NEW pat \in Patterns, UpdateMany(p, pat) PROVE TierInv'
    BY <2>2, UpdateManyKeeps
  <2>3. ASSUME NEW p \in Tasks, ClearL1(p) PROVE TierInv'
    BY <2>3, ClearL1Keeps
  <2>4. ASSUME NEW p \in Tasks, Advance(p) PROVE TierInv'
    BY <2>4, L2GetKeeps, L2HitKeeps, L2MissKeeps, ComputeKeeps, ComputeFailsKeeps,
       StoreL1Keeps, StoreL2Keeps, DeleteL1Keeps, DeleteL2Keeps, DeleteL2FailsKeeps,
       DeletePatternL1Keeps, ScanKeeps, DeleteFoundKeeps, DeletePatternFailsKeeps DEF Advance
  <2>5. ASSUME NEW k \in Keys, ExpireL1(k) \/ ExpireL2(k) PROVE TierInv'
    BY <2>5, ExpireL1Keeps, ExpireL2Keeps
  <2> QED BY <1>2, <2>1, <2>2, <2>3, <2>4, <2>5 DEF Next
<1> QED BY <1>1, <1>2

\* The inductive invariant says what both tiers promise.
LEMMA TiersSound == TierInv => TiersAreSound
<1> SUFFICES ASSUME TierInv PROVE TiersAreSound
  OBVIOUS
<1>0. TierTypes
  BY DEF TierInv
<1>1. TypeOK
  BY <1>0 DEF TierTypes, TypeOK, Dict, EntryOf, Entries
<1>2. ASSUME NEW k \in Keys \ tainted, ~Updating(k)
      PROVE  L1Value(k) \in {NoVersion, db[k]} /\ l2[k] \in {NoVersion, db[k]}
  <2>1. Quiet(k)
    BY DEF TierInv
  <2>2. \A p \in Tasks : ~Updates(task[p], k)
    BY <1>2 DEF Updating, Updates
  <2>3. Current(k)
    BY <2>1, <2>2 DEF Quiet
  <2>4. CASE LruVisible(l1, k)
    <3>1. PICK e : e = LruEntry(l1, k)
      OBVIOUS
    <3>2. k \in LruKeys(l1) /\ e.live
      BY <2>4, <3>1 DEF LruVisible, LruServed
    <3>3. PICK i \in DOMAIN l1 : e = l1[i] /\ l1[i].key = k
      BY <3>1, <3>2, EntryIs
    <3>4. e.val = db[k]
      BY <2>3, <3>2, <3>3 DEF Current
    <3> QED BY <2>3, <2>4, <3>1, <3>4 DEF Current, L1Value, LruValue
  <2>5. CASE ~LruVisible(l1, k)
    BY <2>3, <2>5 DEF Current, L1Value, LruValue
  <2> QED BY <2>4, <2>5
<1> QED BY <1>1, <1>2 DEF TiersAreSound, QuietKeysAreCurrent

\* Whatever tasks read, warm, update, invalidate and clear, commands fail, L1
\* evicts and TTLs run out: the tiers stay well formed, and a key whose reads
\* overlapped no update and whose invalidations all succeeded is never served
\* from a version that its finished updates have replaced (MultiTierCache,
\* cache.py, as driven by decorators.py).
THEOREM TiersHold == Spec => []TiersAreSound
<1>1. Init => TierInv
  BY TiersStart
<1>2. TierInv /\ [Next]_vars => TierInv'
  BY TiersStep
<1>3. TierInv => TiersAreSound
  BY TiersSound
<1> QED BY <1>1, <1>2, <1>3, PTL DEF Spec

-----------------------------------------------------------------------------
(* The first tier on its own: LRUCache.                                     *)

USE MaxUsesAssumption

\* The order of the entries is the order of f; live entries hold what s says.
InOrder(c, f) == \A i, j \in DOMAIN c : i < j => f[c[i].key] < f[c[j].key]
Serves(c, s) == \A i \in DOMAIN c : c[i].live => c[i].val = s[c[i].key]

DictInv ==
  /\ Dict(cache, EntryOf(Keys, Values))
  /\ uses \in 0..MaxUses
  /\ lastUse \in [Keys -> 0..MaxUses]
  /\ \A k \in Keys : lastUse[k] <= uses
  /\ stored \in [Keys -> Values \cup {Missing}]
  /\ InOrder(cache, lastUse)
  /\ Serves(cache, stored)

\* What stays of a dictionary stays in order.
LEMMA PicksInOrder ==
  ASSUME NEW E, NEW c, Dict(c, E), NEW g, Picks(g, c, E), NEW f, InOrder(c, f)
  PROVE  InOrder(g, f)
<1>1. PICK n \in 0..L1Size : Len(c) = n /\ DOMAIN c = 1..n
  BY Listed
<1>2. PICK l \in 0..L1Size : Len(g) = l /\ DOMAIN g = 1..l
  BY PicksIsDict, Listed
<1>3. PICK pos \in [1..l -> 1..n] :
       /\ \A i, j \in 1..l : i < j => pos[i] < pos[j]
       /\ \A i \in 1..l : g[i] = c[pos[i]]
  BY <1>1, <1>2 DEF Picks
<1>4. ASSUME NEW i \in 1..l, NEW j \in 1..l, i < j PROVE f[g[i].key] < f[g[j].key]
  <2>1. pos[i] \in 1..n /\ pos[j] \in 1..n
    OBVIOUS
  <2>2. pos[i] < pos[j]
    BY <1>3, <1>4
  <2>3. f[c[pos[i]].key] < f[c[pos[j]].key]
    BY <1>1, <2>1, <2>2 DEF InOrder
  <2> QED BY <1>3, <2>3
<1> QED BY <1>2, <1>4 DEF InOrder

\* A use puts the key at the end, with the latest time.
LEMMA UsedLast ==
  ASSUME NEW K, NEW V, NEW c, Dict(c, EntryOf(K, V)), NEW k \in K, NEW e \in EntryOf(K, V), e.key = k,
         NEW g, Uses(g, c, k, e, EntryOf(K, V)),
         NEW f \in [K -> Nat], InOrder(c, f), NEW n \in Nat, \A m \in K : f[m] < n
  PROVE  InOrder(g, [f EXCEPT ![k] = n])
<1>1. PICK r : /\ Picks(r, c, EntryOf(K, V)) /\ k \notin LruKeys(r) /\ Len(r) < L1Size
               /\ g = Append(r, e)
  BY DEF Uses
<1>2. Dict(r, EntryOf(K, V)) /\ InOrder(r, f)
  BY <1>1, PicksIsDict, PicksInOrder
<1>3. PICK l \in 0..L1Size :
        Len(r) = l /\ DOMAIN r = 1..l /\ \A i \in 1..l : r[i] \in EntryOf(K, V)
  BY <1>2, Listed
<1>4. r \in Seq(EntryOf(K, V))
  BY <1>2 DEF Dict
<1>5. PICK h \in Seq(EntryOf(K, V)) :
        /\ h = Append(r, e) /\ Len(h) = l + 1
        /\ (\A i \in 1..l : h[i] = r[i]) /\ h[l + 1] = e
  BY <1>3, <1>4, AppendProperties
<1>6. g = h /\ DOMAIN g = 1..(l + 1)
  <2>1. DOMAIN h = 1..Len(h)
    BY LenProperties
  <2> QED BY <1>1, <1>5, <2>1
<1>7. PICK u : u = [f EXCEPT ![k] = n]
  OBVIOUS
<1>8. u[k] = n /\ \A m \in K : m # k => u[m] = f[m]
  BY <1>7
<1>9. \A i \in 1..l : r[i].key \in K /\ r[i].key # k
  BY <1>1, <1>3 DEF LruKeys, EntryOf
<1>10. ASSUME NEW i \in 1..(l + 1), NEW j \in 1..(l + 1), i < j
       PROVE  u[g[i].key] < u[g[j].key]
  <2>1. i \in 1..l /\ g[i] = r[i] /\ u[g[i].key] = f[r[i].key]
    <3>1. i \in 1..l
      BY <1>10
    <3>2. g[i] = r[i]
      BY <1>5, <1>6, <3>1
    <3>3. r[i].key \in K /\ r[i].key # k
      BY <1>9, <3>1
    <3> QED BY <1>8, <3>1, <3>2, <3>3
  <2>2. CASE j = l + 1
    <3>1. g[j] = e
      BY <1>5, <1>6, <2>2
    <3>2. u[g[j].key] = n
      BY <1>8, <3>1
    <3>3. f[r[i].key] < n
      BY <1>9, <2>1
    <3> QED BY <2>1, <3>2, <3>3
  <2>3. CASE j # l + 1
    <3>1. j \in 1..l
      BY <2>3
    <3>2. g[j] = r[j]
      BY <1>5, <1>6, <3>1
    <3>3. r[j].key \in K /\ r[j].key # k
      BY <1>9, <3>1
    <3>4. u[g[j].key] = f[r[j].key]
      BY <1>8, <3>2, <3>3
    <3>5. f[r[i].key] < f[r[j].key]
      BY <1>2, <1>3, <1>10, <2>1, <3>1 DEF InOrder
    <3> QED BY <2>1, <3>4, <3>5
  <2> QED BY <2>2, <2>3
<1>11. InOrder(g, u)
  BY <1>6, <1>10 DEF InOrder
<1> QED BY <1>7, <1>11

\* Every kept entry has a key of K.
LEMMA KeysIn ==
  ASSUME NEW K, NEW V, NEW c, Dict(c, EntryOf(K, V))
  PROVE  \A i \in DOMAIN c : c[i] \in EntryOf(K, V) /\ c[i].key \in K /\ c[i].val \in V
<1>1. PICK n \in 0..L1Size : DOMAIN c = 1..n /\ \A i \in 1..n : c[i] \in EntryOf(K, V)
  BY Listed
<1> QED BY <1>1 DEF EntryOf

\* get() of a live key, and set(): a use of the key.
LEMMA UseKeeps ==
  ASSUME DictInv, NEW k \in Keys, Use(k),
         NEW e \in EntryOf(Keys, Values), e.key = k,
         Uses(cache', cache, k, e, EntryOf(Keys, Values)),
         stored' \in [Keys -> Values \cup {Missing}],
         e.live => e.val = stored'[k],
         \A m \in Keys : m # k => stored'[m] = stored[m]
  PROVE  DictInv'
<1>1. /\ uses < MaxUses /\ uses' = uses + 1
      /\ lastUse' = [lastUse EXCEPT ![k] = uses']
  BY DEF Use
<1>2. /\ Dict(cache, EntryOf(Keys, Values)) /\ uses \in 0..MaxUses
      /\ lastUse \in [Keys -> 0..MaxUses] /\ \A m \in Keys : lastUse[m] <= uses
      /\ InOrder(cache, lastUse) /\ Serves(cache, stored)
  BY DEF DictInv
<1>3. uses' \in 0..MaxUses /\ uses' \in Nat
  BY <1>1, <1>2
<1>4. /\ lastUse' \in [Keys -> 0..MaxUses]
      /\ \A m \in Keys : lastUse'[m] <= uses'
  <2>1. \A m \in Keys : lastUse'[m] = IF m = k THEN uses' ELSE lastUse[m]
    BY <1>1, <1>2
  <2>2. lastUse' \in [Keys -> 0..MaxUses]
    BY <1>1, <1>2, <1>3
  <2>3. \A m \in Keys : lastUse[m] \in 0..MaxUses
    BY <1>2
  <2> QED BY <1>1, <1>2, <1>3, <2>1, <2>2, <2>3
<1>5. /\ Dict(cache', EntryOf(Keys, Values))
      /\ \A i \in DOMAIN cache' : \/ cache'[i] = e
                                  \/ \E j \in DOMAIN cache : cache'[i] = cache[j] /\ cache[j].key # k
  <2>1. PICK g : g = cache'
    OBVIOUS
  <2> QED BY <1>2, <2>1, UsesIsDict
<1>6. InOrder(cache', lastUse')
  <2>1. PICK g, f, n : g = cache' /\ f = lastUse /\ n = uses'
    OBVIOUS
  <2>2. f \in [Keys -> Nat] /\ n \in Nat /\ \A m \in Keys : f[m] < n
    <3>1. \A m \in Keys : lastUse[m] \in Nat /\ lastUse[m] < uses'
      BY <1>1, <1>2
    <3>2. lastUse \in [Keys -> Nat]
      BY <1>2
    <3> QED BY <1>3, <2>1, <3>1, <3>2
  <2>3. InOrder(g, [f EXCEPT ![k] = n])
    BY <1>2, <2>1, <2>2, UsedLast
  <2> QED BY <1>1, <2>1, <2>3
<1>7. Serves(cache', stored')
  <2>1. ASSUME NEW i \in DOMAIN cache', cache'[i].live PROVE cache'[i].val = stored'[cache'[i].key]
    <3>1. CASE cache'[i] = e
      BY <2>1, <3>1
    <3>2. CASE \E j \in DOMAIN cache : cache'[i] = cache[j] /\ cache[j].key # k
      <4>1. PICK j \in DOMAIN cache : cache'[i] = cache[j] /\ cache[j].key # k
        BY <3>2
      <4>2. cache[j].key \in Keys
        BY <1>2, KeysIn
      <4> QED BY <1>2, <2>1, <4>1, <4>2 DEF Serves
    <3> QED BY <1>5, <3>1, <3>2
  <2> QED BY <2>1 DEF Serves
<1> QED BY <1>3, <1>4, <1>5, <1>6, <1>7 DEF DictInv

\* Entries are dropped and nothing is used.
LEMMA DropKeeps ==
  ASSUME DictInv, UNCHANGED <<uses, lastUse>>, Picks(cache', cache, EntryOf(Keys, Values)),
         stored' \in [Keys -> Values \cup {Missing}],
         \A k \in LruKeys(cache') : stored'[k] = stored[k]
  PROVE  DictInv'
<1>1. /\ Dict(cache, EntryOf(Keys, Values)) /\ uses \in 0..MaxUses
      /\ lastUse \in [Keys -> 0..MaxUses] /\ \A m \in Keys : lastUse[m] <= uses
      /\ InOrder(cache, lastUse) /\ Serves(cache, stored)
  BY DEF DictInv
<1>2. PICK g : g = cache'
  OBVIOUS
<1>3. /\ Dict(g, EntryOf(Keys, Values)) /\ InOrder(g, lastUse)
      /\ \A i \in DOMAIN g : \E j \in DOMAIN cache : g[i] = cache[j]
  BY <1>1, <1>2, PicksIsDict, PicksInOrder
<1>4. Serves(cache', stored')
  <2>1. \A i \in DOMAIN g : g[i].key \in LruKeys(cache')
    BY <1>2 DEF LruKeys
  <2>2. \A i \in DOMAIN g : g[i].live => g[i].val = stored[g[i].key]
    BY <1>1, <1>3 DEF Serves
  <2> QED BY <1>2, <2>1, <2>2 DEF Serves
<1>5. Dict(cache', EntryOf(Keys, Values)) /\ InOrder(cache', lastUse')
  BY <1>2, <1>3
<1> QED BY <1>1, <1>4, <1>5 DEF DictInv

LEMMA GetHitKeeps ==
  ASSUME DictInv, NEW k \in Keys, GetHit(k)
  PROVE  DictInv'
<1>1. PICK e : e = LruEntry(cache, k)
  OBVIOUS
<1>2. /\ LruVisible(cache, k) /\ cache' = LruAfterGet(cache, k)
      /\ Use(k) /\ stored' = stored
  BY DEF GetHit
<1>3. Dict(cache, EntryOf(Keys, Values)) /\ Serves(cache, stored)
  BY DEF DictInv
<1>4. PICK i \in DOMAIN cache : e = cache[i] /\ cache[i].key = k
  BY <1>1, <1>2, EntryIs DEF LruVisible
<1>5. e \in EntryOf(Keys, Values) /\ e.key = k
  BY <1>3, <1>4, KeysIn
<1>6. Uses(cache', cache, k, e, EntryOf(Keys, Values))
  BY <1>1, <1>2, <1>3, GetUses
<1>7. e.live => e.val = stored'[k]
  BY <1>2, <1>3, <1>4 DEF Serves
<1>8. stored' \in [Keys -> Values \cup {Missing}] /\ \A m \in Keys : m # k => stored'[m] = stored[m]
  BY <1>2 DEF DictInv
<1> QED BY <1>2, <1>5, <1>6, <1>7, <1>8, UseKeeps

LEMMA SetKeeps ==
  ASSUME DictInv, NEW k \in Keys, NEW v \in Values, NEW live \in BOOLEAN,
         Set(k, v, live)
  PROVE  DictInv'
<1>1. PICK e : e = [key |-> k, val |-> v, live |-> live]
  OBVIOUS
<1>2. /\ cache' = LruAfterSet(cache, k, v, live) /\ Use(k)
      /\ stored' = [stored EXCEPT ![k] = IF live THEN v ELSE Missing]
  BY DEF Set
<1>3. /\ Dict(cache, EntryOf(Keys, Values))
      /\ stored \in [Keys -> Values \cup {Missing}]
  BY DEF DictInv
<1>4. e \in EntryOf(Keys, Values) /\ e.key = k /\ e.val = v /\ e.live = live
  BY <1>1 DEF EntryOf
<1>5. Uses(cache', cache, k, e, EntryOf(Keys, Values))
  BY <1>1, <1>2, <1>3, SetUses
<1>6. /\ stored' \in [Keys -> Values \cup {Missing}]
      /\ \A m \in Keys : m # k => stored'[m] = stored[m]
      /\ live => stored'[k] = v
  BY <1>2, <1>3
<1> QED BY <1>2, <1>4, <1>5, <1>6, UseKeeps

\* The deletions: of one key, of an expired one, of all expired ones.
LEMMA DeletionKeeps ==
  ASSUME DictInv, UNCHANGED <<uses, lastUse>>, NEW ks, cache' = LruWithout(cache, ks),
         stored' \in [Keys -> Values \cup {Missing}],
         \A k \in Keys \ ks : stored'[k] = stored[k]
  PROVE  DictInv'
<1>1. Dict(cache, EntryOf(Keys, Values))
  BY DEF DictInv
<1>2. Picks(cache', cache, EntryOf(Keys, Values)) /\ LruKeys(cache') = LruKeys(cache) \ ks
  <2>1. PICK g : g = LruWithout(cache, ks)
    OBVIOUS
  <2>2. Picks(g, cache, EntryOf(Keys, Values)) /\ LruKeys(g) = LruKeys(cache) \ ks
    BY <1>1, <2>1, WithoutPicks
  <2> QED BY <2>1, <2>2
<1>3. LruKeys(cache) \subseteq Keys
  BY <1>1, KeysIn DEF LruKeys
<1>4. \A k \in LruKeys(cache') : stored'[k] = stored[k]
  BY <1>2, <1>3
<1> QED BY <1>2, <1>4, DropKeeps

LEMMA GetMissKeeps ==
  ASSUME DictInv, NEW k \in Keys, GetMiss(k)
  PROVE  DictInv'
<1>1. /\ ~LruVisible(cache, k) /\ cache' = LruAfterGet(cache, k)
      /\ UNCHANGED <<uses, lastUse, stored>>
  BY DEF GetMiss
<1>2. cache' = LruWithout(cache, {k})
  BY <1>1 DEF LruAfterGet
<1> QED BY <1>1, <1>2, DeletionKeeps DEF DictInv

LEMMA DeleteKeeps ==
  ASSUME DictInv, NEW k \in Keys, Delete(k)
  PROVE  DictInv'
<1>1. /\ cache' = LruWithout(cache, {k}) /\ UNCHANGED <<uses, lastUse>>
      /\ stored' = [stored EXCEPT ![k] = Missing]
  BY DEF Delete, LruAfterDelete
<1>2. stored \in [Keys -> Values \cup {Missing}]
  BY DEF DictInv
<1>3. /\ stored' \in [Keys -> Values \cup {Missing}]
      /\ \A m \in Keys \ {k} : stored'[m] = stored[m]
  BY <1>1, <1>2
<1> QED BY <1>1, <1>3, DeletionKeeps

LEMMA CleanupKeeps ==
  ASSUME DictInv, CleanupExpired
  PROVE  DictInv'
<1>1. PICK ks : LruCleanedUp(cache) = LruWithout(cache, ks)
  BY DEF LruCleanedUp
<1>2. cache' = LruWithout(cache, ks) /\ UNCHANGED <<uses, lastUse, stored>>
  BY <1>1 DEF CleanupExpired
<1> QED BY <1>2, DeletionKeeps DEF DictInv

LEMMA ClearKeeps ==
  ASSUME DictInv, Clear
  PROVE  DictInv'
<1>1. cache' = <<>> /\ UNCHANGED <<uses, lastUse>> /\ stored' = [k \in Keys |-> Missing]
  BY DEF Clear
<1>2. Dict(cache', EntryOf(Keys, Values)) /\ DOMAIN cache' = {}
  BY <1>1, EmptyIsDict
<1>3. InOrder(cache', lastUse') /\ Serves(cache', stored')
  BY <1>2 DEF InOrder, Serves
<1> QED BY <1>1, <1>2, <1>3 DEF DictInv

LEMMA ExpireKeeps ==
  ASSUME DictInv, NEW k \in Keys, Expire(k)
  PROVE  DictInv'
<1>1. /\ cache' = LruExpired(cache, k) /\ UNCHANGED <<uses, lastUse>>
      /\ stored' = [stored EXCEPT ![k] = Missing]
  BY DEF Expire
<1>2. /\ Dict(cache, EntryOf(Keys, Values)) /\ stored \in [Keys -> Values \cup {Missing}]
      /\ InOrder(cache, lastUse) /\ Serves(cache, stored)
  BY DEF DictInv
<1>3. PICK g : g = LruExpired(cache, k)
  OBVIOUS
<1>4. /\ Dict(g, EntryOf(Keys, Values)) /\ DOMAIN g = DOMAIN cache
      /\ \A i \in DOMAIN cache : /\ g[i].key = cache[i].key /\ g[i].val = cache[i].val
                                 /\ g[i].live <=> cache[i].live /\ cache[i].key # k
  BY <1>2, <1>3, ExpiredIsDict
<1>5. InOrder(g, lastUse)
  BY <1>2, <1>4 DEF InOrder
<1>6. Serves(g, stored')
  <2>1. \A i \in DOMAIN cache : cache[i].key \in Keys
    BY <1>2, KeysIn
  <2>2. ASSUME NEW i \in DOMAIN g, g[i].live PROVE g[i].val = stored'[g[i].key]
    <3>1. cache[i].live /\ cache[i].key # k /\ cache[i].key \in Keys
      BY <1>4, <2>1, <2>2
    <3>2. cache[i].val = stored[cache[i].key]
      BY <1>2, <1>4, <3>1 DEF Serves
    <3>3. stored'[cache[i].key] = stored[cache[i].key]
      BY <1>1, <1>2, <3>1
    <3> QED BY <1>4, <3>2, <3>3
  <2> QED BY <2>2 DEF Serves
<1>7. stored' \in [Keys -> Values \cup {Missing}]
  BY <1>1, <1>2
<1> QED BY <1>1, <1>3, <1>4, <1>5, <1>6, <1>7 DEF DictInv

LEMMA DictStart == DictInit => DictInv
<1> SUFFICES ASSUME DictInit PROVE DictInv
  OBVIOUS
<1>1. /\ cache = <<>> /\ uses = 0 /\ lastUse = [k \in Keys |-> 0]
      /\ stored = [k \in Keys |-> Missing]
  BY DEF DictInit
<1>2. Dict(cache, EntryOf(Keys, Values)) /\ DOMAIN cache = {}
  BY <1>1, EmptyIsDict
<1>3. InOrder(cache, lastUse) /\ Serves(cache, stored)
  BY <1>2 DEF InOrder, Serves
<1>4. uses \in 0..MaxUses /\ lastUse \in [Keys -> 0..MaxUses] /\ \A k \in Keys : lastUse[k] <= uses
  BY <1>1
<1> QED BY <1>1, <1>2, <1>3, <1>4 DEF DictInv

LEMMA DictStep == DictInv /\ [DictNext]_dictVars => DictInv'
<1> SUFFICES ASSUME DictInv, [DictNext]_dictVars PROVE DictInv'
  OBVIOUS
<1>1. CASE UNCHANGED dictVars
  <2>1. UNCHANGED <<cache, uses, lastUse, stored>>
    BY <1>1 DEF dictVars
  <2> QED BY <2>1 DEF DictInv
<1>2. CASE DictNext
  <2>1. ASSUME NEW k \in Keys, GetHit(k) \/ GetMiss(k) \/ Delete(k) \/ Expire(k) PROVE DictInv'
    BY <2>1, GetHitKeeps, GetMissKeeps, DeleteKeeps, ExpireKeeps
  <2>2. ASSUME NEW k \in Keys, NEW v \in Values, NEW live \in BOOLEAN, Set(k, v, live) PROVE DictInv'
    BY <2>2, SetKeeps
  <2>3. CASE Clear
    BY <2>3, ClearKeeps
  <2>4. CASE CleanupExpired
    BY <2>4, CleanupKeeps
  <2> QED BY <1>2, <2>1, <2>2, <2>3, <2>4 DEF DictNext
<1> QED BY <1>1, <1>2

LEMMA DictSound == DictInv => DictionaryIsSound
<1> SUFFICES ASSUME DictInv PROVE DictionaryIsSound
  OBVIOUS
<1>1. DictTypeOK
  BY DEF DictInv, DictTypeOK, Dict, EntryOf, DictEntries
<1>2. OrderIsRecency
  BY DEF DictInv, OrderIsRecency, InOrder
<1>3. ASSUME NEW k \in Keys, LruVisible(cache, k) PROVE LruEntry(cache, k).val = stored[k]
  <2>1. PICK e : e = LruEntry(cache, k)
    OBVIOUS
  <2>2. LruEntry(cache, k) = e /\ k \in LruKeys(cache) /\ e.live
    BY <1>3, <2>1 DEF LruVisible, LruServed
  <2>3. PICK i \in DOMAIN cache : e = cache[i] /\ cache[i].key = k
    BY <2>1, <2>2, EntryIs
  <2>4. e.val = stored[k]
    BY <2>2, <2>3 DEF DictInv, Serves
  <2> QED BY <2>2, <2>4
<1> QED BY <1>1, <1>2, <1>3 DEF DictionaryIsSound, NoStaleResult

\* Whatever is stored, read, deleted, cleared, cleaned up and expires: the
\* dictionary of L1 keeps its bound, its entries are in the order of their last
\* use, and get() serves what the last set() of the key stored (LRUCache, cache.py).
THEOREM DictionaryHolds == DictSpec => []DictionaryIsSound
<1>1. DictInit => DictInv
  BY DictStart
<1>2. DictInv /\ [DictNext]_dictVars => DictInv'
  BY DictStep
<1>3. DictInv => DictionaryIsSound
  BY DictSound
<1> QED BY <1>1, <1>2, <1>3, PTL DEF DictSpec

\* A use of a key that is there evicts nothing; a new key evicts the first entry
\* when the dictionary is full.
LEMMA GetKeepsKeys ==
  ASSUME NEW E, NEW c, Dict(c, E), NEW k \in LruKeys(c), NEW e \in E, e.key = k
  PROVE  LruKeys(Append(LruWithout(c, {k}), e)) = LruKeys(c)
<1>1. PICK f : f = LruWithout(c, {k})
  OBVIOUS
<1>2. Picks(f, c, E) /\ LruKeys(f) = LruKeys(c) \ {k} /\ Len(f) < Len(c)
  BY <1>1, WithoutPicks
<1>3. Dict(f, E)
  BY <1>2, PicksIsDict
<1>4. PICK n \in 0..L1Size : Len(c) = n
  BY Listed
<1>5. PICK l \in 0..L1Size : Len(f) = l
  BY <1>3, Listed
<1>6. Len(f) < L1Size
  BY <1>2, <1>4, <1>5, L1SizeAssumption
<1>7. LruKeys(Append(f, e)) = LruKeys(f) \cup {e.key}
  BY <1>2, <1>3, <1>6, AppendedIsDict
<1> QED BY <1>1, <1>2, <1>7

LEMMA SetEvictsFirst ==
  ASSUME NEW K, NEW V, NEW c, Dict(c, EntryOf(K, V)), NEW k \in K, NEW v \in V, NEW live \in BOOLEAN,
         NEW f, InOrder(c, f), NEW g, g = LruAfterSet(c, k, v, live),
         NEW x \in LruKeys(c), x \notin LruKeys(g)
  PROVE  /\ Len(c) = L1Size /\ Len(g) = L1Size
         /\ \A m \in LruKeys(c) \cap LruKeys(g) : f[x] < f[m]
<1>1. PICK e : e = [key |-> k, val |-> v, live |-> live]
  OBVIOUS
<1>2. e \in EntryOf(K, V) /\ e.key = k
  BY <1>1 DEF EntryOf
<1>3. k \notin LruKeys(c)
  <2>1. SUFFICES ASSUME k \in LruKeys(c) PROVE FALSE
    OBVIOUS
  <2>2. g = Append(LruWithout(c, {k}), e)
    BY <1>1, <2>1 DEF LruAfterSet
  <2>3. LruKeys(g) = LruKeys(c)
    BY <1>2, <2>1, <2>2, GetKeepsKeys
  <2> QED BY <2>3
<1>4. PICK r : r = LruMakeRoom(c)
  OBVIOUS
<1>5. g = Append(r, e)
  BY <1>1, <1>3, <1>4 DEF LruAfterSet
<1>6. /\ Picks(r, c, EntryOf(K, V)) /\ Len(r) < L1Size
      /\ Len(c) < L1Size => r = c
      /\ Len(c) >= L1Size =>
           /\ Len(c) = L1Size /\ Len(r) = L1Size - 1 /\ DOMAIN r = 1..(L1Size - 1)
           /\ \A i \in 1..(L1Size - 1) : r[i] = c[i + 1]
  BY <1>4, RoomPicks
<1>7. Dict(r, EntryOf(K, V)) /\ \A i \in DOMAIN r : \E j \in DOMAIN c : r[i] = c[j]
  BY <1>6, PicksIsDict
<1>8. k \notin LruKeys(r)
  BY <1>3, <1>7 DEF LruKeys
<1>9. LruKeys(g) = LruKeys(r) \cup {k} /\ Len(g) = Len(r) + 1
  BY <1>2, <1>5, <1>6, <1>7, <1>8, AppendedIsDict
<1>10. PICK n \in 0..L1Size : Len(c) = n /\ DOMAIN c = 1..n
  BY Listed
<1>11. L1Size \in Nat /\ L1Size >= 1
  BY L1SizeAssumption
<1>12. Len(c) >= L1Size
  <2>1. SUFFICES ASSUME ~(Len(c) >= L1Size) PROVE FALSE
    OBVIOUS
  <2>2. Len(c) < L1Size
    BY <1>10, <1>11, <2>1
  <2>3. r = c
    BY <1>6, <2>2
  <2> QED BY <1>9, <2>3
<1>13. /\ Len(c) = L1Size /\ Len(r) = L1Size - 1 /\ DOMAIN r = 1..(L1Size - 1)
       /\ \A i \in 1..(L1Size - 1) : r[i] = c[i + 1]
  BY <1>6, <1>12
<1>14. DOMAIN c = 1..L1Size
  BY <1>10, <1>13
<1>15. ASSUME NEW i \in 1..L1Size, i # 1 PROVE c[i].key \in LruKeys(r)
  <2>1. i - 1 \in 1..(L1Size - 1) /\ (i - 1) + 1 = i
    BY <1>11, <1>15
  <2>2. r[i - 1] = c[i]
    BY <1>13, <2>1
  <2> QED BY <1>13, <2>1, <2>2 DEF LruKeys
<1>16. 1 \in 1..L1Size /\ x = c[1].key
  <2>1. PICK i \in 1..L1Size : x = c[i].key
    BY <1>14 DEF LruKeys
  <2>2. x \notin LruKeys(r)
    BY <1>9
  <2>3. i = 1
    BY <1>15, <2>1, <2>2
  <2> QED BY <1>11, <2>1, <2>3
<1>17. ASSUME NEW m \in LruKeys(c), m \in LruKeys(g) PROVE f[x] < f[m]
  <2>1. PICK i \in 1..L1Size : m = c[i].key
    BY <1>14 DEF LruKeys
  <2>2. i # 1
    BY <1>16, <1>17, <2>1
  <2>3. 1 < i
    BY <2>2
  <2> QED BY <1>14, <1>16, <2>1, <2>3 DEF InOrder
<1>18. Len(g) = L1Size
  BY <1>9, <1>11, <1>13
<1> QED BY <1>13, <1>17, <1>18

\* Only set() of a new key into a full dictionary evicts, and what it evicts was
\* used before everything that stays.
Evicts ==
  \A k \in Keys :
    (k \in LruKeys(cache) /\ k \notin LruKeys(cache') /\ uses' > uses) =>
      /\ Len(cache) = L1Size /\ Len(cache') = L1Size
      /\ \A m \in LruKeys(cache) \cap LruKeys(cache') : lastUse[k] < lastUse[m]

LEMMA NoUse == DictInv /\ uses' = uses => Evicts
<1> SUFFICES ASSUME DictInv, uses' = uses PROVE Evicts
  OBVIOUS
<1>1. ~(uses' > uses)
  BY DEF DictInv
<1> QED BY <1>1 DEF Evicts

LEMMA EvictsStep == DictInv /\ [DictNext]_dictVars => Evicts
<1> SUFFICES ASSUME DictInv, [DictNext]_dictVars PROVE Evicts
  OBVIOUS
<1>0. Dict(cache, EntryOf(Keys, Values)) /\ InOrder(cache, lastUse)
  BY DEF DictInv
<1>1. CASE UNCHANGED dictVars
  BY <1>1, NoUse DEF dictVars
<1>2. ASSUME NEW k \in Keys, GetHit(k) PROVE Evicts
  <2>1. PICK e : e = LruEntry(cache, k)
    OBVIOUS
  <2>2. LruVisible(cache, k) /\ cache' = LruAfterGet(cache, k)
    BY <1>2 DEF GetHit
  <2>3. k \in LruKeys(cache) /\ cache' = Append(LruWithout(cache, {k}), e)
    BY <2>1, <2>2 DEF LruVisible, LruAfterGet
  <2>4. PICK i \in DOMAIN cache : e = cache[i] /\ cache[i].key = k
    BY <2>1, <2>3, EntryIs
  <2>5. e \in EntryOf(Keys, Values) /\ e.key = k
    BY <1>0, <2>4, KeysIn
  <2>6. LruKeys(cache') = LruKeys(cache)
    BY <1>0, <2>3, <2>5, GetKeepsKeys
  <2> QED BY <2>6 DEF Evicts
<1>3. ASSUME NEW k \in Keys, NEW v \in Values, NEW live \in BOOLEAN, Set(k, v, live) PROVE Evicts
  <2>1. PICK g : g = LruAfterSet(cache, k, v, live)
    OBVIOUS
  <2>2. cache' = g
    BY <1>3, <2>1 DEF Set
  <2>3. ASSUME NEW x \in LruKeys(cache), x \notin LruKeys(g)
        PROVE  /\ Len(cache) = L1Size /\ Len(g) = L1Size
               /\ \A m \in LruKeys(cache) \cap LruKeys(g) : lastUse[x] < lastUse[m]
    BY <1>0, <2>1, <2>3, SetEvictsFirst
  <2> QED BY <2>2, <2>3 DEF Evicts
<1>4. ASSUME NEW k \in Keys, GetMiss(k) \/ Delete(k) \/ Expire(k) PROVE Evicts
  BY <1>4, NoUse DEF GetMiss, Delete, Expire
<1>5. CASE Clear \/ CleanupExpired
  BY <1>5, NoUse DEF Clear, CleanupExpired
<1> QED BY <1>1, <1>2, <1>3, <1>4, <1>5 DEF DictNext

\* Every key that a set() evicts was used before every key that stays (LRUCache._evict,
\* cache.py).
THEOREM EvictsOldest == DictSpec => EvictsLeastRecent
<1>1. DictInit => DictInv
  BY DictStart
<1>2. DictInv /\ [DictNext]_dictVars => DictInv'
  BY DictStep
<1>3. DictInv /\ [DictNext]_dictVars =>
        [\A k \in Keys :
           (k \in Present /\ k \notin Present' /\ uses' > uses) =>
             /\ Len(cache) = L1Size /\ Len(cache') = L1Size
             /\ \A m \in Present \cap Present' : lastUse[k] < lastUse[m]]_dictVars
  BY EvictsStep DEF Evicts, Present
<1> QED BY <1>1, <1>2, <1>3, PTL DEF DictSpec, EvictsLeastRecent

-----------------------------------------------------------------------------
(* SingleFlight, for every set of callers and keys, every set of cancellable *)
(* callers and every bound on the flights.                                   *)

USE MaxFlightsAssumption

(* A computing caller leads the flight under its key; no flight is stored      *)
(* under two keys; only a waiter's cancellation cancels a future; and what the *)
(* callers of an undisturbed flight got is the state of its settled future.    *)

LeadersHoldTheirKey ==
  \A p \in Callers : Computing(p) => flight[p] \in Flights

FlightsKeepToTheirKey ==
  /\ \A k \in FlightKeys : inFlight[k] <= launched
  /\ \A k, m \in FlightKeys : inFlight[k] = inFlight[m] /\ inFlight[k] # NoFlight => k = m

WaitersAreAboard ==
  \A p \in Callers : Waiting(p) => flight[p] \in Flights

CancelledIsDisturbed ==
  \A f \in Flights : future[f] = "cancelled" => f \in disturbed

OutcomeIsFuture ==
  \A f \in Flights : f \notin disturbed =>
     outcomes[f] \subseteq {s \in Settled : s = future[f]}

FlightInv ==
  /\ FlightTypeOK
  /\ TakenKeyIsLed
  /\ OneLeaderPerKey
  /\ JoinableIsUnfinished
  /\ LeadersHoldTheirKey
  /\ FlightsKeepToTheirKey
  /\ WaitersAreAboard
  /\ CancelledIsDisturbed
  /\ OutcomeIsFuture

USE DEF Flights, NoFlight, FutureStates, Settled, Waiting, Computing

LEMMA FlightStart ==
  ASSUME FlightInit
  PROVE  FlightInv
<1> QED BY
  DEF FlightInit, FlightInv, FlightTypeOK, TakenKeyIsLed, OneLeaderPerKey, JoinableIsUnfinished,
      LeadersHoldTheirKey, FlightsKeepToTheirKey, WaitersAreAboard,
      CancelledIsDisturbed, OutcomeIsFuture

\* do() entered by a waiter or by a new leader.
LEMMA EntryKeepsFlightInv ==
  ASSUME FlightInv, NEW p \in Callers, NEW k \in FlightKeys, Join(p, k) \/ Lead(p, k)
  PROVE  FlightInv'
<1>1. CASE Join(p, k)
  BY <1>1
  DEF FlightInv, Join, history, FlightTypeOK, TakenKeyIsLed, OneLeaderPerKey, JoinableIsUnfinished,
      LeadersHoldTheirKey, FlightsKeepToTheirKey, WaitersAreAboard,
      CancelledIsDisturbed, OutcomeIsFuture
<1>2. CASE Lead(p, k)
  <2> DEFINE f == launched + 1
  <2>1. /\ stage[p] = "idle"
        /\ f \in Flights
        /\ future[f] = "none"
        /\ inFlight[k] = NoFlight
        /\ stage' = [stage EXCEPT ![p] = "computing"]
        /\ ckey' = [ckey EXCEPT ![p] = k]
        /\ flight' = [flight EXCEPT ![p] = f]
        /\ launched' = f
        /\ future' = [future EXCEPT ![f] = "pending"]
        /\ inFlight' = [inFlight EXCEPT ![k] = f]
        /\ UNCHANGED history
    BY <1>2 DEF Lead, MayLead, NewFuture, FlightInv, FlightTypeOK
  <2>2. FlightTypeOK'
    BY <2>1 DEF FlightInv, FlightTypeOK, history
  <2>3. TakenKeyIsLed' /\ LeadersHoldTheirKey'
    <3>1. ASSUME NEW m \in FlightKeys, inFlight'[m] # NoFlight
          PROVE  \E q \in Callers :
                    Computing(q)' /\ ckey'[q] = m /\ flight'[q] = inFlight'[m]
      <4>1. CASE m = k
        <5> WITNESS p \in Callers
        <5> QED BY <2>1, <4>1 DEF FlightInv, FlightTypeOK
      <4>2. CASE m # k
        <5>1. PICK q \in Callers : Computing(q) /\ ckey[q] = m /\ flight[q] = inFlight[m]
          BY <2>1, <3>1, <4>2 DEF FlightInv, FlightTypeOK, TakenKeyIsLed
        <5> WITNESS q \in Callers
        <5> QED BY <2>1, <4>2, <5>1 DEF FlightInv, FlightTypeOK
      <4> QED BY <4>1, <4>2
    <3>2. ASSUME NEW q \in Callers, Computing(q)'
          PROVE  inFlight'[ckey'[q]] = flight'[q] /\ flight'[q] \in Flights
      <4>1. CASE q = p
        BY <2>1, <4>1 DEF FlightInv, FlightTypeOK
      <4>2. CASE q # p
        BY <2>1, <3>2, <4>2 DEF FlightInv, FlightTypeOK, TakenKeyIsLed, LeadersHoldTheirKey
      <4> QED BY <4>1, <4>2
    <3> QED BY <3>1, <3>2 DEF TakenKeyIsLed, LeadersHoldTheirKey
  <2>4. OneLeaderPerKey'
    BY <2>1 DEF FlightInv, FlightTypeOK, TakenKeyIsLed, OneLeaderPerKey, LeadersHoldTheirKey
  <2>5. JoinableIsUnfinished'
    BY <2>1 DEF FlightInv, FlightTypeOK, JoinableIsUnfinished
  <2>6. FlightsKeepToTheirKey'
    <3>1. launched \in Nat /\ \A m \in FlightKeys : inFlight[m] \in Nat /\ inFlight[m] < f
      BY DEF FlightInv, FlightTypeOK, FlightsKeepToTheirKey
    <3>2. \A m \in FlightKeys : inFlight'[m] = IF m = k THEN f ELSE inFlight[m]
      BY <2>1 DEF FlightInv, FlightTypeOK
    <3> QED BY <2>1, <3>1, <3>2 DEF FlightInv, FlightsKeepToTheirKey
  <2>7. WaitersAreAboard' /\ CancelledIsDisturbed' /\ OutcomeIsFuture'
    BY <2>1 DEF FlightInv, FlightTypeOK, WaitersAreAboard, CancelledIsDisturbed,
                OutcomeIsFuture, history
  <2> QED BY <2>2, <2>3, <2>4, <2>5, <2>6, <2>7 DEF FlightInv
<1> QED BY <1>1, <1>2

\* The leader's fn ends, or the leader is cancelled: the key is freed and the
\* future of the flight is settled or left as it is.
LEMMA LandingKeepsFlightInv ==
  ASSUME FlightInv, NEW p \in Callers, FnReturns(p) \/ FnRaises(p) \/ CancelLeader(p)
  PROVE  FlightInv'
<1> DEFINE f == flight[p]
           k == ckey[p]
<1>1. /\ Computing(p)
      /\ f \in Flights
      /\ k \in FlightKeys
      /\ inFlight[k] = f
      /\ future[f] \in {"pending", "cancelled"}
  BY DEF FlightInv, FlightTypeOK, FnReturns, FnRaises, CancelLeader, LeadersHoldTheirKey,
         TakenKeyIsLed, JoinableIsUnfinished
<1>2. /\ stage' = [stage EXCEPT ![p] = "idle"]
      /\ inFlight' = [inFlight EXCEPT ![k] = NoFlight]
      /\ UNCHANGED <<ckey, flight, launched, disturbed>>
  BY DEF FnReturns, FnRaises, CancelLeader, Depart, FreedKey
<1>3. PICK s \in {"pending", "cancelled", "result", "exception"}, outs \in SUBSET Settled :
        /\ future' = [future EXCEPT ![f] = s]
        /\ outcomes' = [outcomes EXCEPT ![f] = @ \cup outs]
        /\ future[f] = "cancelled" => s = "cancelled"
        /\ s = "cancelled" => future[f] = "cancelled"
        /\ future[f] = "pending" => \A o \in outs : o = s
        /\ deserted' \subseteq Flights
  <2>1. CASE FnReturns(p) /\ future[f] = "pending"
    <3> WITNESS "result" \in {"pending", "cancelled", "result", "exception"},
                {"result"} \in SUBSET Settled
    <3> QED BY <1>1, <2>1 DEF FnReturns, Depart, FlightInv, FlightTypeOK
  <2>2. CASE FnReturns(p) /\ future[f] = "cancelled"
    <3> WITNESS "cancelled" \in {"pending", "cancelled", "result", "exception"},
                {"exception"} \in SUBSET Settled
    <3> QED BY <1>1, <2>2 DEF FnReturns, Depart, FlightInv, FlightTypeOK
  <2>3. CASE FnRaises(p) /\ future[f] = "pending"
    <3> WITNESS "exception" \in {"pending", "cancelled", "result", "exception"},
                {"exception"} \in SUBSET Settled
    <3> QED BY <1>1, <2>3 DEF FnRaises, Depart, FailedFuture, FlightInv, FlightTypeOK
  <2>4. CASE FnRaises(p) /\ future[f] = "cancelled"
    <3> WITNESS "cancelled" \in {"pending", "cancelled", "result", "exception"},
                {"exception"} \in SUBSET Settled
    <3> QED BY <1>1, <2>4 DEF FnRaises, Depart, FailedFuture, FlightInv, FlightTypeOK
  <2>5. CASE CancelLeader(p)
    <3>1. future[f] \in {"pending", "cancelled", "result", "exception"}
      BY <1>1
    <3>2. future' = [future EXCEPT ![f] = future[f]]
      BY <1>1, <2>5 DEF CancelLeader, FlightInv, FlightTypeOK
    <3>3. outcomes' = [outcomes EXCEPT ![f] = @ \cup {}]
      BY <2>5 DEF CancelLeader, Depart
    <3>4. deserted' \subseteq Flights
      BY <1>1, <2>5 DEF CancelLeader, FlightInv, FlightTypeOK
    <3> WITNESS future[f] \in {"pending", "cancelled", "result", "exception"},
                {} \in SUBSET Settled
    <3> QED BY <3>2, <3>3, <3>4
  <2> QED BY <1>1, <2>1, <2>2, <2>3, <2>4, <2>5
<1>4. FlightTypeOK'
  BY <1>1, <1>2, <1>3 DEF FlightInv, FlightTypeOK
<1>5. TakenKeyIsLed' /\ OneLeaderPerKey' /\ LeadersHoldTheirKey' /\ WaitersAreAboard'
  <2>1. ASSUME NEW q \in Callers, Computing(q)'
        PROVE  q # p /\ Computing(q) /\ ckey[q] # k
    BY <1>1, <1>2, <2>1 DEF FlightInv, FlightTypeOK, OneLeaderPerKey
  <2>2. ASSUME NEW m \in FlightKeys, inFlight'[m] # NoFlight
        PROVE  \E q \in Callers :
                  Computing(q)' /\ ckey'[q] = m /\ flight'[q] = inFlight'[m]
    <3>1. m # k /\ inFlight'[m] = inFlight[m]
      BY <1>1, <1>2, <2>2 DEF FlightInv, FlightTypeOK
    <3>2. PICK q \in Callers : Computing(q) /\ ckey[q] = m /\ flight[q] = inFlight[m]
      BY <2>2, <3>1 DEF FlightInv, TakenKeyIsLed
    <3> WITNESS q \in Callers
    <3> QED BY <1>1, <1>2, <3>1, <3>2 DEF FlightInv, FlightTypeOK
  <2>3. TakenKeyIsLed'
    BY <1>1, <1>2, <2>1, <2>2 DEF FlightInv, FlightTypeOK, TakenKeyIsLed
  <2>4. OneLeaderPerKey' /\ LeadersHoldTheirKey'
    BY <1>2, <2>1 DEF FlightInv, FlightTypeOK, OneLeaderPerKey, LeadersHoldTheirKey
  <2>5. WaitersAreAboard'
    BY <1>2 DEF FlightInv, FlightTypeOK, WaitersAreAboard
  <2> QED BY <2>3, <2>4, <2>5
<1>6. JoinableIsUnfinished' /\ FlightsKeepToTheirKey'
  BY <1>1, <1>2, <1>3 DEF FlightInv, FlightTypeOK, JoinableIsUnfinished, FlightsKeepToTheirKey
<1>7. CancelledIsDisturbed'
  BY <1>1, <1>2, <1>3 DEF FlightInv, FlightTypeOK, CancelledIsDisturbed
<1>8. OutcomeIsFuture'
  BY ZenonT(40), <1>1, <1>2, <1>3 DEF FlightInv, FlightTypeOK, CancelledIsDisturbed, OutcomeIsFuture
<1> QED BY <1>4, <1>5, <1>6, <1>7, <1>8 DEF FlightInv

LEMMA WaiterKeepsFlightInv ==
  ASSUME FlightInv, NEW p \in Callers, Wake(p) \/ CancelWaiter(p)
  PROVE  FlightInv'
<1>1. CASE Wake(p)
  BY <1>1
  DEF FlightInv, Wake, Depart, FlightTypeOK, TakenKeyIsLed, OneLeaderPerKey, JoinableIsUnfinished,
      LeadersHoldTheirKey, FlightsKeepToTheirKey, WaitersAreAboard,
      CancelledIsDisturbed, OutcomeIsFuture
<1>2. CASE CancelWaiter(p)
  <2>1. flight[p] \in Flights
    BY <1>2 DEF CancelWaiter, FlightInv, WaitersAreAboard
  <2>2. FlightTypeOK'
    BY <1>2, <2>1 DEF FlightInv, CancelWaiter, Depart, FlightTypeOK
  <2>3. TakenKeyIsLed' /\ OneLeaderPerKey' /\ LeadersHoldTheirKey' /\ WaitersAreAboard'
    BY <1>2 DEF FlightInv, CancelWaiter, Depart, FlightTypeOK, TakenKeyIsLed, OneLeaderPerKey,
                LeadersHoldTheirKey, WaitersAreAboard
  <2>4. JoinableIsUnfinished' /\ FlightsKeepToTheirKey'
    BY <1>2, <2>1 DEF FlightInv, CancelWaiter, FlightTypeOK, JoinableIsUnfinished,
                      FlightsKeepToTheirKey
  <2>5. CancelledIsDisturbed' /\ OutcomeIsFuture'
    BY <1>2, <2>1 DEF FlightInv, CancelWaiter, Depart, FlightTypeOK, CancelledIsDisturbed,
                      OutcomeIsFuture
  <2> QED BY <2>2, <2>3, <2>4, <2>5 DEF FlightInv
<1> QED BY <1>1, <1>2

\* FlightInv is inductive: it holds in every behaviour of SingleFlight.do, with any
\* overlap of calls and any cancellation.
THEOREM FlightsHold == FlightSpec => []FlightInv
<1>1. FlightInv /\ [FlightNext]_flightVars => FlightInv'
  <2> SUFFICES ASSUME FlightInv, [FlightNext]_flightVars PROVE FlightInv'
    OBVIOUS
  <2>1. CASE UNCHANGED flightVars
    BY <2>1 DEF flightVars, FlightInv, FlightTypeOK, TakenKeyIsLed, OneLeaderPerKey,
                JoinableIsUnfinished, LeadersHoldTheirKey, FlightsKeepToTheirKey,
                WaitersAreAboard, CancelledIsDisturbed, OutcomeIsFuture
  <2>2. CASE FlightNext
    BY <2>2, EntryKeepsFlightInv, LandingKeepsFlightInv, WaiterKeepsFlightInv DEF FlightNext
  <2> QED BY <2>1, <2>2
<1> QED BY <1>1, FlightStart, PTL DEF FlightSpec

\* The futures, the registry and the callers of do() fit together, and whoever
\* joins a flight shares a computation that has not ended yet.
THEOREM RegistryHolds == FlightSpec => []RegistryIsSound
<1>1. FlightInv => RegistryIsSound
  BY DEF FlightInv, RegistryIsSound
<1> QED BY <1>1, FlightsHold, PTL

\* singleflight.py's "only one computes the result", for any number of callers.
THEOREM AtMostOneLeader == FlightSpec => []OneLeaderPerKey
<1>1. FlightInv => OneLeaderPerKey
  BY DEF FlightInv
<1> QED BY <1>1, FlightsHold, PTL

\* The registry entry of a key is never stale: it exists exactly while its
\* leader runs fn.
THEOREM RegistryIsLive == FlightSpec => []TakenKeyIsLed
<1>1. FlightInv => TakenKeyIsLed
  BY DEF FlightInv
<1> QED BY <1>1, FlightsHold, PTL

\* The callers of a flight of which no waiter was cancelled agree on its outcome.
THEOREM OutcomesAgree == FlightSpec => []OutcomeIsShared
<1>1. FlightInv => OutcomeIsShared
  BY DEF FlightInv, OutcomeIsFuture, OutcomeIsShared
<1> QED BY <1>1, FlightsHold, PTL
=============================================================================

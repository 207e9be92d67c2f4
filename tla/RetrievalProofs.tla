-------------------------- MODULE RetrievalProofs --------------------------
(* Proofs about Retrieval, for every set of calls, documents and queries.   *)
EXTENDS Retrieval, FiniteSetTheorems, SequenceTheorems, TLAPS

Fetching(c) == call[c].phase = "indexing"

\* A call that fetches documents for the index found the flag down; two of
\* them, or one that goes on after another has built it, have overlapped.
BuildsAreWatched ==
  /\ call = [c \in Calls |-> call[c]]
  /\ \A c \in Calls : "phase" \in DOMAIN call[c]
  /\ builds \in Nat /\ indexed \in BOOLEAN
  /\ ~indexed => builds = 0
  /\ builds > 1 => overlap
  /\ \A c \in Calls : Fetching(c) /\ builds > 0 => overlap
  /\ \A c, d \in Calls : c # d /\ Fetching(c) /\ Fetching(d) => overlap

-----------------------------------------------------------------------------
\* A step that starts no fetching and builds nothing.
LEMMA NoFetching ==
  ASSUME BuildsAreWatched, NEW c \in Calls, NEW r, call' = [call EXCEPT ![c] = r],
         "phase" \in DOMAIN r, r.phase # "indexing", UNCHANGED <<indexed, builds, overlap>>
  PROVE  BuildsAreWatched'
<1>1. \A d \in Calls : call'[d] = IF d = c THEN r ELSE call[d]
  BY DEF BuildsAreWatched
<1>2. \A d \in Calls : Fetching(d)' => Fetching(d)
  BY <1>1 DEF Fetching
<1> QED BY <1>1, <1>2 DEF BuildsAreWatched

\* A search ends, and the call may go on to fetch for the index.
LEMMA FetchingStarts ==
  ASSUME BuildsAreWatched, NEW c \in Calls, NEW r, call' = [call EXCEPT ![c] = r],
         "phase" \in DOMAIN r, r.phase = "indexing" => ~indexed, UNCHANGED <<indexed, builds>>,
         overlap' = (overlap \/ (r.phase = "indexing" /\
                       \E x \in Calls \ {c} : call[x].phase = "indexing"))
  PROVE  BuildsAreWatched'
<1>1. \A d \in Calls : call'[d] = IF d = c THEN r ELSE call[d]
  BY DEF BuildsAreWatched
<1>2. \A d \in Calls : Fetching(d)' <=> IF d = c THEN r.phase = "indexing" ELSE Fetching(d)
  BY <1>1 DEF Fetching
<1>3. overlap => overlap'
  OBVIOUS
<1>4. ASSUME NEW d \in Calls, Fetching(d)', builds' > 0 PROVE overlap'
  BY <1>2, <1>3, <1>4 DEF BuildsAreWatched
<1>5. ASSUME NEW d \in Calls, NEW e \in Calls, d # e, Fetching(d)', Fetching(e)' PROVE overlap'
  <2>1. CASE d # c /\ e # c
    BY <1>2, <1>3, <1>5, <2>1 DEF BuildsAreWatched
  <2>2. CASE d = c \/ e = c
    BY <1>2, <1>5, <2>2 DEF Fetching
  <2> QED BY <2>1, <2>2
<1>6. builds' > 1 => overlap'
  BY <1>3 DEF BuildsAreWatched
<1> QED BY <1>1, <1>4, <1>5, <1>6 DEF BuildsAreWatched

\* The index is built.
LEMMA IndexIsWatched ==
  ASSUME BuildsAreWatched, NEW c \in Calls, Index(c)
  PROVE  BuildsAreWatched'
<1> DEFINE r == [call[c] EXCEPT !.phase = "hybrid"]
<1>1. /\ call' = [call EXCEPT ![c] = r] /\ Fetching(c)
      /\ builds' = builds + 1 /\ indexed' = TRUE /\ overlap' = overlap
  BY DEF Index, Go, Build, IndexedNow, Fetching
<1>2. "phase" \in DOMAIN r /\ r.phase = "hybrid"
  BY DEF BuildsAreWatched
<1> HIDE DEF r
<1>3. \A d \in Calls : call'[d] = IF d = c THEN r ELSE call[d]
  BY <1>1 DEF BuildsAreWatched
<1>4. \A d \in Calls : Fetching(d)' => d # c /\ Fetching(d)
  BY <1>2, <1>3 DEF Fetching
<1>5. ASSUME NEW d \in Calls, Fetching(d)' PROVE overlap'
  BY <1>1, <1>4, <1>5 DEF BuildsAreWatched
<1>6. builds' > 1 => overlap'
  BY <1>1 DEF BuildsAreWatched
<1> QED BY <1>1, <1>2, <1>3, <1>5, <1>6 DEF BuildsAreWatched

\* Where a call goes after a search: to the index only while the flag is down.
LEMMA AfterSearchPhase ==
  ASSUME NEW r, "phase" \in DOMAIN r
  PROVE  /\ "phase" \in DOMAIN AfterSearch(r)
         /\ AfterSearch(r).phase = "indexing" => ~indexed
BY DEF AfterSearch

LEMMA CallIsWatched ==
  ASSUME BuildsAreWatched, NEW c \in Calls,
         \/ \E kind \in {"retrieve", "multi", "hybrid"} : Start(c, kind)
         \/ Expand(c) \/ SearchNext(c) \/ SearchesEnd(c)
         \/ Semantic(c) \/ Raise(c) \/ Index(c) \/ Hybrid(c) \/ Finish(c) \/ Return(c)
  PROVE  BuildsAreWatched'
<1>0. "phase" \in DOMAIN call[c]
  BY DEF BuildsAreWatched
<1>1. ASSUME NEW kind, Start(c, kind) PROVE BuildsAreWatched'
  <2>1. PICK q, phase :
          /\ Go(c, [kind |-> kind, query |-> q, tag |-> "any", found |-> <<>>, best |-> "none",
                    failed |-> FALSE, model |-> FALSE, dropped |-> {}, first |-> {},
                    stale |-> FALSE, left |-> <<>>, semantic |-> <<>>, keyword |-> <<>>,
                    phase |-> phase])
          /\ phase \in {"rewriting", "hybrid", "semantic"}
    <3> DEFINE phase == IF kind = "multi" \/ (kind = "retrieve" /\ flags.expand) THEN "rewriting"
                        ELSE IF kind = "hybrid" THEN "hybrid" ELSE "semantic"
    <3>1. phase \in {"rewriting", "hybrid", "semantic"}
      OBVIOUS
    <3> QED BY <1>1, <3>1, Zenon DEF Start
  <2>2. UNCHANGED <<indexed, builds, overlap>>
    BY <1>1 DEF Start
  <2> DEFINE r == [kind |-> kind, query |-> q, tag |-> "any", found |-> <<>>, best |-> "none",
                   failed |-> FALSE, model |-> FALSE, dropped |-> {}, first |-> {},
                   stale |-> FALSE, left |-> <<>>, semantic |-> <<>>, keyword |-> <<>>,
                   phase |-> phase]
  <2>3. "phase" \in DOMAIN r /\ r.phase # "indexing"
    BY <2>1
  <2>4. call' = [call EXCEPT ![c] = r]
    BY <2>1 DEF Go
  <2> HIDE DEF r
  <2> QED BY <2>2, <2>3, <2>4, NoFetching
<1>2. CASE Expand(c)
  <2>1. PICK left : Go(c, [call[c] EXCEPT !.phase = "searching", !.left = left])
    BY <1>2 DEF Expand
  <2> DEFINE r == [call[c] EXCEPT !.phase = "searching", !.left = left]
  <2>2. "phase" \in DOMAIN r /\ r.phase = "searching"
    BY <1>0
  <2>3. call' = [call EXCEPT ![c] = r] /\ UNCHANGED <<indexed, builds, overlap>>
    BY <1>2, <2>1 DEF Expand, Go
  <2> HIDE DEF r
  <2> QED BY <2>2, <2>3, NoFetching
<1>3. CASE SearchNext(c)
  <2>1. PICK found, failed :
          Go(c, [call[c] EXCEPT !.left = Tail(call[c].left), !.found = found]) \/
          Go(c, [call[c] EXCEPT !.left = Tail(call[c].left), !.failed = failed])
    BY <1>3, Zenon DEF SearchNext
  <2>2. UNCHANGED <<indexed, builds, overlap>> /\ call[c].phase = "searching"
    BY <1>3 DEF SearchNext
  <2>3. ASSUME NEW r, "phase" \in DOMAIN r, r.phase = "searching", Go(c, r)
        PROVE  BuildsAreWatched'
    BY <2>2, <2>3, NoFetching DEF Go
  <2>4. CASE Go(c, [call[c] EXCEPT !.left = Tail(call[c].left), !.found = found])
    <3> DEFINE r == [call[c] EXCEPT !.left = Tail(call[c].left), !.found = found]
    <3>1. "phase" \in DOMAIN r /\ r.phase = "searching"
      BY <1>0, <2>2
    <3> QED BY <2>3, <2>4, <3>1
  <2>5. CASE Go(c, [call[c] EXCEPT !.left = Tail(call[c].left), !.failed = failed])
    <3> DEFINE r == [call[c] EXCEPT !.left = Tail(call[c].left), !.failed = failed]
    <3>1. "phase" \in DOMAIN r /\ r.phase = "searching"
      BY <1>0, <2>2
    <3> QED BY <2>3, <2>5, <3>1
  <2> QED BY <2>1, <2>4, <2>5
<1>4. CASE SearchesEnd(c)
  <2> DEFINE s == [call[c] EXCEPT !.found = First(BestFirst(call[c].found), 2 * Limit)]
             r == AfterSearch(s)
  <2>1. /\ call' = [call EXCEPT ![c] = r] /\ UNCHANGED <<indexed, builds>>
        /\ overlap' = (overlap \/ (r.phase = "indexing" /\
                         \E x \in Calls \ {c} : call[x].phase = "indexing"))
    BY <1>4 DEF SearchesEnd, Go
  <2>2. "phase" \in DOMAIN s
    BY <1>0
  <2>3. "phase" \in DOMAIN r /\ (r.phase = "indexing" => ~indexed)
    BY <2>2, AfterSearchPhase
  <2> HIDE DEF r
  <2> QED BY <2>1, <2>3, FetchingStarts
<1>5. CASE Semantic(c)
  <2> DEFINE hits == Nearest(call[c].query, 2 * Limit)
             s == [call[c] EXCEPT !.found = hits, !.first = store,
                     !.best = IF hits = <<>> THEN "none" ELSE hits[1].id]
             r == AfterSearch(s)
  <2>1. /\ call' = [call EXCEPT ![c] = r] /\ UNCHANGED <<indexed, builds>>
        /\ overlap' = (overlap \/ (r.phase = "indexing" /\
                         \E x \in Calls \ {c} : call[x].phase = "indexing"))
    BY <1>5 DEF Semantic, Go
  <2>2. "phase" \in DOMAIN s
    BY <1>0
  <2>3. "phase" \in DOMAIN r /\ (r.phase = "indexing" => ~indexed)
    BY <2>2, AfterSearchPhase
  <2> HIDE DEF r
  <2> QED BY <2>1, <2>3, FetchingStarts
<1>6. CASE Raise(c) \/ Return(c)
  <2>1. call' = [call EXCEPT ![c] = Idle] /\ UNCHANGED <<indexed, builds, overlap>>
    BY <1>6 DEF Raise, Return, Go
  <2>2. "phase" \in DOMAIN Idle /\ Idle.phase = "idle"
    BY DEF Idle
  <2> QED BY <2>1, <2>2, NoFetching
<1>7. CASE Hybrid(c)
  <2>1. PICK found, stale, semantic, keyword :
          \/ Go(c, [call[c] EXCEPT !.found = found, !.phase = "ranking",
                                   !.stale = stale, !.first = {}])
          \/ Go(c, [call[c] EXCEPT !.found = found, !.phase = "done",
                                   !.semantic = semantic, !.keyword = keyword])
    BY <1>7, Zenon DEF Hybrid
  <2> DEFINE r == [call[c] EXCEPT !.found = found, !.phase = "ranking",
                                  !.stale = stale, !.first = {}]
             s == [call[c] EXCEPT !.found = found, !.phase = "done",
                                  !.semantic = semantic, !.keyword = keyword]
  <2>2. "phase" \in DOMAIN r /\ r.phase = "ranking" /\ "phase" \in DOMAIN s /\ s.phase = "done"
    BY <1>0
  <2>3. /\ call' = [call EXCEPT ![c] = r] \/ call' = [call EXCEPT ![c] = s]
        /\ UNCHANGED <<indexed, builds, overlap>>
    BY <1>7, <2>1 DEF Hybrid, Go
  <2> HIDE DEF r, s
  <2> QED BY <2>2, <2>3, NoFetching
<1>8. CASE Finish(c)
  <2>1. PICK model, dropped, found, tag :
          Go(c, [call[c] EXCEPT !.phase = "done", !.model = model, !.dropped = dropped,
                                !.found = found, !.tag = tag])
    BY <1>8 DEF Finish
  <2> DEFINE r == [call[c] EXCEPT !.phase = "done", !.model = model, !.dropped = dropped,
                                  !.found = found, !.tag = tag]
  <2>2. "phase" \in DOMAIN r /\ r.phase = "done"
    BY <1>0
  <2>3. call' = [call EXCEPT ![c] = r] /\ UNCHANGED <<indexed, builds, overlap>>
    BY <1>8, <2>1 DEF Finish, Go
  <2> HIDE DEF r
  <2> QED BY <2>2, <2>3, NoFetching
<1> QED BY <1>1, <1>2, <1>3, <1>4, <1>5, <1>6, <1>7, <1>8, IndexIsWatched

\* The keyword index is built a second time only when two retrievals fetched
\* its documents at the same time (advanced_retriever.py:120).
THEOREM OneBuildWithoutOverlap == Spec => []BuiltTwiceOnlyByOverlap
<1>1. Init => BuildsAreWatched
  <2> SUFFICES ASSUME Init PROVE BuildsAreWatched
    OBVIOUS
  <2>1. /\ call = [c \in Calls |-> Idle] /\ indexed = FALSE /\ builds = 0
        /\ "phase" \in DOMAIN Idle /\ Idle.phase = "idle"
    BY DEF Init, Idle
  <2>2. \A c \in Calls : "phase" \in DOMAIN call[c] /\ ~Fetching(c)
    BY <2>1 DEF Fetching
  <2>3. builds \in Nat /\ ~(builds > 0) /\ ~(builds > 1)
    <3>1. builds = 0
      BY <2>1
    <3> QED BY <3>1
  <2>4. indexed \in BOOLEAN
    BY <2>1, Zenon
  <2>5. call = [c \in Calls |-> call[c]]
    BY <2>1
  <2> QED BY <2>1, <2>2, <2>3, <2>4, <2>5, Zenon DEF BuildsAreWatched
<1>2. BuildsAreWatched /\ [Next]_vars => BuildsAreWatched'
  <2>1. ASSUME BuildsAreWatched, UNCHANGED <<call, indexed, builds, overlap>>
        PROVE  BuildsAreWatched'
    BY <2>1 DEF BuildsAreWatched, Fetching
  <2> QED BY <2>1, CallIsWatched DEF Next, Change, vars
<1>3. BuildsAreWatched => BuiltTwiceOnlyByOverlap
  BY DEF BuildsAreWatched, BuiltTwiceOnlyByOverlap
<1> QED BY <1>1, <1>2, <1>3, PTL DEF Spec

-----------------------------------------------------------------------------
(* Stable sorting by counting. *)

\* ahead orders T.
TotalOrder(T, ahead) ==
  /\ \A i \in T : <<i, i>> \notin ahead
  /\ \A i, j \in T : i # j => <<i, j>> \in ahead \/ <<j, i>> \in ahead
  /\ \A i, j, k \in T : <<i, j>> \in ahead /\ <<j, k>> \in ahead => <<i, k>> \in ahead

Place(T, ahead) == [i \in T |-> Cardinality({j \in T : j = i \/ <<j, i>> \in ahead})]

Counts(T, ahead, place) ==
  /\ place \in [T -> 1..Cardinality(T)]
  /\ \A i, j \in T : <<i, j>> \in ahead => place[i] < place[j]
  /\ \A i, j \in T : place[i] = place[j] => i = j
  /\ \A k \in 1..Cardinality(T) : \E i \in T : place[i] = k

\* Who counts those ahead of it and itself has a place of its own.
LEMMA Places ==
  ASSUME NEW T, IsFiniteSet(T), NEW ahead, TotalOrder(T, ahead)
  PROVE  Counts(T, ahead, Place(T, ahead))
<1>0. PICK place : place = Place(T, ahead)
  OBVIOUS
<1> DEFINE upto(i) == {j \in T : j = i \/ <<j, i>> \in ahead}
<1>1. \A i \in T : upto(i) \in SUBSET T /\ i \in upto(i)
  OBVIOUS
<1>2. Cardinality(T) \in Nat
  BY FS_CardinalityType
<1>3. place = [i \in T |-> Cardinality(upto(i))]
  BY <1>0 DEF Place
<1>4. \A i \in T : IsFiniteSet(upto(i)) /\ Cardinality(upto(i)) \in 1..Cardinality(T)
  <2> TAKE i \in T
  <2> HIDE DEF upto
  <2>1. IsFiniteSet(upto(i)) /\ Cardinality(upto(i)) <= Cardinality(T)
    BY <1>1, FS_Subset
  <2>2. Cardinality(upto(i)) \in Nat /\ Cardinality(upto(i)) # 0
    BY <1>1, <2>1, FS_CardinalityType, FS_EmptySet
  <2> QED BY <1>2, <2>1, <2>2
<1>5. place \in [T -> 1..Cardinality(T)]
  BY <1>3, <1>4
<1>6. ASSUME NEW i \in T, NEW j \in T, <<i, j>> \in ahead
      PROVE  place[i] < place[j]
  <2>1. upto(i) \in SUBSET upto(j) /\ j \notin upto(i) /\ j \in upto(j)
    BY <1>6 DEF TotalOrder
  <2> HIDE DEF upto
  <2>2. Cardinality(upto(i)) <= Cardinality(upto(j)) /\ Cardinality(upto(i)) # Cardinality(upto(j))
    BY <1>4, <2>1, FS_Subset
  <2>3. Cardinality(upto(i)) \in Int /\ Cardinality(upto(j)) \in Int
    BY <1>2, <1>4
  <2> QED BY <1>3, <2>2, <2>3
<1>7. ASSUME NEW i \in T, NEW j \in T, place[i] = place[j]
      PROVE  i = j
  <2> SUFFICES ASSUME i # j PROVE FALSE
    OBVIOUS
  <2>1. <<i, j>> \in ahead \/ <<j, i>> \in ahead
    BY DEF TotalOrder
  <2>2. place[i] \in Int /\ place[j] \in Int
    BY <1>2, <1>5
  <2> QED BY <1>6, <1>7, <2>1, <2>2
<1>8. \A k \in 1..Cardinality(T) : \E i \in T : place[i] = k
  <2>1. IsFiniteSet(1..Cardinality(T)) /\ Cardinality(1..Cardinality(T)) = Cardinality(T)
    BY <1>2, FS_Interval
  <2>2. place \in Injection(T, 1..Cardinality(T))
    BY <1>5, <1>7 DEF Injection, IsInjective
  <2>3. place \in Surjection(T, 1..Cardinality(T))
    BY <2>1, <2>2, FS_Injection
  <2> QED BY <2>3 DEF Surjection
<1> QED BY <1>0, <1>5, <1>6, <1>7, <1>8 DEF Counts

\* A strict weak order on T: what a sort needs.
WeakOrder(T, better) ==
  /\ \A i, j \in T : <<i, j>> \in better => <<j, i>> \notin better
  /\ \A i, j, k \in T : <<i, k>> \in better => <<i, j>> \in better \/ <<j, k>> \in better

\* order lists T, as a stable sort does.
StableOrder(order, T, better) ==
  /\ order \in [1..Cardinality(T) -> T]
  /\ \A k, l \in 1..Cardinality(T) : order[k] = order[l] => k = l
  /\ \A i \in T : \E k \in 1..Cardinality(T) : order[k] = i
  /\ \A k, l \in 1..Cardinality(T) :
       k < l => \/ <<order[k], order[l]>> \in better
                \/ <<order[l], order[k]>> \notin better /\ order[k] < order[l]

\* Ranked lists s in a stable order of T.
LEMMA RankedIsStable ==
  ASSUME NEW s, NEW T \in SUBSET Int, IsFiniteSet(T), NEW better, WeakOrder(T, better)
  PROVE  \E order : /\ StableOrder(order, T, better)
                    /\ Ranked(s, T, better) = [k \in 1..Cardinality(T) |-> s[order[k]]]
<1> DEFINE before(i, j) == <<i, j>> \in better \/ (<<j, i>> \notin better /\ i < j)
           ahead == {p \in T \X T : before(p[1], p[2])}
           place == Place(T, ahead)
           order == [k \in 1..Cardinality(T) |-> CHOOSE i \in T : place[i] = k]
<1>1. \A i, j \in T : <<i, j>> \in ahead <=> before(i, j)
  OBVIOUS
<1>2. TotalOrder(T, ahead)
  <2>1. \A i \in T : ~before(i, i)
    BY DEF WeakOrder
  <2>2. \A i, j \in T : i # j => before(i, j) \/ before(j, i)
    <3>1. \A i, j \in T : i # j => i < j \/ j < i
      OBVIOUS
    <3> QED BY <3>1
  <2>3. \A i, j, k \in T : before(i, j) /\ before(j, k) => before(i, k)
    <3> SUFFICES ASSUME NEW i \in T, NEW j \in T, NEW k \in T, before(i, j), before(j, k)
                 PROVE  before(i, k)
      OBVIOUS
    <3>1. i < j /\ j < k => i < k
      OBVIOUS
    <3> QED BY <3>1 DEF WeakOrder
  <2> HIDE DEF before, ahead
  <2> QED BY <1>1, <2>1, <2>2, <2>3 DEF TotalOrder
<1>3. Ranked(s, T, better) = [k \in 1..Cardinality(T) |-> s[order[k]]]
  <2>1. \A i \in T : {j \in T : j = i \/ before(j, i)} = {j \in T : j = i \/ <<j, i>> \in ahead}
    BY <1>1
  <2>2. place = [i \in T |-> Cardinality({j \in T : j = i \/ before(j, i)})]
    <3> HIDE DEF before, ahead
    <3> QED BY <2>1 DEF Place
  <2>3. Ranked(s, T, better) =
          LET all == [i \in T |-> Cardinality({j \in T : j = i \/ before(j, i)})]
          IN  [k \in 1..Cardinality(T) |-> s[CHOOSE i \in T : all[i] = k]]
    BY DEF Ranked
  <2> HIDE DEF before, place
  <2> QED BY <2>2, <2>3
<1> HIDE DEF ahead, place
<1>4. Counts(T, ahead, place)
  BY <1>2, Places DEF place
<1>5. \A k \in 1..Cardinality(T) : order[k] \in T /\ place[order[k]] = k
  BY <1>4 DEF Counts
<1>6. \A i \in T : order[place[i]] = i
  BY <1>4, <1>5 DEF Counts
<1>7. order \in [1..Cardinality(T) -> T]
  BY <1>5
<1>8. ASSUME NEW k \in 1..Cardinality(T), NEW l \in 1..Cardinality(T), k < l
      PROVE  before(order[k], order[l])
  <2>1. <<order[k], order[l]>> \in ahead \/ <<order[l], order[k]>> \in ahead
    <3>1. order[k] # order[l]
      BY <1>5, <1>8
    <3> HIDE DEF order
    <3> QED BY <1>2, <1>5, <3>1 DEF TotalOrder
  <2> HIDE DEF order, before
  <2>2. ~(place[order[l]] < place[order[k]])
    <3>1. k \in Int /\ l \in Int
      BY FS_CardinalityType
    <3> QED BY <1>5, <1>8, <3>1
  <2> QED BY <1>1, <1>4, <1>5, <2>1, <2>2 DEF Counts
<1> HIDE DEF order
<1>9. StableOrder(order, T, better)
  BY <1>4, <1>5, <1>6, <1>7, <1>8 DEF StableOrder, Counts
<1> QED BY <1>3, <1>9

-----------------------------------------------------------------------------
(* Sequences that are selected from others. *)

\* t lists the elements of s at T in a stable order.
Ranking(t, order, s, T, better) ==
  /\ StableOrder(order, T, better)
  /\ Len(t) = Cardinality(T)
  /\ \A k \in 1..Len(t) : order[k] \in 1..Len(s) /\ t[k] = s[order[k]]

\* A sorted sequence has its elements from T, each once, in order.
LEMMA RankedProperties ==
  ASSUME NEW S, NEW s \in Seq(S), NEW T \in SUBSET (1..Len(s)), NEW better,
         WeakOrder(T, better)
  PROVE  /\ Ranked(s, T, better) \in Seq(S)
         /\ IsFiniteSet(T) /\ Cardinality(T) \in 0..Len(s)
         /\ \E order : Ranking(Ranked(s, T, better), order, s, T, better)
<1>0. Len(s) \in Nat
  OBVIOUS
<1>1. IsFiniteSet(T) /\ Cardinality(T) \in 0..Len(s)
  <2>1. IsFiniteSet(1..Len(s)) /\ Cardinality(1..Len(s)) = Len(s)
    <3>1. Cardinality(1..Len(s)) = IF 1 > Len(s) THEN 0 ELSE Len(s) - 1 + 1
      BY <1>0, FS_Interval
    <3> QED BY <1>0, <3>1, FS_Interval
  <2>2. IsFiniteSet(T) /\ Cardinality(T) <= Len(s)
    BY <2>1, FS_Subset
  <2> QED BY <1>0, <2>2, FS_CardinalityType
<1>2. T \in SUBSET Int
  BY <1>0
<1>3. PICK order : /\ StableOrder(order, T, better)
                   /\ Ranked(s, T, better) = [k \in 1..Cardinality(T) |-> s[order[k]]]
  BY <1>1, <1>2, RankedIsStable
<1>4. PICK t : t = Ranked(s, T, better)
  OBVIOUS
<1>5. PICK n \in Nat : n = Cardinality(T)
  BY <1>1
<1>6. \A k \in 1..n : order[k] \in 1..Len(s) /\ s[order[k]] \in S
  <2>1. \A k \in 1..n : order[k] \in T
    BY <1>3, <1>5 DEF StableOrder
  <2>2. \A i \in T : i \in 1..Len(s) /\ s[i] \in S
    OBVIOUS
  <2> QED BY <2>1, <2>2
<1>7. t \in Seq(S) /\ Len(t) = n /\ \A k \in 1..n : t[k] = s[order[k]]
  <2>1. t = [k \in 1..n |-> s[order[k]]]
    BY <1>3, <1>4, <1>5
  <2>2. t \in [1..n -> S]
    BY <1>6, <2>1
  <2>3. t \in Seq(S) /\ Len(t) = n
    BY <2>2
  <2> QED BY <2>1, <2>3
<1>8. Ranking(t, order, s, T, better)
  BY <1>3, <1>5, <1>6, <1>7 DEF Ranking
<1> QED BY <1>1, <1>4, <1>7, <1>8

\* What is kept of a sequence, in the order it was.
LEMMA KeptProperties ==
  ASSUME NEW S, NEW s \in Seq(S), NEW T \in SUBSET (1..Len(s))
  PROVE  /\ Kept(s, T) \in Seq(S)
         /\ IsFiniteSet(T) /\ Cardinality(T) \in 0..Len(s)
         /\ \E order : Ranking(Kept(s, T), order, s, T, {})
<1>1. WeakOrder(T, {})
  BY DEF WeakOrder
<1> QED BY <1>1, RankedProperties DEF Kept

\* Nothing is kept of no indices.
LEMMA NothingKept ==
  ASSUME NEW S, NEW s \in Seq(S)
  PROVE  Kept(s, {}) = <<>>
<1>1. Kept(s, {}) \in Seq(S) /\ \E order : Ranking(Kept(s, {}), order, s, {}, {})
  <2>1. {} \in SUBSET (1..Len(s))
    OBVIOUS
  <2> QED BY <2>1, KeptProperties
<1>2. Len(Kept(s, {})) = 0
  BY <1>1, FS_EmptySet DEF Ranking
<1> QED BY <1>1, <1>2, EmptySeq

\* The first n elements.
LEMMA FirstProperties ==
  ASSUME NEW S, NEW s \in Seq(S), NEW n \in Nat
  PROVE  /\ First(s, n) \in Seq(S)
         /\ Len(First(s, n)) = IF n < Len(s) THEN n ELSE Len(s)
         /\ \A k \in 1..Len(First(s, n)) : First(s, n)[k] = s[k]
<1>1. PICK m \in Nat : m = (IF n < Len(s) THEN n ELSE Len(s)) /\ m <= Len(s)
  OBVIOUS
<1>2. First(s, n) = SubSeq(s, 1, m)
  BY <1>1 DEF First
<1>3. \A k \in 1..m : s[k] \in S
  BY <1>1
<1>4. /\ SubSeq(s, 1, m) \in Seq(S)
      /\ Len(SubSeq(s, 1, m)) = IF 1 <= m THEN m - 1 + 1 ELSE 0
      /\ \A k \in 1..m - 1 + 1 : SubSeq(s, 1, m)[k] = s[1 + k - 1]
  BY <1>1, <1>3, SubSeqProperties
<1> QED BY <1>1, <1>2, <1>4

-----------------------------------------------------------------------------
\* t is made of elements of s at different places.
Picked(t, place, s) ==
  /\ place \in [1..Len(t) -> 1..Len(s)]
  /\ \A k, l \in 1..Len(t) : place[k] = place[l] => k = l
  /\ \A k \in 1..Len(t) : t[k] = s[place[k]]

Selects(t, s) == \E place : Picked(t, place, s)

\* Sorting selects elements.
LEMMA RankingSelects ==
  ASSUME NEW s, NEW t, NEW T, NEW order, NEW better, Ranking(t, order, s, T, better)
  PROVE  Selects(t, s)
<1> DEFINE place == [k \in 1..Len(t) |-> order[k]]
<1>1. \A k \in 1..Len(t) : place[k] = order[k]
  OBVIOUS
<1>2. place \in [1..Len(t) -> 1..Len(s)]
  BY DEF Ranking
<1> HIDE DEF place
<1>3. Picked(t, place, s)
  BY <1>1, <1>2 DEF Picked, Ranking, StableOrder
<1> QED BY <1>3 DEF Selects

\* Cutting selects elements.
LEMMA FirstSelects ==
  ASSUME NEW S, NEW s \in Seq(S), NEW n \in Nat
  PROVE  Selects(First(s, n), s)
<1>1. PICK t \in Seq(S) : t = First(s, n)
  BY FirstProperties
<1>2. Len(t) <= Len(s) /\ Len(t) \in Nat /\ Len(s) \in Nat /\ \A k \in 1..Len(t) : t[k] = s[k]
  BY <1>1, FirstProperties
<1> DEFINE place == [k \in 1..Len(t) |-> k]
<1>3. Picked(t, place, s)
  BY <1>2 DEF Picked
<1> QED BY <1>1, <1>3 DEF Selects

\* A sequence selects itself.
LEMMA SelectsAll ==
  ASSUME NEW s
  PROVE  Selects(s, s)
<1> DEFINE place == [k \in 1..Len(s) |-> k]
<1>1. Picked(s, place, s)
  BY DEF Picked
<1> QED BY <1>1 DEF Selects

\* A selection of a selection is one.
LEMMA SelectsOfSelects ==
  ASSUME NEW s, NEW t, NEW u, Selects(t, s), Selects(u, t)
  PROVE  Selects(u, s)
<1>1. PICK f : Picked(t, f, s)
  BY DEF Selects
<1>2. PICK g : Picked(u, g, t)
  BY DEF Selects
<1> DEFINE place == [k \in 1..Len(u) |-> f[g[k]]]
<1>3. Picked(u, place, s)
  BY <1>1, <1>2 DEF Picked
<1> QED BY <1>3 DEF Selects

-----------------------------------------------------------------------------
(* Answers: hits of which no two have the same id. *)

Hit == [id : Docs, score : Int]

Distinct(s) == \A i, j \in 1..Len(s) : s[i].id = s[j].id => i = j

\* Hits without a document twice.
Answer(s) == s \in Seq(Hit) /\ Distinct(s)

Sorted(s) == \A i, j \in 1..Len(s) : i < j => s[i].score >= s[j].score

\* The ids of a sequence of hits.
LEMMA IdsAre ==
  ASSUME NEW s \in Seq(Hit)
  PROVE  IdsOf(s) = {s[i].id : i \in 1..Len(s)} /\ IdsOf(s) \in SUBSET Docs
<1>1. DOMAIN s = 1..Len(s)
  BY LenProperties
<1>2. \A i \in 1..Len(s) : s[i] \in Hit
  OBVIOUS
<1> QED BY <1>1, <1>2 DEF IdsOf, Hit

\* A selection of an answer is one.
LEMMA SelectionIsAnswer ==
  ASSUME NEW s, Answer(s), NEW t \in Seq(Hit), Selects(t, s)
  PROVE  Answer(t) /\ IdsOf(t) \subseteq IdsOf(s)
<1>1. PICK place : Picked(t, place, s)
  BY DEF Selects
<1>2. Distinct(t)
  BY <1>1 DEF Answer, Distinct, Picked
<1>3. s \in Seq(Hit)
  BY DEF Answer
<1>4. IdsOf(s) = {s[i].id : i \in 1..Len(s)} /\ IdsOf(t) = {t[i].id : i \in 1..Len(t)}
  BY <1>3, IdsAre
<1> QED BY <1>1, <1>2, <1>4 DEF Answer, Picked

\* A list without repetition has as many ids as hits.
LEMMA AnswerHasItsLength ==
  ASSUME NEW s, Answer(s)
  PROVE  Cardinality(IdsOf(s)) = Len(s)
<1>1. s \in Seq(Hit) /\ Len(s) \in Nat
  BY LenProperties DEF Answer
<1>2. IdsOf(s) = {s[i].id : i \in 1..Len(s)}
  BY <1>1, IdsAre
<1> DEFINE f == [i \in 1..Len(s) |-> s[i].id]
<1>3. f \in Surjection(1..Len(s), IdsOf(s)) /\ f \in Injection(1..Len(s), IdsOf(s))
  BY <1>2 DEF Surjection, Injection, IsInjective, Answer, Distinct
<1>4. IsFiniteSet(1..Len(s)) /\ Cardinality(1..Len(s)) = Len(s)
  <2>1. Cardinality(1..Len(s)) = IF 1 > Len(s) THEN 0 ELSE Len(s) - 1 + 1
    BY <1>1, FS_Interval
  <2> QED BY <1>1, <2>1, FS_Interval
<1> HIDE DEF f
<1> QED BY <1>3, <1>4, FS_Surjection

\* BestFirst sorts by score and loses nothing.
LEMMA BestFirstProperties ==
  ASSUME NEW s \in Seq(Hit)
  PROVE  /\ BestFirst(s) \in Seq(Hit) /\ Len(BestFirst(s)) = Len(s)
         /\ Selects(BestFirst(s), s) /\ IdsOf(BestFirst(s)) = IdsOf(s)
         /\ Sorted(BestFirst(s))
         /\ s # <<>> /\ (\A i \in 1..Len(s) : s[1].score >= s[i].score) =>
              BestFirst(s)[1] = s[1]
<1>0. PICK T : T = 1..Len(s)
  OBVIOUS
<1> DEFINE better == {p \in T \X T : s[p[1]].score > s[p[2]].score}
<1>1. DOMAIN s = T /\ Len(s) \in Nat /\ T \in SUBSET Int /\ \A i \in T : s[i].score \in Int
  <2>1. DOMAIN s = T /\ Len(s) \in Nat /\ \A i \in T : s[i] \in Hit
    BY <1>0, LenProperties, ElementOfSeq
  <2> QED BY <1>0, <2>1 DEF Hit
<1>2. \A i, j \in T : <<i, j>> \in better <=> s[i].score > s[j].score
  OBVIOUS
<1>3. PICK t : t = BestFirst(s)
  OBVIOUS
<1>4. t = Ranked(s, T, better)
  BY <1>1, <1>3 DEF BestFirst
<1> HIDE DEF better
<1>5. WeakOrder(T, better)
  <2>1. \A i, j \in T : s[i].score > s[j].score => ~(s[j].score > s[i].score)
    BY <1>1
  <2>2. \A i, j, k \in T : s[i].score > s[k].score =>
                            s[i].score > s[j].score \/ s[j].score > s[k].score
    BY <1>1
  <2> QED BY <1>2, <2>1, <2>2 DEF WeakOrder
<1>6. t \in Seq(Hit) /\ \E order : Ranking(t, order, s, T, better)
  BY <1>0, <1>4, <1>5, RankedProperties
<1>7. PICK order : Ranking(t, order, s, T, better)
  BY <1>6
<1>8. Cardinality(T) = Len(s)
  <2>1. Cardinality(1..Len(s)) = IF 1 > Len(s) THEN 0 ELSE Len(s) - 1 + 1
    BY <1>1, FS_Interval
  <2> QED BY <1>0, <1>1, <2>1
<1>9. Len(t) = Len(s)
  BY <1>7, <1>8 DEF Ranking
<1>10. /\ \A k \in T : order[k] \in T /\ t[k] = s[order[k]]
       /\ \A i \in T : \E k \in T : order[k] = i
       /\ \A k, l \in T : k < l => \/ <<order[k], order[l]>> \in better
                                   \/ <<order[l], order[k]>> \notin better /\ order[k] < order[l]
  BY <1>0, <1>7, <1>8 DEF Ranking, StableOrder
<1>11. Sorted(t)
  <2> SUFFICES ASSUME NEW k \in T, NEW l \in T, k < l PROVE t[k].score >= t[l].score
    BY <1>0, <1>9 DEF Sorted
  <2>1. <<order[l], order[k]>> \notin better
    BY <1>5, <1>10 DEF WeakOrder
  <2>2. order[k] \in T /\ order[l] \in T /\ ~(s[order[l]].score > s[order[k]].score)
    BY <1>2, <1>10, <2>1
  <2>3. s[order[k]].score \in Int /\ s[order[l]].score \in Int
    BY <1>1, <2>2
  <2> QED BY <1>10, <2>2, <2>3
<1>12. IdsOf(t) = IdsOf(s)
  <2>1. IdsOf(s) = {s[i].id : i \in T} /\ IdsOf(t) = {t[i].id : i \in T}
    BY <1>0, <1>6, <1>9, IdsAre
  <2> QED BY <1>10, <2>1
<1>13. ASSUME s # <<>>, \A i \in T : s[1].score >= s[i].score
       PROVE  t[1] = s[1]
  <2>1. 1 \in T
    BY <1>0, <1>13, EmptySeq
  <2>2. PICK k \in T : order[k] = 1
    BY <1>10, <2>1
  <2>3. CASE k = 1
    BY <1>10, <2>1, <2>2, <2>3
  <2>4. CASE k # 1
    <3>1. 1 < k
      BY <1>0, <1>1, <2>4
    <3>2. <<order[1], 1>> \in better \/ order[1] < 1
      BY <1>10, <2>1, <2>2, <3>1
    <3>3. order[1] \in T
      BY <1>10, <2>1
    <3>4. ~(order[1] < 1)
      BY <1>0, <1>1, <3>3
    <3> QED BY <1>1, <1>2, <1>13, <2>1, <3>2, <3>3, <3>4
  <2> QED BY <2>3, <2>4
<1>14. Selects(t, s)
  BY <1>7, RankingSelects
<1> QED BY <1>0, <1>3, <1>6, <1>9, <1>11, <1>12, <1>13, <1>14

\* Adding what is new appends, and keeps ids distinct.
LEMMA AddNewProperties ==
  ASSUME NEW s, NEW h, Answer(s), Answer(h)
  PROVE  /\ Answer(AddNew(s, h))
         /\ Len(s) <= Len(AddNew(s, h))
         /\ \A i \in 1..Len(s) : AddNew(s, h)[i] = s[i]
         /\ IdsOf(AddNew(s, h)) = IdsOf(s) \cup IdsOf(h)
         /\ IdsOf(h) \subseteq IdsOf(s) => AddNew(s, h) = s
<1> DEFINE T == {i \in 1..Len(h) : h[i].id \notin IdsOf(s)}
<1>1. /\ s \in Seq(Hit) /\ Len(s) \in Nat /\ h \in Seq(Hit) /\ Len(h) \in Nat
      /\ DOMAIN h = 1..Len(h)
  BY LenProperties DEF Answer
<1>2. PICK k : k = Kept(h, T)
  OBVIOUS
<1>3. PICK t : t = AddNew(s, h)
  OBVIOUS
<1>4. t = s \o k
  BY <1>1, <1>2, <1>3 DEF AddNew
<1>5. T \in SUBSET (1..Len(h))
  OBVIOUS
<1>6. \A i \in T : h[i].id \notin IdsOf(s)
  OBVIOUS
<1>7. \A i \in 1..Len(h) : i \in T \/ h[i].id \in IdsOf(s)
  OBVIOUS
<1> HIDE DEF T
<1>8. k \in Seq(Hit) /\ \E order : Ranking(k, order, h, T, {})
  BY <1>1, <1>2, <1>5, KeptProperties
<1>9. PICK order : Ranking(k, order, h, T, {})
  BY <1>8
<1>10. /\ \A i \in 1..Len(k) : order[i] \in T /\ k[i] = h[order[i]]
       /\ \A i \in T : \E j \in 1..Len(k) : order[j] = i
  BY <1>9 DEF Ranking, StableOrder
<1>11. Answer(k)
  <2>1. Selects(k, h)
    BY <1>9, RankingSelects
  <2> QED BY <1>8, <2>1, SelectionIsAnswer
<1>12. Len(k) \in Nat
  BY <1>8, LenProperties
<1>13. /\ t \in Seq(Hit) /\ Len(t) = Len(s) + Len(k)
       /\ \A i \in 1..Len(s) : t[i] = s[i]
       /\ \A i \in 1..Len(k) : t[Len(s) + i] = k[i]
  <2>1. /\ t \in Seq(Hit) /\ Len(t) = Len(s) + Len(k)
        /\ \A i \in 1..Len(s) + Len(k) : t[i] = IF i <= Len(s) THEN s[i] ELSE k[i - Len(s)]
    BY <1>1, <1>4, <1>8, ConcatProperties
  <2>2. \A i \in 1..Len(k) : Len(s) + i \in 1..Len(s) + Len(k) /\ ~(Len(s) + i <= Len(s))
                             /\ Len(s) + i - Len(s) = i
    BY <1>1, <1>12
  <2>3. \A i \in 1..Len(s) : i \in 1..Len(s) + Len(k) /\ i <= Len(s)
    BY <1>1, <1>12
  <2> QED BY <2>1, <2>2, <2>3
<1>14. \A i \in 1..Len(t) : \/ i \in 1..Len(s) /\ t[i] = s[i]
                            \/ \E j \in 1..Len(k) : i = Len(s) + j /\ t[i] = k[j]
  <2> SUFFICES ASSUME NEW i \in 1..Len(t), i \notin 1..Len(s)
               PROVE  \E j \in 1..Len(k) : i = Len(s) + j /\ t[i] = k[j]
    BY <1>13
  <2>1. i - Len(s) \in 1..Len(k) /\ i = Len(s) + (i - Len(s))
    BY <1>1, <1>12, <1>13
  <2> QED BY <1>13, <2>1
<1>15. /\ IdsOf(s) = {s[i].id : i \in 1..Len(s)} /\ IdsOf(h) = {h[i].id : i \in 1..Len(h)}
       /\ IdsOf(t) = {t[i].id : i \in 1..Len(t)}
  BY <1>1, <1>13, IdsAre
<1>16. \A i \in 1..Len(k) : k[i].id \in IdsOf(h) /\ k[i].id \notin IdsOf(s)
  BY <1>5, <1>6, <1>10, <1>15
<1>17. Distinct(t)
  <2> SUFFICES ASSUME NEW i \in 1..Len(t), NEW j \in 1..Len(t), t[i].id = t[j].id
               PROVE  i = j
    BY DEF Distinct
  <2>1. CASE i \in 1..Len(s) /\ j \in 1..Len(s)
    BY <1>13, <2>1 DEF Answer, Distinct
  <2>2. CASE i \in 1..Len(s) /\ j \notin 1..Len(s)
    <3>1. t[i].id \in IdsOf(s)
      BY <1>13, <1>15, <2>2
    <3> QED BY <1>14, <1>16, <2>2, <3>1
  <2>3. CASE i \notin 1..Len(s) /\ j \in 1..Len(s)
    <3>1. t[j].id \in IdsOf(s)
      BY <1>13, <1>15, <2>3
    <3> QED BY <1>14, <1>16, <2>3, <3>1
  <2>4. CASE i \notin 1..Len(s) /\ j \notin 1..Len(s)
    <3>1. PICK a \in 1..Len(k) : i = Len(s) + a /\ t[i] = k[a]
      BY <1>14, <2>4
    <3>2. PICK b \in 1..Len(k) : j = Len(s) + b /\ t[j] = k[b]
      BY <1>14, <2>4
    <3>3. a = b
      BY <1>11, <3>1, <3>2 DEF Answer, Distinct
    <3> QED BY <3>1, <3>2, <3>3
  <2> QED BY <2>1, <2>2, <2>3, <2>4
<1>18. IdsOf(t) = IdsOf(s) \cup IdsOf(h)
  <2>1. \A i \in 1..Len(t) : t[i].id \in IdsOf(s) \cup IdsOf(h)
    BY <1>14, <1>15, <1>16
  <2>2. \A i \in 1..Len(s) : i \in 1..Len(t) /\ t[i] = s[i]
    BY <1>1, <1>12, <1>13
  <2>3. ASSUME NEW i \in 1..Len(h), h[i].id \notin IdsOf(s)
        PROVE  \E j \in 1..Len(t) : t[j].id = h[i].id
    <3>1. PICK j \in 1..Len(k) : order[j] = i
      BY <1>7, <1>10, <2>3
    <3>2. t[Len(s) + j] = k[j] /\ k[j] = h[i]
      BY <1>10, <1>13, <3>1
    <3>3. Len(s) + j \in 1..Len(t)
      BY <1>1, <1>12, <1>13
    <3> QED BY <3>2, <3>3
  <2>4. IdsOf(t) \subseteq IdsOf(s) \cup IdsOf(h)
    BY <1>15, <2>1
  <2>5. IdsOf(s) \subseteq IdsOf(t)
    BY <1>15, <2>2
  <2>6. ASSUME NEW d \in IdsOf(h) PROVE d \in IdsOf(s) \cup IdsOf(t)
    <3>1. PICK i \in 1..Len(h) : h[i].id = d
      BY <1>15
    <3> QED BY <1>15, <2>3, <3>1
  <2> QED BY <2>4, <2>5, <2>6
<1>19. ASSUME IdsOf(h) \subseteq IdsOf(s) PROVE t = s
  <2>1. \A i \in 1..Len(k) : FALSE
    BY <1>16, <1>19
  <2>2. Len(k) = 0
    BY <1>12, <2>1
  <2>3. k = <<>>
    BY <1>8, <2>2, EmptySeq
  <2> QED BY <1>1, <1>4, <2>3, ConcatEmptySeq
<1>20. Len(s) <= Len(t)
  BY <1>1, <1>12, <1>13
<1> QED BY <1>3, <1>13, <1>17, <1>18, <1>19, <1>20 DEF Answer

-----------------------------------------------------------------------------
\* A set as a sequence has each element once.
LEMMA SetToSeqProperties ==
  ASSUME NEW S, IsFiniteSet(S)
  PROVE  /\ SetToSeq(S) \in Seq(S) /\ Len(SetToSeq(S)) = Cardinality(S)
         /\ \A i, j \in 1..Len(SetToSeq(S)) : SetToSeq(S)[i] = SetToSeq(S)[j] => i = j
         /\ \A x \in S : \E i \in 1..Len(SetToSeq(S)) : SetToSeq(S)[i] = x
<1>1. PICK n \in Nat : n = Cardinality(S)
  BY FS_CardinalityType
<1>2. ExistsBijection(1..n, S)
  BY <1>1, FS_CardinalityType
<1>3. \E f \in [1..n -> S] : IsInjective(f)
  BY <1>2 DEF ExistsBijection, Bijection, Injection
<1>4. PICK f : f = SetToSeq(S)
  OBVIOUS
<1>5. f \in [1..n -> S] /\ IsInjective(f)
  BY <1>1, <1>3, <1>4 DEF SetToSeq
<1>6. f \in Seq(S) /\ Len(f) = n
  BY <1>5
<1>7. IsFiniteSet(1..n) /\ Cardinality(1..n) = n
  <2>1. Cardinality(1..n) = IF 1 > n THEN 0 ELSE n - 1 + 1
    BY FS_Interval
  <2> QED BY <2>1, FS_Interval
<1>8. f \in Surjection(1..n, S)
  <2>1. f \in Injection(1..n, S)
    BY <1>5 DEF Injection
  <2> QED BY <1>1, <1>7, <2>1, FS_Injection
<1> QED BY <1>1, <1>4, <1>5, <1>6, <1>8 DEF IsInjective, Surjection

\* A search of the vector store: the best documents, best first, and all of
\* them when there are not more.
LEMMA NearestProperties ==
  ASSUME Documents, store \in SUBSET Docs, NEW q \in Queries, NEW n \in Nat
  PROVE  /\ Answer(Nearest(q, n)) /\ Sorted(Nearest(q, n))
         /\ Len(Nearest(q, n)) \in 0..n
         /\ IdsOf(Nearest(q, n)) \subseteq store
         /\ Len(Nearest(q, n)) < n => IdsOf(Nearest(q, n)) = store
<1> DEFINE hit(d) == [id |-> d, score |-> Score[q][d]]
           hits == {hit(d) : d \in store}
<1>1. \A d \in store : hit(d) \in Hit /\ hit(d).id = d
  BY DEF Documents, Hit
<1>2. hits \in SUBSET Hit
  BY <1>1
<1>3. IsFiniteSet(hits)
  <2>1. IsFiniteSet(store)
    BY FS_Subset DEF Documents
  <2> DEFINE f == [d \in store |-> hit(d)]
  <2>2. f \in Surjection(store, hits)
    BY DEF Surjection
  <2> HIDE DEF f, hits
  <2> QED BY <2>1, <2>2, FS_Surjection
<1>4. PICK all : all = SetToSeq(hits)
  OBVIOUS
<1>5. /\ all \in Seq(hits)
      /\ \A i, j \in 1..Len(all) : all[i] = all[j] => i = j
      /\ \A x \in hits : \E i \in 1..Len(all) : all[i] = x
  <2> HIDE DEF hits
  <2> QED BY <1>3, <1>4, SetToSeqProperties
<1>6. all \in Seq(Hit) /\ \A i \in 1..Len(all) : all[i] \in hits
  <2> HIDE DEF hits
  <2>1. all \in Seq(Hit)
    BY <1>2, <1>5, SeqMonotonic
  <2>2. \A i \in 1..Len(all) : all[i] \in hits
    BY <1>5, ElementOfSeq
  <2> QED BY <2>1, <2>2
<1>7. \A i \in 1..Len(all) : all[i].id \in store /\ all[i] = hit(all[i].id)
  BY <1>1, <1>6
<1>8. Answer(all)
  <2>1. Distinct(all)
    <3> HIDE DEF hits, hit
    <3>1. ASSUME NEW i \in 1..Len(all), NEW j \in 1..Len(all), all[i].id = all[j].id
          PROVE  i = j
      <4>1. all[i] = all[j]
        BY <1>7, <3>1
      <4> QED BY <1>5, <4>1
    <3> QED BY <3>1, Zenon DEF Distinct
  <2> QED BY <1>6, <2>1 DEF Answer
<1>9. IdsOf(all) = store
  <2>1. IdsOf(all) = {all[i].id : i \in 1..Len(all)}
    BY <1>6, IdsAre
  <2>2. \A d \in store : \E i \in 1..Len(all) : all[i].id = d
    <3> TAKE d \in store
    <3>1. hit(d) \in hits /\ hit(d).id = d
      BY <1>1
    <3> HIDE DEF hits, hit
    <3> QED BY <1>5, <3>1
  <2> HIDE DEF hits, hit
  <2> QED BY <1>7, <2>1, <2>2
<1>10. PICK best : best = BestFirst(all)
  OBVIOUS
<1>11. /\ best \in Seq(Hit) /\ Selects(best, all) /\ IdsOf(best) = IdsOf(all)
       /\ Sorted(best)
  BY <1>6, <1>10, BestFirstProperties
<1>12. Answer(best)
  BY <1>8, <1>11, SelectionIsAnswer
<1>13. PICK t : t = First(best, n)
  OBVIOUS
<1>14. Nearest(q, n) = t
  BY <1>4, <1>10, <1>13 DEF Nearest
<1> HIDE DEF hits, hit
<1>15. /\ t \in Seq(Hit)
       /\ Len(t) = IF n < Len(best) THEN n ELSE Len(best)
       /\ \A k \in 1..Len(t) : t[k] = best[k]
  BY <1>11, <1>13, FirstProperties
<1>16. Selects(t, best)
  BY <1>11, <1>13, FirstSelects
<1>17. Answer(t) /\ IdsOf(t) \subseteq store
  BY <1>9, <1>11, <1>12, <1>15, <1>16, SelectionIsAnswer
<1>18. Len(best) \in Nat
  BY <1>11, LenProperties
<1>19. Sorted(t)
  BY <1>11, <1>15, <1>18 DEF Sorted
<1>20. ASSUME Len(t) < n PROVE IdsOf(t) = store
  <2>1. Len(t) = Len(best)
    BY <1>15, <1>18, <1>20
  <2>2. \A i \in 1..Len(t) : t[i] = best[i]
    BY <1>15
  <2>3. t = best
    BY <1>11, <1>15, <2>1, <2>2, SeqEqual
  <2> QED BY <1>9, <1>11, <2>3
<1>21. Len(t) \in 0..n
  BY <1>15, <1>18
<1> QED BY <1>14, <1>17, <1>19, <1>20, <1>21

-----------------------------------------------------------------------------
(* Reranking, compression and filter. *)

\* What is kept of an answer is one.
LEMMA KeptAnswer ==
  ASSUME NEW s, Answer(s), NEW T \in SUBSET (1..Len(s))
  PROVE  /\ Answer(Kept(s, T)) /\ IdsOf(Kept(s, T)) \subseteq IdsOf(s)
         /\ \A k \in 1..Len(Kept(s, T)) : \E i \in T : Kept(s, T)[k] = s[i]
         /\ 1 \in T => Kept(s, T) # <<>> /\ Kept(s, T)[1] = s[1]
<1>1. s \in Seq(Hit)
  BY DEF Answer
<1>2. PICK t : t = Kept(s, T)
  OBVIOUS
<1>3. t \in Seq(Hit) /\ \E order : Ranking(t, order, s, T, {})
  BY <1>1, <1>2, KeptProperties
<1>4. PICK order : Ranking(t, order, s, T, {})
  BY <1>3
<1>5. Answer(t) /\ IdsOf(t) \subseteq IdsOf(s)
  <2>1. Selects(t, s)
    BY <1>4, RankingSelects
  <2> QED BY <1>3, <2>1, SelectionIsAnswer
<1>6. \A k \in 1..Len(t) : order[k] \in T /\ t[k] = s[order[k]]
  BY <1>4 DEF Ranking, StableOrder
<1>7. ASSUME 1 \in T PROVE t # <<>> /\ t[1] = s[1]
  <2>1. Len(t) \in Nat /\ Len(s) \in Nat
    BY <1>1, <1>3, LenProperties
  <2>2. PICK k \in 1..Len(t) : order[k] = 1
    BY <1>4, <1>7 DEF Ranking, StableOrder
  <2>3. 1 \in 1..Len(t)
    BY <2>1
  <2>4. k = 1
    <3> SUFFICES ASSUME 1 < k PROVE FALSE
      BY <2>1
    <3>1. order[1] < order[k]
      BY <1>4, <2>3 DEF Ranking, StableOrder
    <3>2. order[1] \in 1..Len(s)
      BY <1>6, <2>3
    <3> QED BY <2>1, <2>2, <3>1, <3>2
  <2>5. t # <<>>
    BY <2>3, EmptySeq
  <2> QED BY <1>6, <2>2, <2>3, <2>4, <2>5
<1> QED BY <1>2, <1>5, <1>6, <1>7

\* Lists that a reranker, the compressor and the filter leave.
LEMMA FirstAnswer ==
  ASSUME NEW s, Answer(s), NEW n \in Nat
  PROVE  /\ Answer(First(s, n)) /\ IdsOf(First(s, n)) \subseteq IdsOf(s)
         /\ Len(First(s, n)) <= n /\ Len(First(s, n)) <= Len(s)
         /\ \A i \in 1..Len(First(s, n)) : First(s, n)[i] = s[i]
         /\ n > 0 /\ s # <<>> => First(s, n) # <<>> /\ First(s, n)[1] = s[1]
<1>1. s \in Seq(Hit) /\ Len(s) \in Nat
  BY LenProperties DEF Answer
<1>2. PICK t : t = First(s, n)
  OBVIOUS
<1>3. /\ t \in Seq(Hit) /\ Len(t) = IF n < Len(s) THEN n ELSE Len(s)
      /\ \A k \in 1..Len(t) : t[k] = s[k]
  BY <1>1, <1>2, FirstProperties
<1>4. Selects(t, s)
  BY <1>1, <1>2, FirstSelects
<1>5. Answer(t) /\ IdsOf(t) \subseteq IdsOf(s)
  BY <1>3, <1>4, SelectionIsAnswer
<1>6. ASSUME n > 0, s # <<>> PROVE t # <<>> /\ t[1] = s[1]
  <2>1. Len(s) > 0
    BY <1>1, <1>6, EmptySeq
  <2>2. 1 \in 1..Len(t) /\ Len(t) # 0
    BY <1>1, <1>3, <1>6, <2>1
  <2>3. t # <<>>
    BY <2>2, EmptySeq
  <2> QED BY <1>3, <2>2, <2>3
<1>7. Len(t) <= n /\ Len(t) <= Len(s)
  BY <1>1, <1>3
<1> QED BY <1>2, <1>3, <1>5, <1>6, <1>7

\* Cross-encoding permutes and cuts; without a model it cuts.
LEMMA CrossEncodedProperties ==
  ASSUME NEW s, Answer(s), NEW n \in Nat, NEW model \in BOOLEAN,
         NEW x \in CrossEncoded(s, n, model)
  PROVE  Answer(x) /\ (~model => x = First(s, n))
<1>1. CASE ~model
  <2>1. x = First(s, n)
    BY <1>1 DEF CrossEncoded
  <2> QED BY <1>1, <2>1, FirstAnswer
<1>2. CASE model
  <2>1. s \in Seq(Hit) /\ DOMAIN s = 1..Len(s) /\ Len(s) \in Nat
    BY LenProperties DEF Answer
  <2>2. PICK p \in [DOMAIN s -> DOMAIN s] :
          IsInjective(p) /\ x = First([i \in DOMAIN s |-> s[p[i]]], n)
    BY <1>2 DEF CrossEncoded
  <2>3. PICK t : t = [i \in DOMAIN s |-> s[p[i]]]
    OBVIOUS
  <2>4. t \in Seq(Hit) /\ Len(t) = Len(s)
    <3>1. \A i \in 1..Len(s) : p[i] \in 1..Len(s) /\ s[p[i]] \in Hit
      BY <2>1, <2>2
    <3>2. t \in [1..Len(s) -> Hit]
      BY <2>1, <2>3, <3>1
    <3> QED BY <2>1, <3>2
  <2>5. Picked(t, p, s)
    BY <2>1, <2>2, <2>3, <2>4 DEF Picked, IsInjective
  <2>6. Answer(t)
    BY <2>4, <2>5, SelectionIsAnswer DEF Selects
  <2> QED BY <1>2, <2>2, <2>3, <2>6, FirstAnswer
<1> QED BY <1>1, <1>2

\* MMR leaves the best hit first.
LEMMA DiverseProperties ==
  ASSUME NEW s, Answer(s), NEW n \in Nat \ {0}
  PROVE  /\ Answer(Diverse(s, n))
         /\ s # <<>> /\ (\A i \in 1..Len(s) : s[1].score >= s[i].score) =>
              Diverse(s, n) # <<>> /\ Diverse(s, n)[1] = s[1]
<1>1. s \in Seq(Hit)
  BY DEF Answer
<1>2. CASE Len(s) <= n
  BY <1>2 DEF Diverse
<1>3. CASE ~(Len(s) <= n)
  <2>1. PICK t : t = BestFirst(s)
    OBVIOUS
  <2>2. /\ t \in Seq(Hit) /\ Len(t) = Len(s) /\ Selects(t, s)
        /\ s # <<>> /\ (\A i \in 1..Len(s) : s[1].score >= s[i].score) => t[1] = s[1]
    BY <1>1, <2>1, BestFirstProperties
  <2>3. Answer(t)
    BY <2>2, SelectionIsAnswer
  <2>4. Diverse(s, n) = First(t, n)
    BY <1>3, <2>1 DEF Diverse
  <2>5. /\ Answer(First(t, n))
        /\ t # <<>> => First(t, n) # <<>> /\ First(t, n)[1] = t[1]
    BY <2>3, FirstAnswer
  <2>6. s # <<>> => t # <<>>
    BY <1>1, <2>2, EmptySeq
  <2> QED BY <2>2, <2>4, <2>5, <2>6
<1> QED BY <1>2, <1>3

\* Compression leaves the first hit unless it drops it.
LEMMA WithoutProperties ==
  ASSUME NEW s, Answer(s), NEW drop
  PROVE  /\ Answer(Without(s, drop))
         /\ 1 \notin drop /\ s # <<>> => Without(s, drop) # <<>> /\ Without(s, drop)[1] = s[1]
<1>1. s \in Seq(Hit) /\ DOMAIN s = 1..Len(s) /\ Len(s) \in Nat
  BY LenProperties DEF Answer
<1>2. PICK T : T = (1..Len(s)) \ drop
  OBVIOUS
<1>3. T \in SUBSET (1..Len(s)) /\ Without(s, drop) = Kept(s, T)
  BY <1>1, <1>2 DEF Without
<1>4. 1 \notin drop /\ s # <<>> => 1 \in T
  BY <1>1, <1>2, EmptySeq
<1> QED BY <1>3, <1>4, KeptAnswer

\* The filter leaves what has the tag, and the first hit if it has it.
LEMMA FilteredProperties ==
  ASSUME NEW s, Answer(s), NEW tag
  PROVE  /\ Answer(Filtered(s, tag))
         /\ tag # "any" => \A k \in 1..Len(Filtered(s, tag)) : Tag[Filtered(s, tag)[k].id] = tag
         /\ s # <<>> /\ tag \in {"any", Tag[s[1].id]} =>
              Filtered(s, tag) # <<>> /\ Filtered(s, tag)[1] = s[1]
<1>1. s \in Seq(Hit) /\ DOMAIN s = 1..Len(s) /\ Len(s) \in Nat
  BY LenProperties DEF Answer
<1>2. CASE tag = "any"
  BY <1>2 DEF Filtered
<1>3. CASE tag # "any"
  <2>1. PICK T : T = {i \in 1..Len(s) : Tag[s[i].id] = tag}
    OBVIOUS
  <2>2. T \in SUBSET (1..Len(s)) /\ Filtered(s, tag) = Kept(s, T)
    BY <1>1, <1>3, <2>1 DEF Filtered
  <2>3. s # <<>> /\ tag = Tag[s[1].id] => 1 \in T
    BY <1>1, <2>1, EmptySeq
  <2>4. /\ Answer(Kept(s, T))
        /\ \A k \in 1..Len(Kept(s, T)) : \E i \in T : Kept(s, T)[k] = s[i]
        /\ 1 \in T => Kept(s, T) # <<>> /\ Kept(s, T)[1] = s[1]
    BY <2>2, KeptAnswer
  <2>5. \A k \in 1..Len(Kept(s, T)) : Tag[Kept(s, T)[k].id] = tag
    <3>1. \A i \in T : Tag[s[i].id] = tag
      BY <2>1
    <3> QED BY <2>4, <3>1
  <2> QED BY <1>3, <2>2, <2>3, <2>4, <2>5
<1> QED BY <1>2, <1>3

\* At most three queries.
LEMMA VariantsProperties ==
  ASSUME NEW rewritten \in Queries, NEW more \in Seq(Queries)
  PROVE  Variants(rewritten, more) \in Seq(Queries)
<1>1. PICK T : T = {i \in 1..Len(more) : more[i] # rewritten}
  OBVIOUS
<1>2. PICK k : k = Kept(more, T)
  OBVIOUS
<1>3. Variants(rewritten, more) = First(<<rewritten>> \o k, 3)
  <2>1. DOMAIN more = 1..Len(more)
    BY LenProperties
  <2> QED BY <1>1, <1>2, <2>1 DEF Variants
<1>4. k \in Seq(Queries)
  <2>1. T \in SUBSET (1..Len(more))
    BY <1>1
  <2> QED BY <1>2, <2>1, KeptProperties
<1>5. <<rewritten>> \o k \in Seq(Queries)
  <2>1. <<rewritten>> \in Seq(Queries)
    OBVIOUS
  <2> QED BY <1>4, <2>1, ConcatProperties
<1>6. \A n \in Nat : First(<<rewritten>> \o k, n) \in Seq(Queries)
  BY <1>5, FirstProperties
<1> QED BY <1>3, <1>6

-----------------------------------------------------------------------------
(* Fractions. *)

Fraction(x) == x.num \in Nat /\ x.den \in Nat \ {0}

\* A product distributes over a sum.
LEMMA Distributes ==
  \A a, b, c \in Int : (a + b) * c = a * c + b * c /\ a * (b + c) = a * b + a * c
                       /\ a * b = b * a /\ a * b \in Int /\ (a * b) * c = a * (b * c)
  OBVIOUS

\* A product grows with its factor.
LEMMA Growing ==
  \A a, b, c \in Int : c > 0 /\ a < b => a * c < b * c
  OBVIOUS

\* A product does not shrink with its factor.
LEMMA NotShrinking ==
  \A a, b, c \in Int : c >= 0 /\ a <= b => a * c <= b * c
  OBVIOUS

\* Fractions are weakly ordered.
LEMMA FractionsCompare ==
  ASSUME NEW a \in Nat, NEW b \in Nat \ {0}, NEW c \in Nat, NEW d \in Nat \ {0},
         NEW e \in Nat, NEW f \in Nat \ {0}, a * d <= c * b, c * f <= e * d
  PROVE  a * f <= e * b
<1>1. PICK ad \in Int, cb \in Int : ad = a * d /\ cb = c * b
  BY Distributes
<1>2. (a * d) * f <= (c * b) * f
  BY <1>1, NotShrinking
<1>3. PICK cf \in Int, ed \in Int : cf = c * f /\ ed = e * d
  BY Distributes
<1>4. (c * f) * b <= (e * d) * b
  BY <1>3, NotShrinking
<1>5. (c * b) * f = (c * f) * b /\ (a * d) * f = (a * f) * d /\ (e * d) * b = (e * b) * d
  BY Distributes
<1>6. PICK af \in Int, eb \in Int : af = a * f /\ eb = e * b
  BY Distributes
<1>7. af * d <= eb * d
  <2>1. PICK p \in Int, q \in Int, r \in Int : p = af * d /\ q = (c * b) * f /\ r = eb * d
    BY <1>1, <1>6, Distributes
  <2> QED BY <1>2, <1>4, <1>5, <1>6, <2>1
<1>8. ~(eb < af)
  BY <1>6, <1>7, Growing
<1> QED BY <1>6, <1>8

\* Fractions of positive denominators are strictly and totally ordered.
LEMMA FractionsAreOrdered ==
  ASSUME NEW T, NEW score, \A i \in T : Fraction(score[i]), NEW better,
         \A i, j \in T : <<i, j>> \in better <=> Exceeds(score[i], score[j])
  PROVE  WeakOrder(T, better)
<1>1. ASSUME NEW i \in T, NEW j \in T, NEW k \in T,
             ~Exceeds(score[i], score[j]), ~Exceeds(score[j], score[k])
      PROVE  ~Exceeds(score[i], score[k])
  <2>1. PICK a \in Nat, b \in Nat \ {0} : a = score[i].num /\ b = score[i].den
    BY DEF Fraction
  <2>2. PICK c \in Nat, d \in Nat \ {0} : c = score[j].num /\ d = score[j].den
    BY DEF Fraction
  <2>3. PICK e \in Nat, f \in Nat \ {0} : e = score[k].num /\ f = score[k].den
    BY DEF Fraction
  <2>4. ~(a * d > c * b) /\ ~(c * f > e * d)
    BY <1>1, <2>1, <2>2, <2>3 DEF Exceeds
  <2>5. a * d \in Int /\ c * b \in Int /\ c * f \in Int /\ e * d \in Int /\ a * f \in Int /\ e * b \in Int
    BY Distributes
  <2>6. a * d <= c * b /\ c * f <= e * d
    BY <2>4, <2>5
  <2>7. a * f <= e * b
    BY <2>6, FractionsCompare
  <2>8. ~(a * f > e * b)
    BY <2>5, <2>7
  <2> QED BY <2>1, <2>3, <2>8 DEF Exceeds
<1>2. ASSUME NEW i \in T, NEW j \in T, Exceeds(score[i], score[j])
      PROVE  ~Exceeds(score[j], score[i])
  <2>1. PICK a \in Nat, b \in Nat \ {0} : a = score[i].num /\ b = score[i].den
    BY DEF Fraction
  <2>2. PICK c \in Nat, d \in Nat \ {0} : c = score[j].num /\ d = score[j].den
    BY DEF Fraction
  <2>3. PICK p \in Int, q \in Int : p = a * d /\ q = c * b
    BY Distributes
  <2>4. p > q
    BY <1>2, <2>1, <2>2, <2>3 DEF Exceeds
  <2>5. ~(q > p)
    BY <2>4
  <2> QED BY <2>1, <2>2, <2>3, <2>5 DEF Exceeds
<1> QED BY <1>1, <1>2 DEF WeakOrder

\* A document that is before another in both lists has the larger sum of
\* reciprocals.
LEMMA FusionCompares ==
  ASSUME NEW i \in Nat \ {0}, NEW j \in Nat \ {0}, NEW k \in Nat, NEW l \in Nat,
         k = 0 \/ i < k, l = 0 \/ j < l
  PROVE  Exceeds([num |-> (60 + j) + (60 + i), den |-> (60 + i) * (60 + j)],
                 [num |-> (IF k = 0 THEN 0 ELSE 60 + l) + (IF l = 0 THEN 0 ELSE 60 + k),
                  den |-> (60 + k) * (60 + l)])
<1>1. PICK a \in Nat, b \in Nat, c \in Nat, d \in Nat :
        a = 60 + i /\ b = 60 + j /\ c = 60 + k /\ d = 60 + l
  OBVIOUS
<1>2. a > 0 /\ b > 0 /\ c > 0 /\ d > 0
  BY <1>1
<1>3. PICK ac \in Int, bd \in Int, ab \in Int, cd \in Int :
        ac = a * c /\ bd = b * d /\ ab = a * b /\ cd = c * d
  BY Distributes
<1>4. ac > 0 /\ bd > 0 /\ ab > 0
  <2>1. 0 * c < a * c /\ 0 * d < b * d /\ 0 * b < a * b
    BY <1>2, Growing
  <2> QED BY <1>3, <2>1
<1>5. (b + a) * (c * d) = bd * c + ac * d
  <2>1. (b + a) * (c * d) = b * (c * d) + a * (c * d)
    BY <1>3, Distributes
  <2>2. b * (c * d) = (b * d) * c /\ a * (c * d) = (a * c) * d
    BY Distributes
  <2> QED BY <1>3, <2>1, <2>2
<1>6. PICK x \in Nat, y \in Nat : x = (IF k = 0 THEN 0 ELSE d) /\ y = (IF l = 0 THEN 0 ELSE c)
  OBVIOUS
<1>7. (b + a) * (c * d) > (x + y) * (a * b)
  <2>1. PICK u \in Int, v \in Int, s \in Int, t \in Int :
          u = bd * c /\ v = ac * d /\ s = x * ab /\ t = y * ab
    BY <1>3, Distributes
  <2>2. (x + y) * (a * b) = s + t
    BY <1>3, <2>1, Distributes
  <2>3. s < u
    <3>1. CASE k = 0
      <4>1. x = 0 /\ s = 0
        BY <1>6, <2>1, <3>1
      <4>2. 0 * c < bd * c
        BY <1>2, <1>4, Growing
      <4> QED BY <2>1, <4>1, <4>2
    <3>2. CASE k # 0
      <4>1. x = d /\ a < c
        BY <1>1, <1>6, <3>2
      <4>2. d * ab = bd * a
        BY <1>3, Distributes
      <4>3. a * bd < c * bd
        BY <1>4, <4>1, Growing
      <4>4. bd * a = a * bd /\ bd * c = c * bd
        BY <1>3, Distributes
      <4> QED BY <2>1, <4>1, <4>2, <4>3, <4>4
    <3> QED BY <3>1, <3>2
  <2>4. t < v
    <3>1. CASE l = 0
      <4>1. y = 0 /\ t = 0
        BY <1>6, <2>1, <3>1
      <4>2. 0 * d < ac * d
        BY <1>2, <1>4, Growing
      <4> QED BY <2>1, <4>1, <4>2
    <3>2. CASE l # 0
      <4>1. y = c /\ b < d
        BY <1>1, <1>6, <3>2
      <4>2. c * ab = ac * b
        BY <1>3, Distributes
      <4>3. b * ac < d * ac
        BY <1>4, <4>1, Growing
      <4>4. ac * b = b * ac /\ ac * d = d * ac
        BY <1>3, Distributes
      <4> QED BY <2>1, <4>1, <4>2, <4>3, <4>4
    <3> QED BY <3>1, <3>2
  <2> QED BY <1>5, <2>1, <2>2, <2>3, <2>4
<1> QED BY <1>1, <1>6, <1>7 DEF Exceeds

-----------------------------------------------------------------------------
(* The keyword index. *)

\* The keyword index counts the words of each of its documents, if not always
\* at the document's own place.
IndexIsTyped ==
  /\ Answer(bm25.docs) /\ bm25.lengths \in Seq(Nat)
  /\ Len(bm25.docs) <= Len(bm25.lengths)
  /\ \A i \in 1..Len(bm25.docs) : \E k \in 1..Len(bm25.lengths) :
       bm25.lengths[k] = Len(Content[bm25.docs[i].id])

\* A term frequency is a number.
LEMMA TermFrequencyIsNat ==
  ASSUME Documents, NEW d \in Docs, NEW w
  PROVE  TermFrequency(d, w) \in Nat /\ (TermFrequency(d, w) > 0 => Len(Content[d]) > 0)
<1>1. PICK n \in Nat : n = Len(Content[d]) /\ DOMAIN Content[d] = 1..n
  BY DEF Documents
<1> DEFINE at == {i \in DOMAIN Content[d] : Content[d][i] = w}
<1>2. at \in SUBSET (1..n) /\ IsFiniteSet(1..n)
  BY <1>1, FS_Interval
<1> HIDE DEF at
<1>3. IsFiniteSet(at) /\ Cardinality(at) \in Nat
  BY <1>2, FS_Subset, FS_CardinalityType
<1>4. TermFrequency(d, w) = Cardinality(at)
  BY DEF TermFrequency, at
<1>5. ASSUME Cardinality(at) > 0 PROVE n > 0
  <2>1. at # {}
    <3>1. at = {} => Cardinality(at) = 0
      BY FS_EmptySet, Zenon
    <3>2. Cardinality(at) # 0
      BY <1>5
    <3> QED BY <3>1, <3>2
  <2>2. PICK i \in 1..n : i \in at
    BY <1>2, <2>1
  <2> QED BY <2>2
<1> QED BY <1>1, <1>3, <1>4, <1>5

\* A total of lengths is a number.
LEMMA TotalIsNat ==
  ASSUME NEW lengths \in Seq(Nat)
  PROVE  /\ Total(lengths) \in Nat
         /\ \A k \in 1..Len(lengths) : lengths[k] > 0 => Total(lengths) > 0
<1>1. Len(lengths) \in Nat /\ DOMAIN lengths = 1..Len(lengths)
      /\ \A i \in 1..Len(lengths) : lengths[i] \in Nat
  BY LenProperties, ElementOfSeq
<1> DEFINE row == [i \in 1..Len(lengths) |-> {i} \X (1..lengths[i])]
           rows == {row[i] : i \in 1..Len(lengths)}
<1>2. rows = {{i} \X (1..lengths[i]) : i \in DOMAIN lengths}
  BY <1>1
<1>3. \A i \in 1..Len(lengths) : IsFiniteSet(row[i])
  <2> TAKE i \in 1..Len(lengths)
  <2>1. IsFiniteSet({i})
    BY FS_Singleton
  <2>2. IsFiniteSet(1..lengths[i])
    <3>1. lengths[i] \in Int
      BY <1>1
    <3> QED BY <3>1, FS_Interval
  <2>3. IsFiniteSet({i} \X (1..lengths[i]))
    BY <2>1, <2>2, FS_Product
  <2> QED BY <2>3
<1>4. row \in Surjection(1..Len(lengths), rows)
  BY DEF Surjection
<1>5. IsFiniteSet(rows)
  <2>1. IsFiniteSet(1..Len(lengths))
    BY <1>1, FS_Interval
  <2> HIDE DEF row, rows
  <2> QED BY <1>4, <2>1, FS_Surjection
<1>6. IsFiniteSet(UNION rows)
  <2>1. \A T \in rows : IsFiniteSet(T)
    BY <1>3
  <2> HIDE DEF row, rows
  <2> QED BY <1>5, <2>1, FS_UNION
<1>7. Total(lengths) = Cardinality(UNION rows)
  BY <1>2 DEF Total
<1>8. Cardinality(UNION rows) \in Nat
  BY <1>6, FS_CardinalityType
<1>9. ASSUME NEW k \in 1..Len(lengths), lengths[k] > 0 PROVE Cardinality(UNION rows) > 0
  <2>1. <<k, 1>> \in {k} \X (1..lengths[k])
    BY <1>1, <1>9
  <2>2. UNION rows # {}
    BY <2>1
  <2> HIDE DEF row, rows
  <2>3. Cardinality(UNION rows) # 0
    BY <1>6, <2>2, FS_EmptySet
  <2> QED BY <1>8, <2>3
<1> QED BY <1>7, <1>8, <1>9

\* The ranking of the keyword search.
LEMMA KeywordSearchRanks ==
  ASSUME Documents, IndexIsTyped, NEW w, NEW n \in Nat
  PROVE  /\ KeywordSearch(w, n) \in Seq(Hit)
         /\ \E place : Picked(KeywordSearch(w, n), place, bm25.docs) /\
              \A k, l \in 1..Len(KeywordSearch(w, n)) :
                k < l => ~Outranks(w, bm25.lengths, place[l], place[k])
<1>1. PICK docs \in Seq(Hit), lengths \in Seq(Nat) : docs = bm25.docs /\ lengths = bm25.lengths
  BY DEF IndexIsTyped, Answer
<1>2. /\ Len(docs) \in Nat /\ DOMAIN docs = 1..Len(docs)
      /\ \A i \in 1..Len(docs) : docs[i].id \in Docs
      /\ Len(lengths) \in Nat /\ Len(docs) <= Len(lengths)
      /\ \A i \in 1..Len(docs) : lengths[i] \in Nat
  <2>1. Len(docs) \in Nat /\ DOMAIN docs = 1..Len(docs) /\ \A i \in 1..Len(docs) : docs[i] \in Hit
    BY <1>1, LenProperties, ElementOfSeq
  <2>2. Len(lengths) \in Nat /\ \A i \in 1..Len(lengths) : lengths[i] \in Nat
    BY <1>1, LenProperties, ElementOfSeq
  <2>3. Len(docs) <= Len(lengths)
    BY <1>1 DEF IndexIsTyped
  <2> QED BY <2>1, <2>2, <2>3 DEF Hit
<1> DEFINE matches == {i \in 1..Len(docs) : TermFrequency(docs[i].id, w) > 0}
           better == {p \in matches \X matches : Outranks(w, lengths, p[1], p[2])}
           score == [i \in matches |-> BM25Score(w, lengths, i)]
<1>3. \A i \in matches : i \in 1..Len(docs) /\ TermFrequency(docs[i].id, w) > 0
  OBVIOUS
<1>4. KeywordSearch(w, n) = First(Ranked(docs, matches, better), n)
  BY <1>1, <1>2 DEF KeywordSearch
<1>5. \A i, j \in matches : <<i, j>> \in better <=> Outranks(w, lengths, i, j)
  OBVIOUS
<1>6. \A i \in matches : score[i] = BM25Score(w, lengths, i)
  OBVIOUS
<1>7. matches \in SUBSET (1..Len(docs))
  OBVIOUS
<1> HIDE DEF matches, better, score
<1>8. \A i \in matches : Fraction(score[i])
  <2> TAKE i \in matches
  <2>1. TermFrequency(docs[i].id, w) \in Nat /\ Len(Content[docs[i].id]) > 0
    BY <1>2, <1>3, TermFrequencyIsNat
  <2>2. PICK k \in 1..Len(lengths) : lengths[k] = Len(Content[docs[i].id])
    BY <1>1, <1>3 DEF IndexIsTyped
  <2>3. Total(lengths) \in Nat \ {0}
    BY <2>1, <2>2, TotalIsNat
  <2>4. PICK m \in Nat, x \in Nat : m = Len(lengths) /\ x = lengths[i]
    BY <1>2, <1>3
  <2>5. 3 * m * x \in Nat
    <3>1. PICK y \in Nat : y = 3 * m
      OBVIOUS
    <3>2. 0 * x <= y * x /\ y * x \in Int
      BY Distributes, NotShrinking
    <3> QED BY <3>1, <3>2
  <2>6. PICK z \in Nat : z = 3 * m * x
    BY <2>5
  <2>7. Total(lengths) + 3 * Len(lengths) * lengths[i] \in Nat \ {0}
    <3>1. Total(lengths) + z \in Nat \ {0}
      BY <2>3
    <3> QED BY <2>4, <2>6, <3>1
  <2>8. BM25Score(w, lengths, i) =
          [num |-> TermFrequency(docs[i].id, w),
           den |-> Total(lengths) + 3 * Len(lengths) * lengths[i]]
    BY <1>1 DEF BM25Score
  <2> QED BY <1>6, <2>1, <2>7, <2>8 DEF Fraction
<1>9. WeakOrder(matches, better)
  <2>1. \A i, j \in matches : <<i, j>> \in better <=> Exceeds(score[i], score[j])
    BY <1>5, <1>6 DEF Outranks
  <2> QED BY <1>8, <2>1, FractionsAreOrdered
<1>10. PICK r : r = Ranked(docs, matches, better)
  OBVIOUS
<1>11. r \in Seq(Hit) /\ \E order : Ranking(r, order, docs, matches, better)
  BY <1>7, <1>9, <1>10, RankedProperties
<1>12. PICK order : Ranking(r, order, docs, matches, better)
  BY <1>11
<1>13. PICK t : t = First(r, n)
  OBVIOUS
<1>14. /\ t \in Seq(Hit) /\ Len(t) <= Len(r) /\ Len(t) \in Nat /\ Len(r) \in Nat
       /\ \A k \in 1..Len(t) : t[k] = r[k]
  <2>1. /\ t \in Seq(Hit) /\ Len(t) = IF n < Len(r) THEN n ELSE Len(r)
        /\ \A k \in 1..Len(t) : t[k] = r[k]
    BY <1>11, <1>13, FirstProperties
  <2>2. Len(t) \in Nat /\ Len(r) \in Nat
    BY <1>11, <2>1, LenProperties
  <2> QED BY <2>1, <2>2
<1>15. \A k \in 1..Len(t) : k \in 1..Len(r)
  BY <1>14
<1>16. /\ \A k \in 1..Len(r) : order[k] \in matches /\ order[k] \in 1..Len(docs) /\ r[k] = docs[order[k]]
       /\ \A k, l \in 1..Len(r) : order[k] = order[l] => k = l
       /\ \A k, l \in 1..Len(r) : k < l => <<order[k], order[l]>> \in better
                                           \/ <<order[l], order[k]>> \notin better
  BY <1>12 DEF Ranking, StableOrder
<1> DEFINE place == [k \in 1..Len(t) |-> order[k]]
<1>17. \A k \in 1..Len(t) : place[k] = order[k]
  OBVIOUS
<1>18. Picked(t, place, docs)
  <2>1. place \in [1..Len(t) -> 1..Len(docs)]
    BY <1>15, <1>16
  <2> HIDE DEF place
  <2> QED BY <1>14, <1>15, <1>16, <1>17, <2>1 DEF Picked
<1>19. ASSUME NEW k \in 1..Len(t), NEW l \in 1..Len(t), k < l
       PROVE  ~Outranks(w, lengths, place[l], place[k])
  <2>1. <<order[l], order[k]>> \notin better
    BY <1>9, <1>15, <1>16, <1>19 DEF WeakOrder
  <2> HIDE DEF place
  <2> QED BY <1>5, <1>15, <1>16, <1>17, <2>1
<1> HIDE DEF place
<1> QED BY <1>1, <1>4, <1>10, <1>13, <1>14, <1>18, <1>19

\* A keyword search answers documents of the index, none twice.
LEMMA KeywordSearchAnswer ==
  ASSUME Documents, IndexIsTyped, NEW w, NEW n \in Nat
  PROVE  Answer(KeywordSearch(w, n))
<1>1. KeywordSearch(w, n) \in Seq(Hit) /\ Selects(KeywordSearch(w, n), bm25.docs)
  BY KeywordSearchRanks DEF Selects
<1> QED BY <1>1, SelectionIsAnswer DEF IndexIsTyped

\* With the lengths of one build the ranking is that of the documents' own.
LEMMA OneBuildRanksByOwnLength ==
  ASSUME Documents, IndexIsTyped, builds <= 1 => bm25.lengths = LengthsOf(bm25.docs)
  PROVE  RankedByOwnLength
<1> SUFFICES ASSUME builds <= 1, NEW w \in Queries
             PROVE  LET hits == KeywordSearch(w, IndexLimit)
                        own == [i \in DOMAIN bm25.docs |-> Len(Content[bm25.docs[i].id])]
                        at(h) == CHOOSE i \in DOMAIN bm25.docs : bm25.docs[i] = h
                    IN  \A i, j \in DOMAIN hits : i < j => ~Outranks(w, own, at(hits[j]), at(hits[i]))
  BY DEF RankedByOwnLength
<1> DEFINE at(h) == CHOOSE i \in DOMAIN bm25.docs : bm25.docs[i] = h
<1>1. [i \in DOMAIN bm25.docs |-> Len(Content[bm25.docs[i].id])] = bm25.lengths
  BY DEF LengthsOf
<1>2. PICK hits : hits = KeywordSearch(w, IndexLimit)
  OBVIOUS
<1>3. /\ hits \in Seq(Hit)
      /\ \E place : Picked(hits, place, bm25.docs) /\
           \A k, l \in 1..Len(hits) : k < l => ~Outranks(w, bm25.lengths, place[l], place[k])
  BY <1>2, KeywordSearchRanks DEF Documents
<1>4. PICK place : Picked(hits, place, bm25.docs) /\
           \A k, l \in 1..Len(hits) : k < l => ~Outranks(w, bm25.lengths, place[l], place[k])
  BY <1>3
<1>5. DOMAIN hits = 1..Len(hits) /\ DOMAIN bm25.docs = 1..Len(bm25.docs)
  BY <1>3, LenProperties DEF IndexIsTyped, Answer
<1>6. \A k \in 1..Len(hits) : at(hits[k]) = place[k]
  <2> TAKE k \in 1..Len(hits)
  <2>1. place[k] \in DOMAIN bm25.docs /\ bm25.docs[place[k]] = hits[k]
    BY <1>4, <1>5 DEF Picked
  <2>2. \A i \in DOMAIN bm25.docs : bm25.docs[i] = hits[k] => i = place[k]
    BY <1>5, <2>1 DEF IndexIsTyped, Answer, Distinct
  <2> QED BY <2>1, <2>2
<1> HIDE DEF at
<1>7. \A k, l \in DOMAIN hits : k < l => ~Outranks(w, bm25.lengths, at(hits[l]), at(hits[k]))
  BY <1>4, <1>5, <1>6
<1> QED BY <1>1, <1>2, <1>7 DEF at

-----------------------------------------------------------------------------
(* Fusion. *)

\* The position of a document, 0 when it is not there.
LEMMA RankInProperties ==
  ASSUME NEW s, Answer(s), NEW id
  PROVE  /\ RankIn(id, s) \in 0..Len(s)
         /\ RankIn(id, s) = 0 <=> id \notin IdsOf(s)
         /\ id \in IdsOf(s) => s[RankIn(id, s)].id = id
         /\ \A i \in 1..Len(s) : s[i].id = id => RankIn(id, s) = i
<1>1. s \in Seq(Hit) /\ Len(s) \in Nat /\ DOMAIN s = 1..Len(s)
  BY LenProperties DEF Answer
<1>2. IdsOf(s) = {s[i].id : i \in 1..Len(s)}
  BY <1>1, IdsAre
<1>3. ASSUME id \in IdsOf(s)
      PROVE  RankIn(id, s) \in 1..Len(s) /\ s[RankIn(id, s)].id = id
  <2>1. \E i \in 1..Len(s) : s[i].id = id
    BY <1>2, <1>3
  <2>2. RankIn(id, s) = CHOOSE i \in 1..Len(s) : s[i].id = id
    BY <1>1, <1>3 DEF RankIn
  <2> QED BY <2>1, <2>2
<1>4. ASSUME id \notin IdsOf(s) PROVE RankIn(id, s) = 0
  BY <1>4 DEF RankIn
<1>5. ASSUME NEW i \in 1..Len(s), s[i].id = id PROVE RankIn(id, s) = i
  <2>1. id \in IdsOf(s)
    BY <1>2, <1>5
  <2> QED BY <1>3, <1>5, <2>1 DEF Answer, Distinct
<1> QED BY <1>1, <1>3, <1>4, <1>5

\* Fusion scores are fractions.
LEMMA FusionScoreIsFraction ==
  ASSUME NEW s, NEW u, Answer(s), Answer(u), NEW id
  PROVE  Fraction(FusionScore(id, s, u))
<1>1. PICK i \in Nat, j \in Nat : i = RankIn(id, s) /\ j = RankIn(id, u)
  BY RankInProperties, LenProperties DEF Answer
<1>2. (60 + i) * (60 + j) \in Nat \ {0}
  <2>1. PICK a \in Nat, b \in Nat : a = 60 + i /\ b = 60 + j /\ a > 0 /\ b > 0
    OBVIOUS
  <2>2. 0 * b < a * b /\ a * b \in Int
    BY <2>1, Distributes, Growing
  <2> QED BY <2>1, <2>2
<1>3. (IF i = 0 THEN 0 ELSE 60 + j) + (IF j = 0 THEN 0 ELSE 60 + i) \in Nat
  OBVIOUS
<1>4. FusionScore(id, s, u) =
        [num |-> (IF i = 0 THEN 0 ELSE 60 + j) + (IF j = 0 THEN 0 ELSE 60 + i),
         den |-> (60 + i) * (60 + j)]
  BY <1>1 DEF FusionScore
<1> QED BY <1>2, <1>3, <1>4 DEF Fraction

\* A document ahead in both lists has the higher fusion score.
LEMMA BeforeInBoth ==
  ASSUME NEW s, NEW u, Answer(s), Answer(u), NEW x, NEW y, Before(x, y, s), Before(x, y, u)
  PROVE  Exceeds(FusionScore(x, s, u), FusionScore(y, s, u))
<1>1. PICK i \in Nat, j \in Nat : i = RankIn(x, s) /\ j = RankIn(x, u)
  BY RankInProperties, LenProperties DEF Answer
<1>2. PICK k \in Nat, l \in Nat : k = RankIn(y, s) /\ l = RankIn(y, u)
  BY RankInProperties, LenProperties DEF Answer
<1>3. i # 0 /\ j # 0 /\ (k = 0 \/ i < k) /\ (l = 0 \/ j < l)
  BY <1>1, <1>2 DEF Before
<1>4. Exceeds([num |-> (60 + j) + (60 + i), den |-> (60 + i) * (60 + j)],
              [num |-> (IF k = 0 THEN 0 ELSE 60 + l) + (IF l = 0 THEN 0 ELSE 60 + k),
               den |-> (60 + k) * (60 + l)])
  BY <1>3, FusionCompares
<1>5. FusionScore(x, s, u) = [num |-> (60 + j) + (60 + i), den |-> (60 + i) * (60 + j)]
  BY <1>1, <1>3 DEF FusionScore
<1>6. FusionScore(y, s, u) =
        [num |-> (IF k = 0 THEN 0 ELSE 60 + l) + (IF l = 0 THEN 0 ELSE 60 + k),
         den |-> (60 + k) * (60 + l)]
  BY <1>2 DEF FusionScore
<1> QED BY <1>4, <1>5, <1>6

\* Fusion answers no document twice and respects both lists.
LEMMA FusedProperties ==
  ASSUME NEW s, NEW u, Answer(s), Answer(u), NEW n \in Nat
  PROVE  Answer(Fused(s, u, n)) /\ RespectsRanks(Fused(s, u, n), s, u)
<1>1. /\ s \in Seq(Hit) /\ Len(s) \in Nat /\ DOMAIN s = 1..Len(s)
      /\ \A i \in 1..Len(s) : s[i] \in Hit
      /\ u \in Seq(Hit) /\ Len(u) \in Nat /\ \A i \in 1..Len(u) : u[i] \in Hit
  BY LenProperties, ElementOfSeq DEF Answer
<1>2. PICK last : last = [i \in DOMAIN s |->
                            IF s[i].id \in IdsOf(u) THEN u[RankIn(s[i].id, u)] ELSE s[i]]
  OBVIOUS
<1>3. \A i \in 1..Len(s) : last[i] \in Hit /\ last[i].id = s[i].id
  <2> SUFFICES ASSUME NEW i \in 1..Len(s) PROVE last[i] \in Hit /\ last[i].id = s[i].id
    OBVIOUS
  <2>1. CASE s[i].id \in IdsOf(u)
    <3>1. RankIn(s[i].id, u) \in 1..Len(u) /\ u[RankIn(s[i].id, u)].id = s[i].id
      BY <1>1, <2>1, RankInProperties
    <3>2. last[i] = u[RankIn(s[i].id, u)]
      BY <1>1, <1>2, <2>1
    <3> QED BY <1>1, <3>1, <3>2
  <2>2. CASE s[i].id \notin IdsOf(u)
    BY <1>1, <1>2, <2>2
  <2> QED BY <2>1, <2>2
<1>4. last \in Seq(Hit) /\ Len(last) = Len(s)
  <2>1. last \in [1..Len(s) -> Hit]
    BY <1>1, <1>2, <1>3
  <2> QED BY <1>1, <2>1
<1>5. Answer(last) /\ IdsOf(last) = IdsOf(s)
  <2>1. Distinct(last)
    BY <1>3, <1>4 DEF Answer, Distinct
  <2>2. IdsOf(last) = {last[i].id : i \in 1..Len(s)} /\ IdsOf(s) = {s[i].id : i \in 1..Len(s)}
    BY <1>1, <1>4, IdsAre
  <2> QED BY <1>3, <1>4, <2>1, <2>2 DEF Answer
<1>6. PICK all : all = AddNew(last, u)
  OBVIOUS
<1>7. Answer(all) /\ IdsOf(all) = IdsOf(s) \cup IdsOf(u)
  BY <1>5, <1>6, AddNewProperties
<1>8. all \in Seq(Hit) /\ Len(all) \in Nat /\ DOMAIN all = 1..Len(all)
  BY <1>7, LenProperties DEF Answer
<1>9. PICK T : T = 1..Len(all)
  OBVIOUS
<1> DEFINE better == {p \in T \X T : Exceeds(FusionScore(all[p[1]].id, s, u),
                                             FusionScore(all[p[2]].id, s, u))}
           score == [i \in T |-> FusionScore(all[i].id, s, u)]
<1>10. Fused(s, u, n) = First(Ranked(all, T, better), n)
  BY <1>2, <1>6, <1>8, <1>9 DEF Fused
<1>11. \A i, j \in T : <<i, j>> \in better <=>
                         Exceeds(FusionScore(all[i].id, s, u), FusionScore(all[j].id, s, u))
  OBVIOUS
<1>12. \A i \in T : score[i] = FusionScore(all[i].id, s, u)
  OBVIOUS
<1> HIDE DEF better, score
<1>13. WeakOrder(T, better)
  <2>1. \A i \in T : Fraction(score[i])
    BY <1>12, FusionScoreIsFraction
  <2>2. \A i, j \in T : <<i, j>> \in better <=> Exceeds(score[i], score[j])
    BY <1>11, <1>12
  <2> QED BY <2>1, <2>2, FractionsAreOrdered
<1>14. PICK r : r = Ranked(all, T, better)
  OBVIOUS
<1>15. r \in Seq(Hit) /\ \E order : Ranking(r, order, all, T, better)
  BY <1>8, <1>9, <1>13, <1>14, RankedProperties
<1>16. PICK order : Ranking(r, order, all, T, better)
  BY <1>15
<1>17. Answer(r)
  <2>1. Selects(r, all)
    BY <1>16, RankingSelects
  <2> QED BY <1>7, <1>15, <2>1, SelectionIsAnswer
<1>18. PICK t : t = First(r, n)
  OBVIOUS
<1>19. Answer(t) /\ Len(t) <= Len(r) /\ \A i \in 1..Len(t) : t[i] = r[i]
  BY <1>17, <1>18, FirstAnswer
<1>20. Len(t) \in Nat /\ Len(r) \in Nat
  BY <1>17, <1>19, LenProperties DEF Answer
<1>21. /\ \A k \in 1..Len(r) : order[k] \in T /\ r[k] = all[order[k]]
       /\ \A i \in T : \E k \in 1..Len(r) : order[k] = i
       /\ \A k, l \in 1..Len(r) : k < l => \/ <<order[k], order[l]>> \in better
                                           \/ <<order[l], order[k]>> \notin better
  BY <1>16 DEF Ranking, StableOrder
<1>22. ASSUME NEW x \in IdsOf(s), NEW y \in IdsOf(t), Before(x, y, s), Before(x, y, u)
       PROVE  Before(x, y, t)
  <2>1. PICK i \in T : all[i].id = x
    BY <1>7, <1>8, <1>9, <1>22, IdsAre
  <2>2. PICK k \in 1..Len(r) : order[k] = i
    BY <1>21, <2>1
  <2>3. PICK l \in 1..Len(t) : t[l].id = y
    BY <1>19, <1>22, IdsAre DEF Answer
  <2>4. l \in 1..Len(r) /\ t[l] = r[l]
    BY <1>19, <1>20
  <2>5. PICK j \in T : j = order[l] /\ all[j].id = y
    BY <1>21, <2>3, <2>4
  <2>6. <<i, j>> \in better
    <3>1. Exceeds(FusionScore(x, s, u), FusionScore(y, s, u))
      BY <1>22, BeforeInBoth
    <3> QED BY <1>11, <2>1, <2>5, <3>1
  <2>7. k < l
    <3>1. <<j, i>> \notin better
      BY <1>13, <2>6 DEF WeakOrder
    <3>2. k # l
      BY <2>2, <2>5, <2>6, <3>1
    <3>3. ~(l < k)
      BY <1>21, <2>2, <2>4, <2>5, <2>6, <3>1
    <3>4. k \in Int /\ l \in Int
      BY <1>20
    <3> QED BY <3>2, <3>3, <3>4
  <2>8. k \in 1..Len(t)
    BY <1>20, <2>4, <2>7
  <2>9. t[k].id = x
    BY <1>19, <1>21, <2>1, <2>2, <2>8
  <2>10. RankIn(x, t) = k /\ RankIn(y, t) = l
    BY <1>19, <2>3, <2>8, <2>9, RankInProperties
  <2> QED BY <1>20, <2>7, <2>8, <2>10 DEF Before
<1> QED BY <1>10, <1>14, <1>18, <1>19, <1>22 DEF RespectsRanks

\* So does the hybrid search, when both searches found something.
LEMMA MergeProperties ==
  ASSUME NEW s, NEW u, Answer(s), Answer(u), NEW n \in Nat
  PROVE  /\ Answer(Merge(s, u, n))
         /\ s # <<>> /\ u # <<>> => RespectsRanks(Merge(s, u, n), s, u)
<1>1. CASE s # <<>> /\ u # <<>>
  <2>1. Merge(s, u, n) = Fused(s, u, n)
    BY <1>1 DEF Merge
  <2> QED BY <1>1, <2>1, FusedProperties
<1>2. CASE s = <<>>
  <2>1. <<>> \o u = u
    BY ConcatEmptySeq DEF Answer
  <2>2. Merge(s, u, n) = First(u, n)
    BY <1>2, <2>1 DEF Merge
  <2> QED BY <1>2, <2>2, FirstAnswer
<1>3. CASE u = <<>>
  <2>1. s \o <<>> = s
    BY ConcatEmptySeq DEF Answer
  <2>2. Merge(s, u, n) = First(s, n)
    BY <1>3, <2>1 DEF Merge
  <2> QED BY <1>3, <2>2, FirstAnswer
<1> QED BY <1>1, <1>2, <1>3

-----------------------------------------------------------------------------
(* Calls. *)

Phases == {"rewriting", "searching", "semantic", "indexing", "hybrid", "ranking", "done"}

CallRecord ==
  [kind : {"retrieve", "multi", "hybrid"}, query : Queries,
   tag : {"any"} \cup {Tag[d] : d \in Docs}, found : Seq(Hit), best : Docs \cup {"none"},
   failed : BOOLEAN, model : BOOLEAN, dropped : SUBSET Docs, first : SUBSET Docs,
   stale : BOOLEAN, left : Seq(Queries), semantic : Seq(Hit), keyword : Seq(Hit),
   phase : Phases]

\* The best hit of the search leads the n first hits.
Leads(best, found, n) ==
  /\ found # <<>> /\ found[1].id = best
  /\ \A i \in 1..Len(found) : i <= n => found[1].score >= found[i].score

\* The first search gave the best documents, all there were if not enough.
SearchedBest(r) ==
  /\ Leads(r.best, r.found, 2 * Limit)
  /\ Len(r.found) <= 2 * Limit
  /\ Len(r.found) < 2 * Limit => IdsOf(r.found) = r.first

AnswersBest(r) ==
  ~r.model /\ r.best \notin r.dropped /\ r.tag \in {"any", Tag[r.best]} =>
    \/ r.found # <<>> /\ r.found[1].id = r.best
    \/ r.stale

\* What is known of a call, phase by phase.
CallIsSound(r) ==
  /\ r \in CallRecord
  /\ Distinct(r.found)
  /\ r.phase \in {"rewriting", "searching", "semantic"} => r.kind # "hybrid" /\ r.best = "none"
  /\ r.phase = "ranking" => r.kind = "retrieve"
  /\ r.kind = "retrieve" /\ r.best # "none" =>
       /\ r.phase \in {"indexing", "hybrid"} => SearchedBest(r)
       /\ r.phase = "ranking" /\ ~r.stale => Leads(r.best, r.found, 2 * Limit)
       /\ r.phase = "done" => AnswersBest(r)
  /\ r.phase = "done" /\ r.kind = "retrieve" =>
       /\ Len(r.found) <= Limit
       /\ r.tag # "any" => \A i \in 1..Len(r.found) : Tag[r.found[i].id] = r.tag
  /\ r.phase = "done" /\ r.kind = "hybrid" /\ r.semantic # <<>> /\ r.keyword # <<>> =>
       RespectsRanks(r.found, r.semantic, r.keyword)

IndexIsSound ==
  /\ IndexIsTyped
  /\ builds = 0 => bm25.docs = <<>> /\ bm25.lengths = <<>>
  /\ builds <= 1 => bm25.lengths = LengthsOf(bm25.docs)

RankingInv ==
  /\ store \in SUBSET Docs /\ changes \in 0..MaxChanges /\ builds \in Nat
  /\ IndexIsSound
  /\ call = [c \in Calls |-> call[c]]
  /\ \A c \in Calls : call[c] = Idle \/ CallIsSound(call[c])

\* A call that runs is sound.
LEMMA RunningIsSound ==
  ASSUME RankingInv, NEW c \in Calls, call[c].phase # "idle"
  PROVE  CallIsSound(call[c])
BY DEF RankingInv, Idle

\* A step of one call that leaves the index and the store alone.
LEMMA CallSteps ==
  ASSUME RankingInv, NEW c \in Calls, NEW r, call' = [call EXCEPT ![c] = r],
         r = Idle \/ CallIsSound(r), UNCHANGED <<store, changes, builds, bm25>>
  PROVE  RankingInv'
<1>1. call' = [d \in Calls |-> IF d = c THEN r ELSE call[d]]
  BY DEF RankingInv
<1>2. \A d \in Calls : call'[d] = Idle \/ CallIsSound(call'[d])
  BY <1>1 DEF RankingInv
<1>3. IndexIsSound'
  BY DEF RankingInv, IndexIsSound, IndexIsTyped
<1>4. call' = [d \in Calls |-> call'[d]]
  BY <1>1
<1>5. store' \in SUBSET Docs /\ changes' \in 0..MaxChanges /\ builds' \in Nat
  BY DEF RankingInv
<1> QED BY <1>2, <1>3, <1>4, <1>5 DEF RankingInv

\* A call starts with nothing found.
LEMMA StartIsSound ==
  ASSUME RankingInv, NEW c \in Calls, NEW kind \in {"retrieve", "multi", "hybrid"}, Start(c, kind)
  PROVE  RankingInv'
<1>1. PICK q \in Queries, phase \in {"rewriting", "hybrid", "semantic"} :
        /\ Go(c, [kind |-> kind, query |-> q, tag |-> "any", found |-> <<>>, best |-> "none",
                  failed |-> FALSE, model |-> FALSE, dropped |-> {}, first |-> {},
                  stale |-> FALSE, left |-> <<>>, semantic |-> <<>>, keyword |-> <<>>,
                  phase |-> phase])
        /\ kind = "hybrid" => phase = "hybrid"
  <2> DEFINE phase == IF kind = "multi" \/ (kind = "retrieve" /\ flags.expand) THEN "rewriting"
                      ELSE IF kind = "hybrid" THEN "hybrid" ELSE "semantic"
  <2>1. phase \in {"rewriting", "hybrid", "semantic"} /\ (kind = "hybrid" => phase = "hybrid")
    OBVIOUS
  <2> QED BY <2>1, Zenon DEF Start
<1> DEFINE r == [kind |-> kind, query |-> q, tag |-> "any", found |-> <<>>, best |-> "none",
                 failed |-> FALSE, model |-> FALSE, dropped |-> {}, first |-> {},
                 stale |-> FALSE, left |-> <<>>, semantic |-> <<>>, keyword |-> <<>>,
                 phase |-> phase]
<1>2. call' = [call EXCEPT ![c] = r] /\ UNCHANGED <<store, changes, builds, bm25>>
  BY <1>1 DEF Go, Start
<1>3. CallIsSound(r)
  <2>1. r \in CallRecord
    <3>1. <<>> \in Seq(Hit) /\ <<>> \in Seq(Queries)
      OBVIOUS
    <3> QED BY <3>1 DEF CallRecord, Phases
  <2>2. /\ r.phase = phase /\ r.kind = kind /\ r.best = "none" /\ r.found = <<>>
    OBVIOUS
  <2>3. Distinct(<<>>)
    BY DEF Distinct
  <2> HIDE DEF r
  <2> QED BY <1>1, <2>1, <2>2, <2>3 DEF CallIsSound
<1> HIDE DEF r
<1> QED BY <1>2, <1>3, CallSteps

\* Expansion sets the queries that are left.
LEMMA ExpandIsSound ==
  ASSUME RankingInv, NEW c \in Calls, Expand(c)
  PROVE  RankingInv'
<1>1. PICK rewritten \in Queries, n \in 0..2 : \E more \in [1..n -> Queries] :
        Go(c, [call[c] EXCEPT !.phase = "searching",
                              !.left = Variants(rewritten, <<rewritten>> \o more)])
  BY DEF Expand
<1>2. PICK more \in [1..n -> Queries] :
        Go(c, [call[c] EXCEPT !.phase = "searching",
                              !.left = Variants(rewritten, <<rewritten>> \o more)])
  BY <1>1
<1>3. PICK left \in Seq(Queries) : left = Variants(rewritten, <<rewritten>> \o more)
  <2>1. more \in Seq(Queries) /\ <<rewritten>> \in Seq(Queries)
    OBVIOUS
  <2>2. <<rewritten>> \o more \in Seq(Queries)
    BY <2>1, ConcatProperties
  <2> QED BY <2>2, VariantsProperties
<1>4. PICK old : old = call[c]
  OBVIOUS
<1>5. CallIsSound(old) /\ old.phase = "rewriting"
  BY <1>4, RunningIsSound DEF Expand
<1> DEFINE r == [old EXCEPT !.phase = "searching", !.left = left]
<1>6. call' = [call EXCEPT ![c] = r] /\ UNCHANGED <<store, changes, builds, bm25>>
  BY <1>2, <1>3, <1>4 DEF Go, Expand
<1>7. /\ r \in CallRecord /\ r.phase = "searching" /\ r.kind = old.kind /\ r.best = old.best
      /\ r.found = old.found
  BY <1>5 DEF CallIsSound, CallRecord, Phases
<1> HIDE DEF r
<1>8. CallIsSound(r)
  BY <1>5, <1>7 DEF CallIsSound
<1> QED BY <1>6, <1>8, CallSteps

\* A search adds what is new, or fails.
LEMMA SearchNextIsSound ==
  ASSUME Documents, RankingInv, NEW c \in Calls, SearchNext(c)
  PROVE  RankingInv'
<1>1. PICK old : old = call[c]
  OBVIOUS
<1>2. CallIsSound(old) /\ old.phase = "searching" /\ old.left # <<>>
  BY <1>1, RunningIsSound DEF SearchNext
<1>3. Head(old.left) \in Queries /\ Tail(old.left) \in Seq(Queries)
  <2>1. old.left \in Seq(Queries)
    BY <1>2 DEF CallIsSound, CallRecord
  <2> QED BY <1>2, <2>1, HeadTailProperties
<1>4. PICK q \in Queries, left \in Seq(Queries) : q = Head(old.left) /\ left = Tail(old.left)
  BY <1>3
<1>5. PICK hits : hits = Nearest(q, 2 * Limit)
  OBVIOUS
<1>6. PICK found : found = AddNew(old.found, hits)
  OBVIOUS
<1>7. Answer(found)
  <2>1. Answer(old.found)
    BY <1>2 DEF CallIsSound, CallRecord, Answer
  <2>2. Answer(hits)
    <3>1. 2 * Limit \in Nat /\ store \in SUBSET Docs
      BY DEF Documents, RankingInv
    <3> QED BY <1>5, <3>1, NearestProperties
  <2> QED BY <1>6, <2>1, <2>2, AddNewProperties
<1>8. UNCHANGED <<store, changes, builds, bm25>>
  BY DEF SearchNext
<1>9. \/ Go(c, [old EXCEPT !.left = left, !.found = found])
      \/ Go(c, [old EXCEPT !.left = left, !.failed = old.failed \/ Callable(c)])
  BY <1>1, <1>4, <1>5, <1>6 DEF SearchNext
<1>10. CASE Go(c, [old EXCEPT !.left = left, !.found = found])
  <2> DEFINE r == [old EXCEPT !.left = left, !.found = found]
  <2>1. /\ r \in CallRecord /\ r.phase = "searching" /\ r.kind = old.kind /\ r.best = old.best
        /\ r.found = found
    BY <1>2, <1>7 DEF CallIsSound, CallRecord, Answer
  <2>2. call' = [call EXCEPT ![c] = r]
    BY <1>10 DEF Go
  <2> HIDE DEF r
  <2>3. CallIsSound(r)
    BY <1>2, <1>7, <2>1 DEF CallIsSound, Answer
  <2> QED BY <1>8, <2>2, <2>3, CallSteps
<1>11. CASE Go(c, [old EXCEPT !.left = left, !.failed = old.failed \/ Callable(c)])
  <2>1. PICK failed \in BOOLEAN : failed = (old.failed \/ Callable(c))
    OBVIOUS
  <2> DEFINE r == [old EXCEPT !.left = left, !.failed = failed]
  <2>2. /\ r \in CallRecord /\ r.phase = "searching" /\ r.kind = old.kind /\ r.best = old.best
        /\ r.found = old.found
    BY <1>2 DEF CallIsSound, CallRecord
  <2>3. call' = [call EXCEPT ![c] = r]
    BY <1>11, <2>1 DEF Go
  <2> HIDE DEF r
  <2>4. CallIsSound(r)
    BY <1>2, <2>2 DEF CallIsSound
  <2> QED BY <1>8, <2>3, <2>4, CallSteps
<1> QED BY <1>9, <1>10, <1>11

\* Where a call goes after its search.
LEMMA AfterSearchIs ==
  ASSUME NEW r \in CallRecord, NEW next, next = AfterSearch(r)
  PROVE  /\ next = [r EXCEPT !.phase = next.phase]
         /\ IF r.kind = "retrieve" THEN next.phase \in {"indexing", "hybrid", "ranking"}
            ELSE next.phase = "done"
BY DEF AfterSearch, CallRecord

\* The searches end with what was found sorted and cut.
LEMMA SearchesEndIsSound ==
  ASSUME Documents, RankingInv, NEW c \in Calls, SearchesEnd(c)
  PROVE  RankingInv'
<1>1. PICK old : old = call[c]
  OBVIOUS
<1>2. CallIsSound(old) /\ old.phase = "searching"
  BY <1>1, RunningIsSound DEF SearchesEnd
<1>3. PICK found : found = First(BestFirst(old.found), 2 * Limit)
  OBVIOUS
<1>4. Answer(found)
  <2>1. Answer(old.found) /\ old.found \in Seq(Hit)
    BY <1>2 DEF CallIsSound, CallRecord, Answer
  <2>2. Answer(BestFirst(old.found))
    <3>1. BestFirst(old.found) \in Seq(Hit) /\ Selects(BestFirst(old.found), old.found)
      BY <2>1, BestFirstProperties
    <3> QED BY <2>1, <3>1, SelectionIsAnswer
  <2>3. 2 * Limit \in Nat
    BY DEF Documents
  <2> QED BY <1>3, <2>2, <2>3, FirstAnswer
<1>5. PICK s : s = [old EXCEPT !.found = found]
  OBVIOUS
<1>6. s \in CallRecord /\ s.kind = old.kind /\ s.best = old.best /\ s.found = found
  BY <1>2, <1>4, <1>5 DEF CallIsSound, CallRecord, Answer
<1>7. PICK r : r = AfterSearch(s)
  OBVIOUS
<1>8. /\ r = [s EXCEPT !.phase = r.phase]
      /\ IF s.kind = "retrieve" THEN r.phase \in {"indexing", "hybrid", "ranking"}
         ELSE r.phase = "done"
  BY <1>6, <1>7, AfterSearchIs
<1>9. r \in CallRecord /\ r.kind = s.kind /\ r.best = s.best /\ r.found = s.found
  BY <1>6, <1>8 DEF CallRecord, Phases
<1>10. CallIsSound(r)
  BY <1>2, <1>4, <1>6, <1>8, <1>9 DEF CallIsSound, Answer
<1>11. call' = [call EXCEPT ![c] = r] /\ UNCHANGED <<store, changes, builds, bm25>>
  BY <1>1, <1>3, <1>5, <1>7 DEF SearchesEnd, Go
<1> QED BY <1>10, <1>11, CallSteps

\* The first search names the best hit, which leads what it found.
LEMMA SemanticIsSound ==
  ASSUME Documents, RankingInv, NEW c \in Calls, Semantic(c)
  PROVE  RankingInv'
<1>1. PICK old : old = call[c]
  OBVIOUS
<1>2. CallIsSound(old) /\ old.phase = "semantic"
  BY <1>1, RunningIsSound DEF Semantic
<1>3. PICK hits : hits = Nearest(old.query, 2 * Limit)
  OBVIOUS
<1>4. 2 * Limit \in Nat /\ store \in SUBSET Docs /\ old.query \in Queries
  BY <1>2 DEF Documents, RankingInv, CallIsSound, CallRecord
<1>5. /\ Answer(hits) /\ Sorted(hits) /\ Len(hits) \in 0..2 * Limit
      /\ Len(hits) < 2 * Limit => IdsOf(hits) = store
  BY <1>3, <1>4, NearestProperties
<1>6. PICK best : best = (IF hits = <<>> THEN "none" ELSE hits[1].id)
  OBVIOUS
<1>7. best # "none" => hits # <<>> /\ hits[1].id = best
  BY <1>6
<1>8. best \in Docs \cup {"none"} /\ hits \in Seq(Hit)
  <2>1. hits \in Seq(Hit)
    BY <1>5 DEF Answer
  <2>2. hits # <<>> => hits[1] \in Hit
    <3>1. hits # <<>> => 1 \in 1..Len(hits)
      BY <2>1, EmptySeq
    <3> QED BY <2>1, <3>1, ElementOfSeq
  <2> QED BY <1>6, <2>1, <2>2 DEF Hit
<1>9. PICK s : s = [old EXCEPT !.found = hits, !.first = store, !.best = best]
  OBVIOUS
<1>10. /\ s \in CallRecord /\ s.kind = old.kind /\ s.best = best /\ s.found = hits
       /\ s.first = store
  BY <1>2, <1>4, <1>8, <1>9 DEF CallIsSound, CallRecord
<1>11. PICK r : r = AfterSearch(s)
  OBVIOUS
<1>12. /\ r = [s EXCEPT !.phase = r.phase]
       /\ IF s.kind = "retrieve" THEN r.phase \in {"indexing", "hybrid", "ranking"}
          ELSE r.phase = "done"
  BY <1>10, <1>11, AfterSearchIs
<1>13. /\ r \in CallRecord /\ r.kind = s.kind /\ r.best = s.best /\ r.found = s.found
       /\ r.first = s.first
  BY <1>10, <1>12 DEF CallRecord, Phases
<1>14. ASSUME best # "none" PROVE Leads(best, hits, 2 * Limit)
  <2>1. \A i \in 1..Len(hits) : hits[1].score >= hits[i].score
    <3> TAKE i \in 1..Len(hits)
    <3>1. Len(hits) \in Nat /\ hits[1].score \in Int
      <4>1. Len(hits) \in Nat /\ \A k \in 1..Len(hits) : hits[k] \in Hit
        BY <1>8, LenProperties, ElementOfSeq
      <4> QED BY <4>1 DEF Hit
    <3>2. CASE i = 1
      BY <3>1, <3>2
    <3>3. CASE i # 1
      <4>1. 1 \in 1..Len(hits) /\ 1 < i
        BY <3>1, <3>3
      <4> QED BY <1>5, <4>1 DEF Sorted
    <3> QED BY <3>2, <3>3
  <2> QED BY <1>7, <1>14, <2>1 DEF Leads
<1>15. ASSUME best # "none" PROVE SearchedBest(r) /\ Leads(r.best, r.found, 2 * Limit)
  BY <1>4, <1>5, <1>10, <1>13, <1>14, <1>15 DEF SearchedBest
<1>16. CallIsSound(r)
  BY <1>2, <1>5, <1>10, <1>12, <1>13, <1>15 DEF CallIsSound, Answer
<1>17. call' = [call EXCEPT ![c] = r] /\ UNCHANGED <<store, changes, builds, bm25>>
  BY <1>1, <1>3, <1>6, <1>9, <1>11 DEF Semantic, Go
<1> QED BY <1>16, <1>17, CallSteps

\* A call that raises or returns leaves nothing.
LEMMA EndsSoundly ==
  ASSUME RankingInv, NEW c \in Calls, Raise(c) \/ Return(c)
  PROVE  RankingInv'
<1>1. call' = [call EXCEPT ![c] = Idle] /\ UNCHANGED <<store, changes, builds, bm25>>
  BY DEF Raise, Return, Go
<1> QED BY <1>1, CallSteps

\* The index is built from what a search gives.
LEMMA BuildIsSound ==
  ASSUME IndexIsSound, builds \in Nat, NEW hits, Answer(hits), Build(hits)
  PROVE  IndexIsSound'
<1>1. PICK old \in Seq(Nat) : old = bm25.lengths
  BY DEF IndexIsSound, IndexIsTyped
<1>2. hits \in Seq(Hit) /\ Len(hits) \in Nat /\ DOMAIN hits = 1..Len(hits)
      /\ \A i \in 1..Len(hits) : hits[i] \in Hit
  BY LenProperties, ElementOfSeq DEF Answer
<1>3. PICK new : new = LengthsOf(hits)
  OBVIOUS
<1>4. new \in Seq(Nat) /\ Len(new) = Len(hits)
      /\ \A i \in 1..Len(hits) : new[i] = Len(Content[hits[i].id])
  <2>1. new = [i \in 1..Len(hits) |-> Len(Content[hits[i].id])]
    BY <1>2, <1>3 DEF LengthsOf
  <2>2. \A i \in 1..Len(hits) : Len(Content[hits[i].id]) \in Nat
    BY <1>2, Documents DEF Hit
  <2>3. new \in [1..Len(hits) -> Nat]
    BY <2>1, <2>2
  <2> QED BY <1>2, <2>1, <2>3
<1>5. PICK all : all = old \o new
  OBVIOUS
<1>6. bm25'.docs = hits /\ bm25'.lengths = all /\ builds' = builds + 1
  BY <1>1, <1>3, <1>5 DEF Build
<1>7. /\ all \in Seq(Nat) /\ Len(all) = Len(old) + Len(hits)
      /\ \A i \in 1..Len(old) + Len(hits) : all[i] = IF i <= Len(old) THEN old[i] ELSE new[i - Len(old)]
  <2>1. /\ old \o new \in Seq(Nat) /\ Len(old \o new) = Len(old) + Len(new)
        /\ \A i \in 1..Len(old) + Len(new) : (old \o new)[i] = IF i <= Len(old) THEN old[i] ELSE new[i - Len(old)]
    <3>1. old \in Seq(Nat) /\ new \in Seq(Nat)
      BY <1>1, <1>4
    <3> QED BY <3>1, ConcatProperties, Zenon
  <2> QED BY <1>4, <1>5, <2>1, Zenon
<1>8. Len(old) \in Nat
  BY LenProperties
<1>9. \A i \in 1..Len(hits) : \E k \in 1..Len(all) : all[k] = Len(Content[hits[i].id])
  <2> TAKE i \in 1..Len(hits)
  <2>1. /\ Len(old) + i \in 1..Len(old) + Len(hits) /\ ~(Len(old) + i <= Len(old))
        /\ Len(old) + i - Len(old) = i
    BY <1>2, <1>8
  <2>2. all[Len(old) + i] = new[i]
    BY <1>7, <2>1
  <2> QED BY <1>4, <1>7, <2>1, <2>2
<1>10. Len(hits) <= Len(all)
  BY <1>2, <1>7, <1>8
<1>11. ASSUME builds' <= 1 PROVE all = new
  <2>1. builds = 0
    BY <1>6, <1>11
  <2>2. old = <<>>
    BY <1>1, <2>1 DEF IndexIsSound
  <2> QED BY <1>4, <1>5, <2>2, ConcatEmptySeq
<1>12. IndexIsTyped'
  BY <1>6, <1>7, <1>9, <1>10 DEF IndexIsTyped
<1>13. builds' # 0
  BY <1>6
<1> QED BY <1>3, <1>6, <1>11, <1>12, <1>13 DEF IndexIsSound

\* Fetching for the index touches nothing that was found.
LEMMA IndexIsSafe ==
  ASSUME RankingInv, NEW c \in Calls, Index(c)
  PROVE  RankingInv'
<1>1. PICK old : old = call[c]
  OBVIOUS
<1>2. CallIsSound(old) /\ old.phase = "indexing"
  BY <1>1, RunningIsSound DEF Index
<1>3. PICK hits : hits = Nearest(old.query, IndexLimit)
  OBVIOUS
<1>4. Answer(hits)
  <2>1. IndexLimit \in Nat /\ store \in SUBSET Docs /\ old.query \in Queries
    BY <1>2, Documents DEF RankingInv, CallIsSound, CallRecord
  <2> QED BY <1>3, <2>1, NearestProperties, Documents
<1> DEFINE r == [old EXCEPT !.phase = "hybrid"]
<1>5. Build(hits) /\ call' = [call EXCEPT ![c] = r] /\ UNCHANGED <<store, changes>>
  BY <1>1, <1>3 DEF Index, Go
<1>6. /\ r \in CallRecord /\ r.phase = "hybrid" /\ r.kind = old.kind /\ r.best = old.best
      /\ r.found = old.found /\ r.first = old.first
  BY <1>2 DEF CallIsSound, CallRecord, Phases
<1> HIDE DEF r
<1>7. CallIsSound(r)
  BY <1>2, <1>6 DEF CallIsSound, SearchedBest
<1>8. call' = [d \in Calls |-> IF d = c THEN r ELSE call[d]]
  BY <1>5 DEF RankingInv
<1>9. \A d \in Calls : call'[d] = Idle \/ CallIsSound(call'[d])
  BY <1>7, <1>8 DEF RankingInv
<1>10. call' = [d \in Calls |-> call'[d]]
  BY <1>8
<1>11. IndexIsSound'
  BY <1>4, <1>5, BuildIsSound DEF RankingInv
<1>12. store' \in SUBSET Docs /\ changes' \in 0..MaxChanges /\ builds' \in Nat
  BY <1>5 DEF RankingInv, Build
<1> QED BY <1>9, <1>10, <1>11, <1>12 DEF RankingInv

\* What was found in the first place still leads after hits of the keyword
\* index are appended, unless these are of documents the store had not.
LEMMA BestStaysAhead ==
  ASSUME NEW r \in CallRecord, Answer(r.found), SearchedBest(r), Limit \in Nat \ {0},
         NEW merged, Answer(merged), IdsOf(merged) \subseteq r.first
  PROVE  Leads(r.best, AddNew(r.found, merged), 2 * Limit)
<1>1. PICK found : found = AddNew(r.found, merged)
  OBVIOUS
<1>2. CASE Len(r.found) < 2 * Limit
  <2>1. found = r.found
    BY <1>1, <1>2, AddNewProperties DEF SearchedBest
  <2> QED BY <1>1, <2>1 DEF SearchedBest
<1>3. CASE ~(Len(r.found) < 2 * Limit)
  <2>1. r.found \in Seq(Hit) /\ Len(r.found) \in Nat
    BY LenProperties DEF Answer
  <2>2. Len(r.found) = 2 * Limit
    BY <1>3, <2>1 DEF SearchedBest
  <2>3. /\ Answer(found) /\ Len(r.found) <= Len(found)
        /\ \A i \in 1..Len(r.found) : found[i] = r.found[i]
    BY <1>1, AddNewProperties
  <2>4. Len(found) \in Nat /\ 1 \in 1..Len(r.found)
    BY <2>2, <2>3, LenProperties DEF Answer
  <2>5. found # <<>>
    BY <2>2, <2>3, <2>4, EmptySeq
  <2>6. \A i \in 1..Len(found) : i <= 2 * Limit => i \in 1..Len(r.found)
    BY <2>2, <2>4
  <2> QED BY <1>1, <2>2, <2>3, <2>4, <2>5, <2>6 DEF SearchedBest, Leads
<1> QED BY <1>2, <1>3

\* Hits of the keyword index are appended to what a retrieval found.
LEMMA HybridIsSound ==
  ASSUME RankingInv, NEW c \in Calls, Hybrid(c)
  PROVE  RankingInv'
<1>1. PICK old : old = call[c]
  OBVIOUS
<1>2. CallIsSound(old) /\ old.phase = "hybrid"
  BY <1>1, RunningIsSound DEF Hybrid
<1>3. PICK n : n = (IF old.kind = "retrieve" THEN 2 * Limit ELSE Limit)
  OBVIOUS
<1>4. PICK answered \in BOOLEAN :
        LET semantic == IF answered THEN Nearest(old.query, 2 * n) ELSE <<>>
            keyword == KeywordSearch(old.query, 2 * n)
            merged == Merge(semantic, keyword, n)
        IN  Go(c, IF old.kind = "retrieve"
                  THEN [old EXCEPT !.found = AddNew(old.found, merged), !.phase = "ranking",
                          !.stale = ~(IdsOf(merged) \subseteq old.first), !.first = {}]
                  ELSE [old EXCEPT !.found = merged, !.phase = "done",
                          !.semantic = semantic, !.keyword = keyword])
  BY <1>1, <1>3 DEF Hybrid
<1>5. PICK semantic : semantic = (IF answered THEN Nearest(old.query, 2 * n) ELSE <<>>)
  OBVIOUS
<1>6. PICK keyword : keyword = KeywordSearch(old.query, 2 * n)
  OBVIOUS
<1>7. PICK merged : merged = Merge(semantic, keyword, n)
  OBVIOUS
<1>8. n \in Nat /\ 2 * n \in Nat
  <2>1. Limit \in Nat /\ 2 * Limit \in Nat
    BY Documents
  <2>2. n \in Nat
    BY <1>3, <2>1
  <2> QED BY <2>2
<1>9. Answer(semantic) /\ Answer(keyword) /\ semantic \in Seq(Hit) /\ keyword \in Seq(Hit)
  <2>1. old.query \in Queries /\ store \in SUBSET Docs /\ IndexIsTyped
    BY <1>2 DEF RankingInv, IndexIsSound, CallIsSound, CallRecord
  <2>2. Answer(<<>>)
    BY DEF Answer, Distinct
  <2>3. Answer(Nearest(old.query, 2 * n))
    BY <1>8, <2>1, NearestProperties, Documents
  <2>4. Answer(keyword)
    BY <1>6, <1>8, <2>1, KeywordSearchAnswer, Documents
  <2>5. Answer(semantic)
    BY <1>5, <2>2, <2>3
  <2> QED BY <2>4, <2>5 DEF Answer
<1>10. /\ Answer(merged) /\ merged \in Seq(Hit)
       /\ semantic # <<>> /\ keyword # <<>> => RespectsRanks(merged, semantic, keyword)
  BY <1>7, <1>8, <1>9, MergeProperties DEF Answer
<1>11. UNCHANGED <<store, changes, builds, bm25>>
  BY DEF Hybrid
<1>12. Answer(old.found)
  BY <1>2 DEF CallIsSound, CallRecord, Answer
<1>13. CASE old.kind = "retrieve"
  <2>1. PICK found : found = AddNew(old.found, merged)
    OBVIOUS
  <2>2. PICK stale \in BOOLEAN : stale = ~(IdsOf(merged) \subseteq old.first)
    OBVIOUS
  <2>3. Go(c, [old EXCEPT !.found = found, !.phase = "ranking", !.stale = stale, !.first = {}])
    BY <1>4, <1>5, <1>6, <1>7, <1>13, <2>1, <2>2
  <2>4. Answer(found) /\ found \in Seq(Hit)
    BY <1>10, <1>12, <2>1, AddNewProperties DEF Answer
  <2>5. ASSUME old.best # "none", ~stale PROVE Leads(old.best, found, 2 * Limit)
    <3>1. old \in CallRecord /\ SearchedBest(old)
      BY <1>2, <1>13, <2>5 DEF CallIsSound
    <3>2. Limit \in Nat \ {0}
      BY Documents
    <3> QED BY <1>10, <1>12, <2>1, <2>2, <2>5, <3>1, <3>2, BestStaysAhead
  <2> DEFINE r == [old EXCEPT !.found = found, !.phase = "ranking", !.stale = stale, !.first = {}]
  <2>6. /\ r \in CallRecord /\ r.phase = "ranking" /\ r.kind = old.kind /\ r.best = old.best
        /\ r.found = found /\ r.stale = stale
    BY <1>2, <2>4 DEF CallIsSound, CallRecord, Phases
  <2>7. call' = [call EXCEPT ![c] = r]
    BY <2>3 DEF Go
  <2> HIDE DEF r
  <2>8. CallIsSound(r)
    BY <1>13, <2>4, <2>5, <2>6 DEF CallIsSound, Answer
  <2> QED BY <1>11, <2>7, <2>8, CallSteps
<1>14. CASE old.kind # "retrieve"
  <2>1. Go(c, [old EXCEPT !.found = merged, !.phase = "done",
                          !.semantic = semantic, !.keyword = keyword])
    BY <1>4, <1>5, <1>6, <1>7, <1>14
  <2> DEFINE r == [old EXCEPT !.found = merged, !.phase = "done",
                              !.semantic = semantic, !.keyword = keyword]
  <2>2. /\ r \in CallRecord /\ r.phase = "done" /\ r.kind = old.kind
        /\ r.found = merged /\ r.semantic = semantic /\ r.keyword = keyword
    BY <1>2, <1>9, <1>10 DEF CallIsSound, CallRecord, Phases
  <2>3. call' = [call EXCEPT ![c] = r]
    BY <2>1 DEF Go
  <2> HIDE DEF r
  <2>4. CallIsSound(r)
    BY <1>10, <1>14, <2>2 DEF CallIsSound, Answer
  <2> QED BY <1>11, <2>3, <2>4, CallSteps
<1> QED BY <1>13, <1>14

\* The best hit passes reranking, compression, filter and limit.
LEMMA FinishIsSound ==
  ASSUME RankingInv, NEW c \in Calls, Finish(c)
  PROVE  RankingInv'
<1>1. PICK old : old = call[c]
  OBVIOUS
<1>2. CallIsSound(old) /\ old.phase = "ranking" /\ old.kind = "retrieve"
  <2>1. CallIsSound(old) /\ old.phase = "ranking"
    BY <1>1, RunningIsSound DEF Finish
  <2> QED BY <2>1 DEF CallIsSound
<1>3. PICK tag \in {"any"} \cup {Tag[d] : d \in Docs} :
        \E model \in IF flags.rerank THEN BOOLEAN ELSE {FALSE} :
        \E hits \in IF flags.rerank
                    THEN {Diverse(x, Limit) : x \in CrossEncoded(old.found, 2 * Limit, model)}
                    ELSE {old.found} :
        \E drop \in IF flags.compress THEN Dropped(hits) ELSE { {} } :
          Go(c, [old EXCEPT !.phase = "done", !.model = model,
                   !.dropped = {hits[i].id : i \in drop},
                   !.found = First(Filtered(Without(hits, drop), tag), Limit), !.tag = tag])
  BY <1>1 DEF Finish
<1>4. PICK model \in BOOLEAN :
        \E hits \in IF flags.rerank
                    THEN {Diverse(x, Limit) : x \in CrossEncoded(old.found, 2 * Limit, model)}
                    ELSE {old.found} :
        \E drop \in IF flags.compress THEN Dropped(hits) ELSE { {} } :
          Go(c, [old EXCEPT !.phase = "done", !.model = model,
                   !.dropped = {hits[i].id : i \in drop},
                   !.found = First(Filtered(Without(hits, drop), tag), Limit), !.tag = tag])
  BY <1>3
<1>5. PICK hits \in (IF flags.rerank
                     THEN {Diverse(x, Limit) : x \in CrossEncoded(old.found, 2 * Limit, model)}
                     ELSE {old.found}) :
        \E drop \in IF flags.compress THEN Dropped(hits) ELSE { {} } :
          Go(c, [old EXCEPT !.phase = "done", !.model = model,
                   !.dropped = {hits[i].id : i \in drop},
                   !.found = First(Filtered(Without(hits, drop), tag), Limit), !.tag = tag])
  BY <1>4
<1>6. PICK drop \in (IF flags.compress THEN Dropped(hits) ELSE { {} }) :
          Go(c, [old EXCEPT !.phase = "done", !.model = model,
                   !.dropped = {hits[i].id : i \in drop},
                   !.found = First(Filtered(Without(hits, drop), tag), Limit), !.tag = tag])
  BY <1>5
<1>7. Limit \in Nat \ {0} /\ 2 * Limit \in Nat /\ 2 * Limit > 0
  BY Documents
<1>8. Answer(old.found) /\ old.found \in Seq(Hit)
  BY <1>2 DEF CallIsSound, CallRecord, Answer
\* What reranking leaves, and who leads it.
<1>9. /\ Answer(hits)
      /\ ~model /\ Leads(old.best, old.found, 2 * Limit) => hits # <<>> /\ hits[1].id = old.best
  <2>1. CASE flags.rerank
    <3>1. PICK x \in CrossEncoded(old.found, 2 * Limit, model) : hits = Diverse(x, Limit)
      BY <2>1
    <3>2. Answer(x) /\ (~model => x = First(old.found, 2 * Limit))
      BY <1>7, <1>8, CrossEncodedProperties
    <3>3. /\ Answer(hits)
          /\ x # <<>> /\ (\A i \in 1..Len(x) : x[1].score >= x[i].score) =>
               hits # <<>> /\ hits[1] = x[1]
      BY <1>7, <3>1, <3>2, DiverseProperties
    <3>4. ASSUME ~model, Leads(old.best, old.found, 2 * Limit)
          PROVE  hits # <<>> /\ hits[1].id = old.best
      <4>1. x = First(old.found, 2 * Limit)
        BY <3>2, <3>4
      <4>2. /\ Len(x) <= 2 * Limit /\ Len(x) <= Len(old.found)
            /\ \A i \in 1..Len(x) : x[i] = old.found[i]
            /\ x # <<>> /\ x[1] = old.found[1]
        BY <1>7, <1>8, <3>4, <4>1, FirstAnswer DEF Leads
      <4>3. \A i \in 1..Len(x) : x[1].score >= x[i].score
        <5>1. Len(x) \in Nat /\ Len(old.found) \in Nat
          BY <1>8, <3>2, LenProperties DEF Answer
        <5>2. \A i \in 1..Len(x) : i \in 1..Len(old.found) /\ i <= 2 * Limit
          BY <1>7, <4>2, <5>1
        <5> QED BY <3>4, <4>2, <5>2 DEF Leads
      <4> QED BY <3>3, <3>4, <4>2, <4>3 DEF Leads
    <3> QED BY <3>3, <3>4
  <2>2. CASE ~flags.rerank
    <3>1. hits = old.found
      BY <2>2
    <3> QED BY <1>8, <3>1 DEF Leads
  <2> QED BY <2>1, <2>2
<1>10. hits \in Seq(Hit) /\ DOMAIN hits = 1..Len(hits) /\ \A i \in 1..Len(hits) : hits[i].id \in Docs
  <2>1. hits \in Seq(Hit) /\ \A i \in 1..Len(hits) : hits[i] \in Hit
    BY <1>9, ElementOfSeq DEF Answer
  <2> QED BY <2>1, LenProperties DEF Hit
<1>11. PICK dropped : dropped = {hits[i].id : i \in drop}
  OBVIOUS
<1>12. drop \subseteq 1..Len(hits)
  BY <1>10 DEF Dropped
<1>13. dropped \in SUBSET Docs
  BY <1>10, <1>11, <1>12
<1>14. PICK kept : kept = Without(hits, drop)
  OBVIOUS
<1>15. PICK left : left = Filtered(kept, tag)
  OBVIOUS
<1>16. PICK found : found = First(left, Limit)
  OBVIOUS
<1>17. /\ Answer(kept)
       /\ 1 \notin drop /\ hits # <<>> => kept # <<>> /\ kept[1] = hits[1]
  BY <1>9, <1>14, WithoutProperties
<1>18. /\ Answer(left)
       /\ tag # "any" => \A k \in 1..Len(left) : Tag[left[k].id] = tag
       /\ kept # <<>> /\ tag \in {"any", Tag[kept[1].id]} => left # <<>> /\ left[1] = kept[1]
  BY <1>15, <1>17, FilteredProperties
<1>19. /\ Answer(found) /\ found \in Seq(Hit) /\ Len(found) <= Limit /\ Len(found) <= Len(left)
       /\ \A i \in 1..Len(found) : found[i] = left[i]
       /\ left # <<>> => found # <<>> /\ found[1] = left[1]
  <2>1. Limit \in Nat /\ Limit > 0
    BY <1>7
  <2> QED BY <1>16, <1>18, <2>1, FirstAnswer DEF Answer
<1>20. tag # "any" => \A i \in 1..Len(found) : Tag[found[i].id] = tag
  <2>1. Len(found) \in Nat /\ Len(left) \in Nat
    BY <1>18, <1>19, LenProperties DEF Answer
  <2>2. \A i \in 1..Len(found) : i \in 1..Len(left)
    BY <1>19, <2>1
  <2> QED BY <1>18, <1>19, <2>2
<1>21. ASSUME old.best # "none", ~model, old.best \notin dropped, tag \in {"any", Tag[old.best]},
              ~old.stale
       PROVE  found # <<>> /\ found[1].id = old.best
  <2>1. hits # <<>> /\ hits[1].id = old.best
    <3>1. Leads(old.best, old.found, 2 * Limit)
      BY <1>2, <1>21 DEF CallIsSound
    <3> QED BY <1>9, <1>21, <3>1
  <2>2. 1 \notin drop
    BY <1>11, <1>21, <2>1
  <2>3. kept # <<>> /\ kept[1] = hits[1]
    BY <1>17, <2>1, <2>2
  <2>4. left # <<>> /\ left[1] = kept[1]
    BY <1>18, <1>21, <2>1, <2>3
  <2> QED BY <1>19, <2>1, <2>3, <2>4
<1> DEFINE r == [old EXCEPT !.phase = "done", !.model = model, !.dropped = dropped,
                            !.found = found, !.tag = tag]
<1>22. call' = [call EXCEPT ![c] = r] /\ UNCHANGED <<store, changes, builds, bm25>>
  BY <1>6, <1>11, <1>14, <1>15, <1>16 DEF Go, Finish
<1>23. /\ r \in CallRecord /\ r.phase = "done" /\ r.kind = "retrieve" /\ r.best = old.best
       /\ r.found = found /\ r.model = model /\ r.dropped = dropped /\ r.tag = tag
       /\ r.stale = old.stale
  BY <1>2, <1>13, <1>19 DEF CallIsSound, CallRecord, Phases
<1> HIDE DEF r
<1>24. AnswersBest(r) \/ r.best = "none"
  BY <1>21, <1>23 DEF AnswersBest
<1>25. CallIsSound(r)
  BY <1>19, <1>20, <1>23, <1>24 DEF CallIsSound, Answer
<1> QED BY <1>22, <1>25, CallSteps

\* The invariant holds in every state.
LEMMA RankingInvHolds == Spec => []RankingInv
<1>1. Init => RankingInv
  <2> SUFFICES ASSUME Init PROVE RankingInv
    OBVIOUS
  <2>1. /\ store = Docs /\ bm25 = [docs |-> <<>>, lengths |-> <<>>]
        /\ call = [c \in Calls |-> Idle] /\ builds = 0 /\ changes = 0
    BY DEF Init
  <2>2. bm25.docs = <<>> /\ bm25.lengths = <<>>
    BY <2>1
  <2>3. IndexIsTyped
    <3>1. Answer(<<>>) /\ <<>> \in Seq(Nat) /\ Len(<<>>) = 0
      BY DEF Answer, Distinct
    <3> QED BY <2>2, <3>1 DEF IndexIsTyped
  <2>4. LengthsOf(<<>>) = <<>>
    BY DEF LengthsOf
  <2>5. IndexIsSound
    BY <2>2, <2>3, <2>4 DEF IndexIsSound
  <2>6. 0 \in 0..MaxChanges /\ 0 \in Nat
    BY Documents
  <2>7. \A c \in Calls : call[c] = Idle
    BY <2>1
  <2>8. call = [c \in Calls |-> call[c]]
    BY <2>1
  <2> QED BY <2>1, <2>5, <2>6, <2>7, <2>8 DEF RankingInv
<1>2. RankingInv /\ [Next]_vars => RankingInv'
  <2> SUFFICES ASSUME RankingInv, [Next]_vars PROVE RankingInv'
    OBVIOUS
  <2>1. ASSUME NEW c \in Calls,
               \/ \E kind \in {"retrieve", "multi", "hybrid"} : Start(c, kind)
               \/ Expand(c) \/ SearchNext(c) \/ SearchesEnd(c)
               \/ Semantic(c) \/ Raise(c) \/ Index(c) \/ Hybrid(c) \/ Finish(c) \/ Return(c)
        PROVE  RankingInv'
    BY <2>1, Documents, StartIsSound, ExpandIsSound, SearchNextIsSound, SearchesEndIsSound,
       SemanticIsSound, EndsSoundly, IndexIsSafe, HybridIsSound, FinishIsSound
  <2>2. CASE Change
    <3>1. /\ changes < MaxChanges /\ changes' = changes + 1
          /\ UNCHANGED <<bm25, call, builds>>
          /\ \E d \in Docs : store' = IF d \in store THEN store \ {d} ELSE store \cup {d}
      BY <2>2 DEF Change
    <3>2. store' \in SUBSET Docs
      BY <3>1 DEF RankingInv
    <3>3. changes' \in 0..MaxChanges
      BY <3>1, Documents DEF RankingInv
    <3> QED BY <3>1, <3>2, <3>3 DEF RankingInv, IndexIsSound, IndexIsTyped
  <2>3. CASE UNCHANGED vars
    BY <2>3 DEF vars, RankingInv, IndexIsSound, IndexIsTyped
  <2> QED BY <2>1, <2>2, <2>3 DEF Next
<1> QED BY <1>1, <1>2, PTL DEF Spec

\* Answers have no document twice, keep limit and filter, and are ranked by
\* what was measured of their own documents, however calls and changes of the
\* store interleave (hybrid.py, reranker.py, advanced_retriever.py).
THEOREM RankingHolds == Spec => []RankingIsSound
<1>1. RankingInv => RankingIsSound
  <2> SUFFICES ASSUME RankingInv PROVE RankingIsSound
    OBVIOUS
  <2>1. \A c \in Calls : call[c].phase # "idle" => CallIsSound(call[c])
    BY RunningIsSound
  <2>2. TypeOK
    <3>1. \A c \in Calls : call[c].phase \in Phases \cup {"idle"}
      <4>1. \A c \in Calls : call[c].phase # "idle" => call[c] \in CallRecord
        BY <2>1 DEF CallIsSound
      <4> QED BY <4>1 DEF CallRecord
    <3> QED BY <3>1 DEF RankingInv, IndexIsSound, IndexIsTyped, Phases, TypeOK
  <2>3. ResultsAreDistinct
    <3> SUFFICES ASSUME NEW c \in Calls, call[c].phase = "done"
                 PROVE  /\ Cardinality(IdsOf(call[c].found)) = Len(call[c].found)
                        /\ call[c].kind = "retrieve" =>
                             /\ Len(call[c].found) <= Limit
                             /\ call[c].tag # "any" => \A i \in DOMAIN call[c].found :
                                  Tag[call[c].found[i].id] = call[c].tag
      BY Zenon DEF ResultsAreDistinct
    <3>1. CallIsSound(call[c])
      BY <2>1
    <3>2. Answer(call[c].found)
      BY <3>1 DEF CallIsSound, CallRecord, Answer
    <3>3. DOMAIN call[c].found = 1..Len(call[c].found)
      BY <3>2, LenProperties DEF Answer
    <3> QED BY <3>1, <3>2, <3>3, AnswerHasItsLength DEF CallIsSound
  <2>4. RankedByOwnLength
    BY Documents, OneBuildRanksByOwnLength DEF RankingInv, IndexIsSound
  <2>5. FusionRespectsRanks
    BY <2>1 DEF CallIsSound, FusionRespectsRanks, Done
  <2> QED BY <2>2, <2>3, <2>4, <2>5 DEF RankingIsSound
<1> QED BY <1>1, RankingInvHolds, PTL

\* Without query expansion and without a cross-encoder the most similar
\* document is answered first, unless it is dropped or hits of documents that
\* the store had not come in (advanced_retriever.py, reranker.py:94).
THEOREM BestHitSurvives == Spec => []TopHitSurvives
<1>1. RankingInv => TopHitSurvives
  <2> SUFFICES ASSUME RankingInv PROVE TopHitSurvives
    OBVIOUS
  <2> SUFFICES ASSUME NEW c \in Calls, Done(c, "retrieve"), call[c].best # "none", ~call[c].model,
                      call[c].best \notin call[c].dropped,
                      call[c].tag \in {"any", Tag[call[c].best]}
               PROVE  \/ call[c].found # <<>> /\ call[c].found[1].id = call[c].best
                      \/ call[c].stale
    BY Zenon DEF TopHitSurvives
  <2>1. CallIsSound(call[c])
    BY RunningIsSound DEF Done
  <2> QED BY <2>1 DEF CallIsSound, AnswersBest, Done
<1> QED BY <1>1, RankingInvHolds, PTL
=============================================================================

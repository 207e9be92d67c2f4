----------------------------- MODULE Retrieval -----------------------------
(***************************************************************************)
(* src/infrastructure/rag/: AdvancedRetriever.retrieve() with its parts    *)
(* (query_expansion.py, hybrid.py, reranker.py, compression.py), and the   *)
(* parts used on their own: MultiQuerySearcher.search() and                *)
(* HybridSearcher.search() with a search function of their caller.         *)
(*                                                                         *)
(* A query is one word.  A hit is an id with the score the vector store    *)
(* gave it.  BM25 scores of a query of one word compare like the integers  *)
(* below (the factor idf is the same for all documents), so rankings are   *)
(* exact; scores themselves, source_query and logging are left out.        *)
(***************************************************************************)
EXTENDS Integers, Sequences, SequencesExt, FiniteSetsExt

CONSTANTS Calls,        \* concurrent calls
          Docs,         \* ids of documents
          Queries,      \* words somebody may search for
          Content,      \* Content[d]: the words of a document
          Tag,          \* Tag[d]: the metadata a filter looks at
          Score,        \* Score[q][d]: similarity, as the vector store sees it
          Limit,        \* the limit of a retrieval
          IndexLimit,   \* documents fetched for the keyword index (100)
          MaxChanges    \* bound: documents added to or removed from the store

\* Documents are sequences of words, scores are numbers, and a retrieval is
\* asked for something.
ASSUME Documents ==
  /\ IsFiniteSet(Docs)
  /\ \A d \in Docs : Len(Content[d]) \in Nat /\ DOMAIN Content[d] = 1..Len(Content[d])
  /\ Score \in [Queries -> [Docs -> Int]]
  /\ Limit \in Nat \ {0} /\ IndexLimit \in Nat /\ MaxChanges \in Nat

VARIABLES store,    \* documents in the vector store
          flags,    \* enable_query_expansion, ... of the retriever
          indexed,  \* AdvancedRetriever._documents_indexed
          bm25,     \* the keyword index: its documents and their lengths
          call,     \* the calls
          builds,   \* history: how often the index was built
          overlap,  \* history: two calls were fetching for the index at once
          changes   \* changes of the store so far

vars == <<store, flags, indexed, bm25, call, builds, overlap, changes>>

Idle == [kind |-> "none", phase |-> "idle"]

\* What a stable sort leaves of the indices T of s: one that is better than
\* another, or not worse and left of it, comes before it.
Ranked(s, T, better) ==
  LET ahead(i, j) == <<i, j>> \in better \/ (<<j, i>> \notin better /\ i < j)
      place == [i \in T |-> Cardinality({j \in T : j = i \/ ahead(j, i)})]
  IN  [k \in 1..Cardinality(T) |-> s[CHOOSE i \in T : place[i] = k]]

\* [x for x in s if ...]
Kept(s, T) == Ranked(s, T, {})

First(s, n) == SubSeq(s, 1, IF n < Len(s) THEN n ELSE Len(s))
IdsOf(hits) == {hits[i].id : i \in DOMAIN hits}
BestFirst(hits) ==
  Ranked(hits, DOMAIN hits,
         {p \in (DOMAIN hits) \X (DOMAIN hits) : hits[p[1]].score > hits[p[2]].score})

\* Seeded fault: what was found before is not looked at.
AddAll(found, hits) == found \o hits

\* What found does not have of hits is appended to it.
AddNew(found, hits) ==
  found \o Kept(hits, {i \in DOMAIN hits : hits[i].id \notin IdsOf(found)})

\* VectorStore.search(): the most similar documents.
Nearest(q, limit) ==
  First(BestFirst(SetToSeq({[id |-> d, score |-> Score[q][d]] : d \in store})), limit)

Init ==
  /\ store = Docs
  /\ flags \in [expand : BOOLEAN, hybrid : BOOLEAN, rerank : BOOLEAN, compress : BOOLEAN]
  /\ indexed = FALSE
  /\ bm25 = [docs |-> <<>>, lengths |-> <<>>]
  /\ call = [c \in Calls |-> Idle]
  /\ builds = 0
  /\ overlap = FALSE
  /\ changes = 0

-----------------------------------------------------------------------------
(* hybrid.py. *)

\* Seeded fault: the last document is not counted.
LengthsMissing(hits) == [i \in 1..(Len(hits) - 1) |-> Len(Content[hits[i].id])]

\* Seeded fault: every document is taken for one of the same length.
NoLengths(hits) == [i \in DOMAIN hits |-> 1]

LengthsOf(hits) == [i \in DOMAIN hits |-> Len(Content[hits[i].id])]

\* _build_index(): the lengths are appended to those of the last index.
Build(hits) ==
  /\ bm25' = [docs |-> hits, lengths |-> bm25.lengths \o LengthsOf(hits)]
  /\ builds' = builds + 1

TermFrequency(d, w) == Cardinality({i \in DOMAIN Content[d] : Content[d][i] = w})

\* All words that were counted.
Total(lengths) == Cardinality(UNION {{i} \X (1..lengths[i]) : i \in DOMAIN lengths})

\* Scores are fractions.
Exceeds(x, y) == x.num * y.den > y.num * x.den

\* BM25 with b = 0.75: tf / (tf + k1 (1 - b + b len / average)); the k1 and the
\* tf of the denominator cancel out of a comparison.
BM25Score(w, lengths, i) ==
  [num |-> TermFrequency(bm25.docs[i].id, w),
   den |-> Total(lengths) + 3 * Len(lengths) * lengths[i]]

Outranks(w, lengths, i, j) == Exceeds(BM25Score(w, lengths, i), BM25Score(w, lengths, j))

KeywordSearch(w, limit) ==
  LET matches == {i \in DOMAIN bm25.docs : TermFrequency(bm25.docs[i].id, w) > 0}
      better == {p \in matches \X matches : Outranks(w, bm25.lengths, p[1], p[2])}
  IN  First(Ranked(bm25.docs, matches, better), limit)

\* Position of a document in a list; 0 when it is not there.
RankIn(id, hits) ==
  IF id \in IdsOf(hits) THEN CHOOSE i \in DOMAIN hits : hits[i].id = id ELSE 0

\* Seeded fault: positions are added up instead of their reciprocals.
FusionOfPositions(id, first, second) ==
  [num |-> RankIn(id, first) + RankIn(id, second), den |-> 1]

\* The sum of 1 / (60 + position) over the lists that have the document.
FusionScore(id, first, second) ==
  LET i == RankIn(id, first)
      j == RankIn(id, second)
  IN  [num |-> (IF i = 0 THEN 0 ELSE 60 + j) + (IF j = 0 THEN 0 ELSE 60 + i),
       den |-> (60 + i) * (60 + j)]

\* reciprocal_rank_fusion(): the data of a document is that of the last list.
Fused(first, second, limit) ==
  LET last == [i \in DOMAIN first |->
                IF first[i].id \in IdsOf(second) THEN second[RankIn(first[i].id, second)]
                ELSE first[i]]
      all == AddNew(last, second)
      score(i) == FusionScore(all[i].id, first, second)
      better == {p \in (DOMAIN all) \X (DOMAIN all) : Exceeds(score(p[1]), score(p[2]))}
  IN  First(Ranked(all, DOMAIN all, better), limit)

\* HybridSearcher.search(), once its semantic search has answered or failed.
Merge(semantic, keyword, limit) ==
  IF semantic # <<>> /\ keyword # <<>> THEN Fused(semantic, keyword, limit)
  ELSE First(semantic \o keyword, limit)

-----------------------------------------------------------------------------
(* query_expansion.py: MultiQuerySearcher. *)

\* At most three queries, the rewritten one first.
Variants(rewritten, expansions) ==
  LET others == {i \in DOMAIN expansions : expansions[i] # rewritten}
  IN  First(<<rewritten>> \o Kept(expansions, others), 3)

-----------------------------------------------------------------------------
(* reranker.py and compression.py. *)

\* CrossEncoderReranker: any order when there is a model; without one, or when
\* it fails, the order there was.
CrossEncoded(hits, n, model) ==
  IF ~model THEN {First(hits, n)}
  ELSE {First([i \in DOMAIN hits |-> hits[p[i]]], n) :
          p \in {f \in [DOMAIN hits -> DOMAIN hits] : IsInjective(f)}}

\* Seeded fault: the smallest value is taken for the best.
DiverseWorst(hits, n) ==
  IF Len(hits) <= n THEN hits ELSE First(Reverse(BestFirst(hits)), n)

\* MMRReranker: no document of the store has an embedding in its payload, so
\* only the scores of the vector store count; with n hits or fewer, nothing.
Diverse(hits, n) ==
  IF Len(hits) <= n THEN hits ELSE First(BestFirst(hits), n)

\* ContextualCompressor drops what has no content, and what the model finds
\* not relevant among those that are long enough to be asked about.
Dropped(hits) ==
  LET empty == {i \in DOMAIN hits : Content[hits[i].id] = <<>>}
      long == {i \in DOMAIN hits : Len(Content[hits[i].id]) > 1}
  IN  {empty \cup irrelevant : irrelevant \in SUBSET long}

Without(hits, drop) == Kept(hits, DOMAIN hits \ drop)

\* retrieve() filters after everything else has been cut to the limit.
Filtered(hits, tag) ==
  IF tag = "any" THEN hits ELSE Kept(hits, {i \in DOMAIN hits : Tag[hits[i].id] = tag})

-----------------------------------------------------------------------------
(* Calls. *)

Go(c, r) == call' = [call EXCEPT ![c] = r]

\* The function that retrieve() hands to the searchers is a lambda q, lim; they
\* call it with the keyword limit, which it does not have: it raises TypeError.
\* Callers of their own pass functions that can be called.
Callable(c) == call[c].kind # "retrieve"

\* A part that is used on its own shares nothing that retrievals change while
\* it runs, except the store: it is not interleaved with them.
Start(c, kind) ==
  /\ call[c].phase = "idle"
  /\ \A x \in Calls : call[x].phase = "idle" \/ (kind = "retrieve" /\ ~Callable(x))
  /\ \E q \in Queries :
       Go(c, [kind |-> kind, query |-> q, tag |-> "any", found |-> <<>>, best |-> "none",
              failed |-> FALSE, model |-> FALSE, dropped |-> {}, first |-> {}, stale |-> FALSE,
              left |-> <<>>, semantic |-> <<>>, keyword |-> <<>>,
              phase |-> IF kind = "multi" \/ (kind = "retrieve" /\ flags.expand) THEN "rewriting"
                        ELSE IF kind = "hybrid" THEN "hybrid" ELSE "semantic"])
  /\ UNCHANGED <<store, flags, indexed, bm25, builds, overlap, changes>>

\* rewrite() and expand(): the model answers anything, or fails (no change);
\* max_expansions = 3, the query itself and two more.
Expand(c) ==
  /\ call[c].phase = "rewriting"
  /\ \E rewritten \in Queries : \E n \in 0..2 : \E more \in [1..n -> Queries] :
       Go(c, [call[c] EXCEPT !.phase = "searching",
                             !.left = Variants(rewritten, <<rewritten>> \o more)])
  /\ UNCHANGED <<store, flags, indexed, bm25, builds, overlap, changes>>

\* One of the searches of MultiQuerySearcher.search(); one that raises is
\* logged and skipped.
SearchNext(c) ==
  /\ call[c].phase = "searching" /\ call[c].left # <<>>
  /\ \/ /\ Callable(c)
        /\ Go(c, [call[c] EXCEPT !.left = Tail(@),
                    !.found = AddNew(@, Nearest(Head(call[c].left), 2 * Limit))])
     \/ Go(c, [call[c] EXCEPT !.left = Tail(@), !.failed = @ \/ Callable(c)])
  /\ UNCHANGED <<store, flags, indexed, bm25, builds, overlap, changes>>

\* What follows the first search: the keyword index, if enabled and not built.
AfterSearch(r) ==
  [r EXCEPT !.phase = IF r.kind # "retrieve" THEN "done"
                      ELSE IF flags.hybrid /\ r.found # <<>>
                           THEN IF indexed THEN "hybrid" ELSE "indexing"
                           ELSE "ranking"]

SearchesEnd(c) ==
  /\ call[c].phase = "searching" /\ call[c].left = <<>>
  /\ LET r == AfterSearch([call[c] EXCEPT !.found = First(BestFirst(@), 2 * Limit)])
     IN  /\ Go(c, r)
         /\ overlap' = (overlap \/ (r.phase = "indexing" /\
                          \E x \in Calls \ {c} : call[x].phase = "indexing"))
  /\ UNCHANGED <<store, flags, indexed, bm25, builds, changes>>

\* Without expansion: one search; an error of it ends the call.
Semantic(c) ==
  /\ call[c].phase = "semantic"
  /\ LET hits == Nearest(call[c].query, 2 * Limit)
         r == AfterSearch([call[c] EXCEPT !.found = hits, !.first = store,
                             !.best = IF hits = <<>> THEN "none" ELSE hits[1].id])
     IN  /\ Go(c, r)
         /\ overlap' = (overlap \/ (r.phase = "indexing" /\
                          \E x \in Calls \ {c} : call[x].phase = "indexing"))
  /\ UNCHANGED <<store, flags, indexed, bm25, builds, changes>>

Raise(c) ==
  /\ call[c].phase \in {"semantic", "indexing", "ranking"}
  /\ call[c].phase = "ranking" => flags.rerank /\ call[c].found # <<>>
  /\ Go(c, Idle)
  /\ UNCHANGED <<store, flags, indexed, bm25, builds, overlap, changes>>

\* Seeded fault: the flag is not set.
IndexedNever == FALSE
\* `self._documents_indexed = True`
IndexedNow == TRUE

\* The flag was looked at before this search was awaited.
Index(c) ==
  /\ call[c].phase = "indexing"
  /\ Build(Nearest(call[c].query, IndexLimit))
  /\ indexed' = IndexedNow
  /\ Go(c, [call[c] EXCEPT !.phase = "hybrid"])
  /\ UNCHANGED <<store, flags, overlap, changes>>

\* HybridSearcher.search(): a semantic search that raises is logged.  On its
\* own that is the answer; retrieve() appends what it did not have.
Hybrid(c) ==
  /\ call[c].phase = "hybrid"
  /\ LET n == IF call[c].kind = "retrieve" THEN 2 * Limit ELSE Limit IN
     \E answered \in {FALSE} \cup (IF Callable(c) THEN {TRUE} ELSE {}) :
       LET semantic == IF answered THEN Nearest(call[c].query, 2 * n) ELSE <<>>
           keyword == KeywordSearch(call[c].query, 2 * n)
           merged == Merge(semantic, keyword, n)
       IN  Go(c, IF call[c].kind = "retrieve"
                 THEN [call[c] EXCEPT !.found = AddNew(@, merged), !.phase = "ranking",
                         !.stale = ~(IdsOf(merged) \subseteq call[c].first), !.first = {}]
                 ELSE [call[c] EXCEPT !.found = merged, !.phase = "done",
                         !.semantic = semantic, !.keyword = keyword])
  /\ UNCHANGED <<store, flags, indexed, bm25, builds, overlap, changes>>

\* Reranking, compression, filter and limit.  The filter is an argument of the
\* call and used here for the first time.
Finish(c) ==
  /\ call[c].phase = "ranking"
  /\ \E tag \in {"any"} \cup {Tag[d] : d \in Docs} :
     \E model \in IF flags.rerank THEN BOOLEAN ELSE {FALSE} :
     \E hits \in IF flags.rerank
                 THEN {Diverse(x, Limit) : x \in CrossEncoded(call[c].found, 2 * Limit, model)}
                 ELSE {call[c].found} :
     \E drop \in IF flags.compress THEN Dropped(hits) ELSE { {} } :
           Go(c, [call[c] EXCEPT !.phase = "done", !.model = model, !.dropped = {hits[i].id : i \in drop},
                    !.found = First(Filtered(Without(hits, drop), tag), Limit), !.tag = tag])
  /\ UNCHANGED <<store, flags, indexed, bm25, builds, overlap, changes>>

Return(c) ==
  /\ call[c].phase = "done"
  /\ Go(c, Idle)
  /\ UNCHANGED <<store, flags, indexed, bm25, builds, overlap, changes>>

Change ==
  /\ changes < MaxChanges
  /\ changes' = changes + 1
  /\ \E d \in Docs : store' = IF d \in store THEN store \ {d} ELSE store \cup {d}
  /\ UNCHANGED <<flags, indexed, bm25, call, builds, overlap>>

Next ==
  \/ \E c \in Calls :
       \/ \E kind \in {"retrieve", "multi", "hybrid"} : Start(c, kind)
       \/ Expand(c) \/ SearchNext(c) \/ SearchesEnd(c)
       \/ Semantic(c) \/ Raise(c) \/ Index(c) \/ Hybrid(c) \/ Finish(c) \/ Return(c)
  \/ Change

Spec == Init /\ [][Next]_vars

-----------------------------------------------------------------------------
(* What is checked. *)

TypeOK ==
  /\ store \subseteq Docs
  /\ Len(bm25.docs) <= Len(bm25.lengths)
  /\ \A c \in Calls : call[c].phase \in {"idle", "rewriting", "searching", "semantic",
                                        "indexing", "hybrid", "ranking", "done"}
  /\ changes \in 0..MaxChanges

Done(c, kind) == call[c].phase = "done" /\ call[c].kind = kind

\* Whatever searches are merged, no document is answered twice, and a retrieval
\* answers no more than its limit and nothing its filter excludes.
ResultsAreDistinct ==
  \A c \in Calls : call[c].phase = "done" =>
    LET found == call[c].found IN
    /\ Cardinality(IdsOf(found)) = Len(found)
    /\ call[c].kind = "retrieve" =>
         /\ Len(found) <= Limit
         /\ call[c].tag # "any" => \A i \in DOMAIN found : Tag[found[i].id] = call[c].tag

\* Without query expansion and without a cross-encoder the most similar document
\* is answered first, unless compression or the filter drops it, or a document
\* takes its place that only the keyword index has, and the store had not when
\* the call searched it: the index is built once and keeps documents that were
\* deleted, with the scores of another query.
TopHitSurvives ==
  \A c \in Calls : Done(c, "retrieve") /\ call[c].best # "none" /\ ~call[c].model
      /\ call[c].best \notin call[c].dropped /\ call[c].tag \in {"any", Tag[call[c].best]} =>
    LET found == call[c].found IN
    \/ found # <<>> /\ found[1].id = call[c].best
    \/ call[c].stale

\* Keyword hits come in the order of their own term frequencies and lengths.
\* Only while the index was built once: a second build leaves the lengths of
\* the first one in front, and documents are ranked by those of others.
RankedByOwnLength ==
  builds <= 1 => \A w \in Queries :
    LET hits == KeywordSearch(w, IndexLimit)
        own == [i \in DOMAIN bm25.docs |-> Len(Content[bm25.docs[i].id])]
        at(h) == CHOOSE i \in DOMAIN bm25.docs : bm25.docs[i] = h
    IN  \A i, j \in DOMAIN hits : i < j => ~Outranks(w, own, at(hits[j]), at(hits[i]))

\* The index is built twice only when two retrievals fetched its documents at
\* the same time: both had seen the flag before either set it.
BuiltTwiceOnlyByOverlap == builds > 1 => overlap

\* x is in hits, and y is not or comes after it.
Before(x, y, hits) ==
  RankIn(x, hits) # 0 /\ (RankIn(y, hits) = 0 \/ RankIn(x, hits) < RankIn(y, hits))

RespectsRanks(fused, first, second) ==
  \A x \in IdsOf(first), y \in IdsOf(fused) :
    Before(x, y, first) /\ Before(x, y, second) => Before(x, y, fused)

\* Fusion respects the lists it fuses: a document that is in both, and in each
\* before another, comes before that other one.
FusionRespectsRanks ==
  \A c \in Calls : Done(c, "hybrid") /\ call[c].semantic # <<>> /\ call[c].keyword # <<>> =>
    RespectsRanks(call[c].found, call[c].semantic, call[c].keyword)

\* "Step 1: Query expansion (uses multi-query for better coverage)": a
\* retrieval with query expansion finds documents when the store has some and
\* answers, and nothing drops them.
ExpansionFindsDocuments ==
  \A c \in Calls : Done(c, "retrieve") /\ flags.expand /\ changes = 0 /\ store # {}
      /\ call[c].tag = "any" /\ call[c].dropped = {} /\ ~call[c].failed =>
    call[c].found # <<>>

\* Answers have no result twice, and are ranked by what was measured of their
\* own documents (hybrid.py, reranker.py, advanced_retriever.py).
RankingIsSound ==
  TypeOK /\ ResultsAreDistinct /\ RankedByOwnLength /\ FusionRespectsRanks
=============================================================================

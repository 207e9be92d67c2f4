----------------------------- MODULE Embeddings -----------------------------
(***************************************************************************)
(* src/infrastructure/embeddings/: EmbeddingService.embed_batch() over     *)
(* EmbeddingCache (Redis, with the memory of the process behind it) and a  *)
(* provider.  A vector is what it stands for: who made it, of which text.  *)
(*                                                                         *)
(* Every await is a step: one look-up, one request to the provider, one    *)
(* store.  Statistics and the truncation to 8000 characters are left out.  *)
(***************************************************************************)
EXTENDS Integers, Sequences, SequencesExt, FiniteSetsExt

CONSTANTS Callers,      \* tasks that embed texts
          Norm(_),      \* preprocess_for_embedding()
          Settings,     \* configurations a process may start with
          EmbedBatch    \* EmbeddingService.BATCH_SIZE

ASSUME EmbedBatchAssumption == EmbedBatch \in Nat \ {0}

VARIABLES settings,  \* the configuration of the running process
          redis,     \* cached vectors in Redis, which survives the process
          memory,    \* cached vectors in the process
          emb,       \* the batch of each caller
          short      \* history: a provider answered with fewer vectors

embVars == <<settings, redis, memory, emb, short>>

None == [of |-> <<"nothing">>]
NoCache == [k \in {} |-> k]
EmbIdle == [phase |-> "idle"]

\* _create_provider(): the first one that is configured and can be built.
\* The local one is built even when its model cannot be loaded.
ProviderName(s) ==
  IF "openai" \in s.keys /\ ~s.broken THEN "openai"
  ELSE IF "jina" \in s.keys /\ ~s.broken THEN "jina"
  ELSE IF "local" \in s.keys THEN "local"
  ELSE "placeholder"

VectorOf(text) == [of |-> text, by |-> ProviderName(settings), model |-> settings.model]

\* The cache is keyed by the name of the provider and the text.
KeyOf(text) == <<ProviderName(settings), text>>

EmbInit ==
  /\ settings \in Settings
  /\ redis = NoCache
  /\ memory = NoCache
  /\ emb = [c \in Callers |-> EmbIdle]
  /\ short = FALSE

-----------------------------------------------------------------------------
(* EmbeddingCache. *)

\* get(): Redis, and the memory of the process when Redis fails or misses.
Remembered(k) == IF k \in DOMAIN memory THEN memory[k] ELSE None
Cached(k) == IF k \in DOMAIN redis THEN redis[k] ELSE Remembered(k)

Put(f, k, v) == [x \in DOMAIN f \cup {k} |-> IF x = k THEN v ELSE f[x]]
Lacking(f, ks) == [x \in DOMAIN f \ ks |-> f[x]]

\* invalidate(): an error of Redis leaves its copy behind.
Invalidate(text) ==
  /\ KeyOf(text) \in DOMAIN memory \cup DOMAIN redis
  /\ memory' = Lacking(memory, {KeyOf(text)})
  /\ redis' \in {redis, Lacking(redis, {KeyOf(text)})}
  /\ UNCHANGED <<settings, emb, short>>

\* clear(): the memory at once, the keys of Redis page by page (RedisLoses).
ClearCache ==
  /\ memory' = NoCache
  /\ UNCHANGED <<settings, redis, emb, short>>

\* A key expires (setex), or clear() reaches it.
RedisLoses(k) ==
  /\ k \in DOMAIN redis
  /\ redis' = Lacking(redis, {k})
  /\ UNCHANGED <<settings, memory, emb, short>>

-----------------------------------------------------------------------------
(* embed_batch(). *)

\* The numbers of a set, in order.
Ascending(S) ==
  [j \in 1..Cardinality(S) |-> CHOOSE i \in S : Cardinality({x \in S : x < i}) = j - 1]

\* Positions of the texts the cache did not have.
Missing(found) == Ascending({i \in DOMAIN found : found[i] = None})

\* Seeded fault: the new vectors are filled in from the first position on.
FilledFromTheFirst(found, got) ==
  [i \in DOMAIN found |-> IF i \in DOMAIN got THEN got[i] ELSE found[i]]

\* zip(uncached_indices, batch_embeddings)
Filled(found, got) ==
  LET missing == Missing(found) IN
  [i \in DOMAIN found |->
    IF \E j \in DOMAIN missing \cap DOMAIN got : missing[j] = i
    THEN got[CHOOSE j \in DOMAIN missing : missing[j] = i] ELSE found[i]]

\* [emb for emb in embeddings if emb is not None]
Present(vectors) ==
  LET kept == Ascending({i \in DOMAIN vectors : vectors[i] # None})
  IN  [j \in DOMAIN kept |-> vectors[kept[j]]]

Asked(e) ==
  LET missing == Missing(e.found) IN [j \in DOMAIN missing |-> e.texts[missing[j]]]

\* Seeded fault: the answers are cached under the first texts of the batch.
CacheableFromTheFirst(e) == e.texts

\* The texts that set_batch() gets with the answers.
Cacheable(e) == Asked(e)

StartEmbed(c, texts) ==
  emb' = [emb EXCEPT ![c] = [phase |-> "lookup", found |-> <<>>,
                             texts |-> [i \in DOMAIN texts |-> Norm(texts[i])]]]

\* One look-up of get_batch(); a batch without misses is finished.
Found(c, v) ==
  LET e == [emb[c] EXCEPT !.found = Append(@, v)] IN
  emb' = [emb EXCEPT ![c] =
    IF Len(e.found) < Len(e.texts) THEN e
    ELSE IF Missing(e.found) = <<>> THEN [phase |-> "embedded", vectors |-> e.found]
    ELSE [phase |-> "calling", texts |-> e.texts, found |-> e.found,
          got |-> <<>>, sent |-> 0]]

NextKey(c) == KeyOf(emb[c].texts[Len(emb[c].found) + 1])

Lookup(c) ==
  /\ emb[c].phase = "lookup"
  /\ Found(c, Cached(NextKey(c)))
  /\ UNCHANGED <<settings, redis, memory, short>>

\* An error of Redis is logged and swallowed.
LookupWithoutRedis(c) ==
  /\ emb[c].phase = "lookup"
  /\ NextKey(c) \in DOMAIN redis
  /\ Found(c, Remembered(NextKey(c)))
  /\ UNCHANGED <<settings, redis, memory, short>>

\* The texts of the next request.
Request(e) ==
  LET asked == Asked(e)
      end == e.sent + EmbedBatch
  IN  SubSeq(asked, e.sent + 1, IF end < Len(asked) THEN end ELSE Len(asked))

\* The provider answers with the vectors of some of the texts, in order;
\* `batch_embeddings.extend(batch_result)`.
Answer(c, kept) ==
  LET e == emb[c]
      texts == Request(e)
      at == Ascending(kept)
      got == e.got \o [i \in DOMAIN at |-> VectorOf(texts[at[i]])]
  IN  emb' = [emb EXCEPT ![c] =
        IF e.sent + Len(texts) < Len(Asked(e))
        THEN [e EXCEPT !.got = got, !.sent = @ + Len(texts)]
        ELSE [phase |-> "caching", texts |-> Cacheable(e), got |-> got, stored |-> 0,
              vectors |-> Present(Filled(e.found, got))]]

ProviderAnswers(c) ==
  /\ emb[c].phase = "calling"
  /\ Answer(c, DOMAIN Request(emb[c]))
  /\ UNCHANGED <<settings, redis, memory, short>>

ProviderAnswersShort(c) ==
  /\ emb[c].phase = "calling"
  /\ \E kept \in SUBSET DOMAIN Request(emb[c]) \ {DOMAIN Request(emb[c])} : Answer(c, kept)
  /\ short' = TRUE
  /\ UNCHANGED <<settings, redis, memory>>

ProviderFails(c) ==
  /\ emb[c].phase = "calling"
  /\ emb' = [emb EXCEPT ![c] = [phase |-> "failed"]]
  /\ UNCHANGED <<settings, redis, memory, short>>

\* set_batch(): zip(texts, embeddings), one after the other; set() writes the
\* memory even when Redis fails.
Caching(c) == emb[c].phase = "caching" /\ emb[c].stored < Len(emb[c].got)

CacheTo(c) ==
  LET next == emb[c].stored + 1 IN
  /\ emb' = [emb EXCEPT ![c].stored = next]
  /\ memory' = Put(memory, KeyOf(emb[c].texts[next]), emb[c].got[next])

CacheNext(c) ==
  /\ Caching(c)
  /\ CacheTo(c)
  /\ redis' = Put(redis, KeyOf(emb[c].texts[emb[c].stored + 1]), emb[c].got[emb[c].stored + 1])
  /\ UNCHANGED <<settings, short>>

CacheNextWithoutRedis(c) ==
  /\ Caching(c)
  /\ CacheTo(c)
  /\ UNCHANGED <<settings, redis, short>>

CachingEnds(c) ==
  /\ emb[c].phase = "caching" /\ ~Caching(c)
  /\ emb' = [emb EXCEPT ![c] = [phase |-> "embedded", vectors |-> emb[c].vectors]]
  /\ UNCHANGED <<settings, redis, memory, short>>

EmbedSteps(c) == Lookup(c) \/ ProviderAnswers(c) \/ CacheNext(c) \/ CachingEnds(c)

EmbedFaults(c) ==
  \/ LookupWithoutRedis(c)
  \/ ProviderAnswersShort(c) \/ ProviderFails(c)
  \/ CacheNextWithoutRedis(c)

CacheSteps ==
  \/ \E k \in DOMAIN memory \cup DOMAIN redis : Invalidate(k[2])
  \/ ClearCache
  \/ \E k \in DOMAIN redis : RedisLoses(k)

\* The process starts again, perhaps with another configuration.
RestartEmbeddings(s) ==
  /\ settings' = s
  /\ memory' = NoCache
  /\ emb' = [c \in Callers |-> EmbIdle]
  /\ UNCHANGED <<redis, short>>

-----------------------------------------------------------------------------
(* Vectors are cached under the text they were made of, and by the provider *)
(* of the key, as long as every provider answers with one vector per text   *)
(* (embed_batch() pairs answers and texts by position alone): no mixture of *)
(* hits and misses, no restart with another provider moves a vector.        *)
CachedUnderItsText ==
  ~short => \A cache \in {redis, memory} : \A k \in DOMAIN cache :
              cache[k].of = k[2] /\ cache[k].by = k[1]
=============================================================================

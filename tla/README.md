# A verification development for Basira

Basira is a FastAPI service in which a supervisor graph of LLM agents answers
questions of a retail business in Arabic. It runs as one asyncio process over
Redis, Qdrant, PostgreSQL, Odoo (XML-RPC) and an LLM service. This directory
holds TLA+ models of its concurrent and stateful parts, TLC runs that check them
on small instances, and proofs, checked by TLAPS, that hold for every value of
the parameters.

All paths below are relative to the root of the repository; `src/...` is the
Python package.

## 1. Inventory

### 1.1 How a request travels

`src/api/main.py` builds everything once, in `lifespan()`, and hangs it on
`app.state`. A request passes the middlewares (RBAC, guardrails, rate limiting,
authentication, in this order: the last one added is the outermost), then a
route. `POST /chat` takes a session from the session store, runs the supervisor
graph, in which one LLM call chooses an agent and another writes the answer, and
adds the query and the answer to the session. Agents call domain services, which
read Odoo or Qdrant. Everything runs on one event loop: code between two
`await`s is atomic, and whatever state is read before an `await` may have changed
after it. That is where most of the hazards of this code lie; the others are
failing commands of Redis, Qdrant and Odoo, cancellation of a request whose
client has gone, expiry by TTL, and limits on sizes.

### 1.2 Components

| component | state it keeps | operations | what makes it correct | status |
|---|---|---|---|---|
| Singleflight (`infrastructure/cache/singleflight.py`) | futures by key | `do` | one computation per key; all callers share its outcome; everybody gets one | modelled |
| Connection pools (`infrastructure/pooling`) | idle connections, `_active`, a lock | `acquire`, `release`, `execute`/`search`/`upsert` | no connection in two hands; capacity neither lost nor exceeded; waits and the lock end | modelled |
| LRU cache (`infrastructure/cache/cache.py`) | ordered dict of values with expiry | `get`, `set`, `delete`, `clear`, `cleanup_expired` | bounded; least recently used goes first; nothing stale is served | modelled |
| Multi-tier cache and decorators (`cache.py`, `decorators.py`) | L1 (LRU) and L2 (Redis) | `get`, `set`, `delete`, `delete_pattern`, `clear`, `warm`, `@cached`, `@cache_invalidate` | staleness only by races or failures, and never longer than the TTLs | modelled |
| Circuit breaker (`infrastructure/resilience`) | state, failure count, time of last failure | `can_execute`, `record_success`, `record_failure` | state and count agree; recovers | modelled |
| Rate limiter (`infrastructure/ratelimit`) | logs, buckets, windows; sorted sets in Redis | `check`, `reset` | limits hold in every window; `retry_after` can be relied on | modelled |
| Redis session store (`infrastructure/session/redis_store.py`) | one JSON value per session in Redis, a dict as fallback | `get_or_create`, `add_message`, `get_history`, `delete` | histories complete and in order | modelled |
| In-memory session store (`infrastructure/session/session_store.py`) | `Session` objects | `get_or_create`, `add_message` | lost only by expiry or eviction of the oldest | modelled |
| Chat route and supervisor graph (`api/routes/chat.py`, `agents/`) | one turn per request | the nodes of the graph | paired histories, honest reports, right count | partly: see 3 |
| Vector store client (`infrastructure/rag/vectorstore.py`) | collections in Qdrant | create, `upsert`, `search`, `delete_by_document`, drop | retries harmless and finite; what is left behind is a beginning of a document; what is gone stays gone | partly: not the filter builder and the read-only calls |
| Embeddings (`infrastructure/embeddings`) | a cache in Redis, one in memory | `embed`, `embed_batch`, invalidate, clear | each text gets its own vector, cached or new | partly: the preprocessing is a parameter |
| Ingestion, chunking (`infrastructure/rag/ingest`, `domain/services/document_service.py`) | none | `ingest_text`, `ingest_file`, `ingest_policies`, `ingest_faqs`, `ingest_document` | chunks cover the text; an acknowledged document is whole | modelled |
| Retrieval, ranking, compression (`advanced_retriever.py`, `hybrid.py`, ...) | a BM25 index and a flag | `retrieve`, `search`, fusion | no document twice; ranked by its own length; the best hit is kept | modelled |
| Odoo client, repositories (`infrastructure/data`) | cached uid | login, `search_read`, the operations of three repositories | retries bounded; no call without a login | partly: `search_read` stands for the other calls |
| Domain services and models (`domain`) | none | reports, KPIs, stock, pricing, suppliers, customers | periods and thresholds mean what they say; answers follow their rows | partly: not `create_support_ticket` |
| Advanced analytics (`infrastructure/analytics`) | none | trends, comparison, forecast | the same | modelled |
| Authentication, RBAC, middlewares (`api/middleware`, `infrastructure/rbac`) | tables of roles and paths | `dispatch` | order of the checks, decision per role | modelled |
| Escalation (`infrastructure/escalation`, its routes) | tickets, a counter per request | escalate, look up, resolve, count | tickets keep their identity | modelled |
| Routes for reports, pricing, supply, export, health (`api/routes`) | none | one service each | the status says what happened | modelled |
| Guardrails and PII | ordered rules | `check_input`, `check_output` | - | not modelled: a function of one text, decided by regular expressions; the middleware only stores the engine on the request |
| Collaboration, agent context, conversation memory | histories, a registry | delegate, remember | - | not modelled: built by `main.py`, used by no route |
| Voice pipeline, metrics | counters, bounded deques | record, query | - | not modelled: external services in a row, statistics nothing reads back |
| Other routes, agent tools, prompts, export files, evaluation, dashboard, pilot, POS and channels, audit log, database, wiring | none, or a table | formatting, I/O | - | not modelled: stateless adapters, layout or floating point |

`PROJECT.json` gives the files of each component and, under `hazards`, the
important things that can go wrong, at their lines, with the properties that
would notice.

### 1.3 The hard parts

- *Reading before an `await` and writing after it*: the multi-tier cache fills
  L1 with an L2 answer that may be outdated; the Redis session store reads,
  changes and rewrites a whole history; `chat()` uses a `Session` it took before
  the graph ran.
- *Cancellation*: `except Exception` does not catch `CancelledError`. A
  cancelled leader of a flight, a cancelled creation or release of a connection,
  a cancelled turn leave their state as it is at that point.
- *Failing commands*: Redis errors are swallowed and turned into "not found",
  "not deleted" or "allowed".
- *Limits*: pool size, cache size, `max_sessions`, `max_messages`, rate limits,
  each with eviction, waiting or refusal at the boundary.
- *Threads*: a request to Qdrant runs in a thread of the executor; a task that
  is cancelled or gave up does not stop it, so it may still take effect.
- *Several reads for one answer*: a report asks Odoo two or three times, and the
  tables change in between; two calls share one login.
- *Time*: TTLs, recovery timeouts, windows and buckets, clocks read before a
  command that is executed in another order, bare dates that mean midnights.

## 2. Plan

The order is by how much other code rests on a part and how hard it is to test.

| module | composes | contents | state |
|---|---|---|---|
| `SingleFlight` (+ `CacheProofs`) | | calls that share a computation | done |
| `ConnectionPool` (+ `Proofs`), `Lease` | `Lease` is the abstract specification | pools; refinement checked by TLC and proved | done |
| `LRU`, `LRUCache` (+ `CacheProofs`) | `LRUCache` drives `LRU` | operators on an LRU state; one action per method | done |
| `MultiTierCache` (+ `CacheProofs`) | `LRU` | two tiers and their decorators | done |
| `CircuitBreaker`, `RateLimiter` (+ `AdmissionProofs`) | | closed, open and half open; three algorithms and Redis | done |
| `RedisSessionStore` (+ `Proofs`) | | | done |
| `SessionStore`, `ChatPipeline` (+ `Proofs`) | `ChatPipeline` drives `SessionStore` | a chat turn from end to end | done |
| `VectorStore`, `Embeddings`, `Chunking`, `Ingestion` (+ `Proofs`) | `Ingestion` drives the other three | retries and batches, caches, chunks, restart | done |
| `Retrieval` (+ `Proofs`) | | expansion, index, fusion, reranking, compression | done |
| `Reports`, `OdooReads` | `OdooReads` runs `Reports` | what the services ask and compute; login, retries, outages | done |
| `Access`, `Escalations`, `Operations` (+ `Proofs`) | `Operations` composes them with `OdooReads` | middlewares, tickets, routes | done |
| `Voice`, `Collaboration`, `Memory` | | counters and histories | left: nothing depends on them |

`Lease` is the abstract specification of the pool, and the pool is shown to
implement it by TLC and by proof. For `Ingestion` the promise is not a module but
a relation between a document and its points (`DocumentsAreWhole`): a collection
of whole documents is what the client implements only without failures, and what
failures leave is stated instead.

Runs are few and composite, one per question.

## 3. The models and the code

Each module's comments name the lines it translates, and the `map` of
`PROJECT.json` does so for every definition. In all of them a step is the code
between two `await`s; a caller that awaits something is a record or a program
counter that says what it waits for and what it remembers.

**SingleFlight.** `inFlight` is `_in_flight`, `future` the states of the futures
created, `stage`, `ckey`, `flight` the callers. `do()` is `Join` (the key is
taken: wait), or `Lead` (store a new future, run `fn`). The leader leaves by
`FnReturns`, `FnRaises` or `CancelLeader`; a waiter by `Wake` or
`CancelWaiter`, which cancels the shared future, since asyncio cancels what a
task awaits directly. `outcomes`, `disturbed`, `deserted` are history.

**ConnectionPool.** `pool`, `active`, `lock` are the fields; `acquire()` is
`AcquireExisting`, `AcquireNew` with `CreateReturns`/`CreateFails` (the lock stays
held across the creation) or `AcquireWhenFull`, which begins the polling loop
`SleepOn`, `PollFinds`, `PollFindsNothing`, `TimeOut`. Clients give connections
back in a `finally`, which is `Release`, or `CancelRelease` when they are
cancelled while they wait for the lock. Connections are slots `1..MaxSize`, in
the order of `_active`. `Lease` is what a client may rely on.

**LRU, LRUCache.** A cache is the sequence of its entries, in the order of the
`OrderedDict`. Each operator (`LruAfterGet`, `LruAfterSet`, ...) is one method;
`LRUCache` has an action for each and lets entries expire at any time.

**MultiTierCache.** `l1` is such a sequence, `l2` the value under each key in
Redis, `db` the version of the source behind a key. A task is in the middle of a
`get_or_set` as `@cached` makes it (L1, L2, compute, L1, L2), of an update of the
source followed by `delete` or `delete_pattern`, or of `clear`. Values are versions, so
that "stale" can be said. Redis answers or fails at every command.

**CircuitBreaker.** The three fields, with the time since the last failure in
place of a clock. `Attempt` is `can_execute()`, in the cases of its branches. A
caller that was let through ends by `RecordSuccess` or `RecordFailure`, as the
service is up or not at that moment, or by `Abandon`. No code in the repository
calls the class yet, so the callers follow its documentation.

**RateLimiter.** `mode` chooses the algorithm of the configuration or Redis.
`CheckMemory` is a whole `check()`; with Redis the clock is read first
(`CheckRedis`), the pipeline runs later (`RedisAnswers`) and may run in another
order than the clocks were read, or fail (`RedisFails`), counted or not. A pipeline
prunes by the clock that its check had read, but its `EXPIRE` runs by the clock of
Redis: `expiry` is the deadline that the last pipeline gave the key, `KeyExpires` drops
the key with its members at that tick, before or after the pipelines of the same tick,
and `lapsed` remembers when. `admitted` has the requests that were let through because
the count allowed it, not those that `increment()` lets through unchecked when Redis
raises. The in-memory state is keyed by the client alone and shared by its paths,
as in the code; in Redis each path has a key.

**RedisSessionStore.** One session and several tasks. `redis` holds the stored
history and whether its `last_active` is within the TTL, `fallback` the address
of the dict that `_fallback` keeps, `heap` the dicts, which tasks share by
reference. `add_message()` is `Get`, an answer (`GetFinds`, `GetFindsNothing`,
`GetFindsExpired` with its own awaited `Drop`) or `GetFails`, then `SetAnswers` or
`SetFails`; `delete()` likewise. `AddLocal` and `DeleteLocal` are the methods while
`_connected` is false.

**SessionStore, ChatPipeline.** `SessionStore` gives the methods of the
in-memory store as operators on a record; `Session` objects have addresses
because `chat()` keeps a reference while the store may drop the entry. A turn is
`Begin` (the handler up to the first await of the graph), `Classify` or, for an
agent that was not built, `RouteMissing`, one `CallTool` per service the agent
asks, and `Answer`, which stores both messages and responds; `Cancel` may come at
any await. A query is the set of tools its words ask for; LLM replies, outcomes
of services, expiry and cancellation are arbitrary. Left out: the text of prompts
and answers, `sources`, the HTTP layer, the history text that the handler builds
and does not use, and whatever happens inside a service.

**VectorStore.** `exists` and `points` are the collection in Qdrant, `task` the
operation of each client: the request it waits for, its attempt, and the batches
still to be sent. Every operation is a `Start...`, then the loop of
`_run_with_retry()`: the request takes effect or not and is answered
(`UpsertAnswered`, `SearchAnswered`, ...), is refused (`Refuse`) or fails (`Fail`),
after which the client waits and sends it again (`Wake`) or raises. A request
whose client was cancelled or gave up moves to `late`, from where it takes effect
at any time (`LateEffect`) or never (`LateLoss`). `fate` is history.

**Embeddings.** `redis` and `memory` are the two places of the cache, `emb` the
batch of each caller. `embed_batch()` is one `Lookup` per text, one request per
batch of missing texts (`ProviderAnswers`, `ProviderAnswersShort`,
`ProviderFails`), one `CacheTo` per new vector, and the filling in by position
(`Filled`, `Present`). A vector is what it was made of: provider, model, text. A
restart empties `memory`, keeps `redis`, and may bring another provider.

**Chunking** has the loops of `chunk_text()` and `chunk_by_paragraphs()` as
operators on sequences of characters, and `Reassembled`, what a reader gets from
the chunks, as their reference.

**Ingestion** composes the three. `job` says what each ingester is doing: a text
or file, FAQs, a directory whose files may fail one by one, or the document
service, which stores vectors of zeros. `Admins` delete documents and drop and
create collections beside it. `Restart` loses what the process had under way.

**Retrieval.** A `retrieve()` is `Start`, `Expand` (if the flag says so; its
searches raise, as in the code), `Semantic`, `Index` and `Hybrid`, `Finish`; each
is the code up to the next await. `MultiQuerySearcher` and `HybridSearcher` are
also used alone (`SearchNext`, `SearchesEnd`). `bm25` is the index with its
documents and lengths, `indexed` the flag that guards it. The queries have one
word, for which BM25 scores compare like fractions of integers (`BM25Score`), as do
sums of reciprocal ranks (`FusionScore`); scores of a cross-encoder are arbitrary. A
stable sort is described by what it does: the place of an element is the number of
those that are ahead of it (`Ranked`), which also says what a comprehension
keeps (`Kept`, where nothing is better than anything).

**Reports** says for every operation of the services, repositories and the
advanced analytics which rows it asks for, one read after another (`Matching`),
how many of them the ERP returns at most (`Limit`, one for each read), what it
computes (`BranchKPIs`, `Alerts`, `Trends`, ...), when the pydantic models refuse the
rows (`Fits`), and when the code refuses an argument: a date that is no date before
anything else (`Undated`), an id that `int()` does not take at the read that needs it
(`Converted`, `Unreadable`). Time is in half days, so that a midnight is told from the
rest of its day.

**OdooReads** runs these operations through the one client. `Attempt` is one
pass of the inner retry: the login, if none is kept, then the read. Since the
client blocks the event loop while it asks, what interleaves are the waits between
attempts. `up` and `good` are the reachability of Odoo and whether it takes the
password; `uid` is the kept login, with `"refused"` for `False`, which the code
takes for one. The tables go through `History` while a call is between its reads;
`since` and `upTo` are the states of the first and of the last read.

**Access** has the tables and the verdict of every middleware, and their order;
**Escalations** the rules, the counter that starts again with every request,
and `app.state.escalation_tickets`; **Operations** the routes: `Rejected`,
`ReadRequest`, `EscalateRequest`, `ResolveRequest`, `LookRequest`, and the status
each makes of an exception.

The model of the chat has the store the handler is written for. As `main.py` wires the
application, `session_store` is always the asynchronous `RedisSessionStore`, and
the handler fails before the graph runs (section 6).

## 4. The runs

| run | instance | what it shows |
|---|---|---|
| `shared_parts` | each part alone: flights of 3 callers on 2 keys with every cancellation; a pool of 3 connections for 4 clients, 2 polls; a breaker of threshold 2 and recovery 2 with 4 callers; a dictionary of 3 keys, 2 values, room for 2, 5 uses | `RegistryIsSound` (a flight that can be joined is unfinished), `OneLeaderPerKey`, `TakenKeyIsLed`, `OutcomeIsShared`; `WaiterReturns`: a waiter whose leader is not cancelled gets an answer. `PoolIsSound` (the creator has the lock), `OneHolderPerConnection`, `SlotsAccounted`; `WaitEnds`, `LockIsFreed`; `LeaseSpec`: the pool implements `Lease`. `StateMatchesCount`, `Recovers`. `DictionaryIsSound` (the order is that of last use, nothing stale is served), `EvictsLeastRecent` |
| `redis_parts` | each part alone: 2 tasks, 2 keys under different prefixes, room for 1 in L1, 2 versions; 2 tasks of one session, 2 messages kept, 3 added | `TiersAreSound`: without races and failures nothing old is kept; `EventuallyCurrent`: in any case the TTLs clear it out. `HistoriesAreSound` (complete without overlap and failure), `HistoryInOrder` always |
| `chat_parts` | each part alone: 4 modes, two paths of limits 2 and 3 in 3 ticks, 6 ticks (token bucket 5; with Redis one path, 4 ticks, 2 pipelines at once); 2 clients, 3 turns, 3 session ids, room for 2 sessions, pricing built, supply chain not | `LimitsHold` (the bound of each algorithm), `RetryAfterIsEnough`. `TurnsAreSound` (messages are paired), `ToolsUsedIsHonest`, `CountIsOfTheSession`, `HistoriesAreKept` (lost only by the limits; what expired stays silent) |
| `rag_ingest` | one task ingests, one deletes and creates; 2 documents of 2 chunks, batches of 1, 2 attempts, 1 late request, 3 disturbances | `DocumentsAreWhole`, `VectorsKeepTheirTexts`, `GoneStaysGone`; `RetriesRunOut`: every answer, error and pause brings an operation nearer to its end |
| `retrieval_ranking` | 2 calls in every configuration, 3 documents, 2 words, 2 changes of the store | `RankingIsSound` (distinct, within limit and filter, by own length, fused in order), `TopHitSurvives`, `BuiltTwiceOnlyByOverlap` |
| `operations` | 2 calls, the first any request or inner call, the second a low-stock check or about tickets; 3 states of the tables, 2 attempts, 1 outage or change of the password | `PeriodsAreCovered`, `StockIsJudgedAlike`, `AnswersFollowTheirRows`, `ServedOnlyIfEntitled`, `AsksAreBounded`; `EveryRequestIsAnswered` |
| `retrieval_expansion` | as `retrieval_ranking`, without changes | violated: `ExpansionFindsDocuments` |
| `operations_daily` | as `operations` | violated: `ReportsAreOfTheirDays` |
| `operations_alerts` | as `operations` | violated: `LowStockIsAlerted` |
| `operations_forbidden` | as `operations` | violated: `ForbiddenIsTold` |
| `operations_tickets` | as `operations` | violated: `TicketsAreKept` |
| `operations_login` | as `operations` | violated: `LoginIsRetried` |

The six violated properties are what the repository says and the code does not do
(section 6).

Three runs check parts that do not touch each other. In `MCShared`, `MCRedis` and
`MCChat` a variable `about` says which part moves; the others stay in one initial state,
so that a run is as large as its parts together, and not their product. Fairness of
a part that does not move is owed nothing: where a fair action is enabled at the
start, which is so of the breaker only, it is assumed for the behaviours about that
part.

Some properties are conjunctions of named parts that belong together
(`RegistryIsSound`, `DocumentsAreWhole`, `PeriodsAreCovered`, ...); each part has
its own statement above its definition. The type invariant of a module, which also holds
its size bounds, is a part of the first of them. Each property of
a passing run has at least one mutant in `PROJECT.json`: a definition of the
model is replaced by one with a plausible mistake (a guard dropped, an
off-by-one, a swapped order), and the run then fails on that property. The
definitions marked "Seeded fault" in the modules are these mistakes.

### 4.1 Bounds

`MaxFlights`, `MaxPolls`, `MaxFailures`, `MaxVersion`, `MaxUses`, `MaxTime`,
`MaxPerTick`, `MaxAdds`, `MaxTurns`, `MaxLate`, `MaxDisturbances`, `MaxFiles`,
`MaxChanges`, `MaxEvents` bound what the code does not; each is tested in a guard
and named in the module. They suffice for what the properties
compare:

- three callers give a flight a leader and two waiters; the second flight of a
  key follows a finished or deserted one;
- one client more than connections makes one wait; two polls separate finding
  nothing from timing out;
- three keys in a cache of two, three sessions in a store of two: one is
  evicted, one stays, and the choice between them matters;
- threshold 2 tells the first failure from the deciding one, four callers leave
  calls out that were let through in an earlier state;
- six ticks are two windows of three, so that a boundary is crossed and what was
  admitted before it has left the window; in five the token bucket fills from
  empty and stands full for two more. With Redis four ticks let two requests run at
  0, a third read its clock at 2, the key expire at 3, and the third and more run
  afterwards. Limits of 2 and 3 are the least that differ and can be exceeded by one;
- three additions to a history of two trim it;
- three turns let two overlap in one session while a third evicts it;
- two batches per document give a half-written one, three disturbances a failed
  attempt, its late request and a deletion or a restart; a text of two chunks that
  overlap, and a FAQ that is the same as one of them after preprocessing, mix
  cached with new vectors;
- three documents, one of them empty, let a merge put two in the wrong order and
  one twice; two changes delete a document that the index keeps and add another;
- orders at noon and at midnight before, on and after the days of a period, with one
  at noon of its last day, reach every boundary; between two states of the tables
  an order changes its branch, a price rises, and sales are added, so that an answer
  mixes two of them; one outage separates two reads of a report. A read costs at most
  `Attempts`^2 + 1 requests; with one event the instance reaches `Attempts`^2,
  the last one needs a second outage.

Symmetry is declared for interchangeable clients and checks in `chat_parts`, which
has no liveness property, and nowhere else.

Deadlock is checked in every run where the model can always go on.
`CHECK_DEADLOCK FALSE` is set where it can stop for good: SingleFlight (waiters of
a deserted flight wait for ever, and `MaxFlights` is used up), LRUCache (`MaxUses`),
RateLimiter (`MaxTime` reached), RedisSessionStore (`MaxAdds`), ChatPipeline (`MaxTurns`), Ingestion (all document
ids and disturbances used), Retrieval and Operations (all calls answered).

### 4.2 Fairness

- `SingleFlight!FlightFairness`: `fn` ends, and the loop resumes ready tasks. The second
  is how asyncio works; the first is an assumption on the caller's function,
  without which no waiter could be promised anything. Cancellation is not fair.
- `ConnectionPool!Fairness`: creating a connection returns or raises, a sleep
  ends, and a task in the queue of `asyncio.Lock`, which is first come first
  served, gets on while the lock stays free. Weak fairness of the poll suffices, and
  nothing forces a client to give its connection back.
- `CircuitBreaker!BreakerFairness`: time passes, callers keep trying; strong fairness of
  answering says that not every admitted call is cancelled. `Recovers`
  further assumes, in the formula, that the service stays up.
- `MultiTierCache!Fairness`: commands are answered or fail, and TTLs run out.
- `Operations!Spec`: weak fairness of each call's own steps. The wait of a retry
  ends, and a request to Odoo returns or raises, since it blocks the process until
  it does. The environment acts only while a call is unanswered and is not fair.

That retries of the vector store end needs no fairness: `RetriesRunOut` is an
action property with a decreasing measure. The other specifications are safety only.

## 5. The proofs

TLAPS checks these for every value of the constants, under the assumptions on
constants named in the modules, which TLC evaluates in every run of the module.
`CacheProofs` extends `MultiTierCache`, `LRUCache` and `SingleFlight`, and
`AdmissionProofs` extends `RateLimiter` and `CircuitBreaker`. Modules that are extended
together have names of their own for what is `Init`, `Next` and `Spec` elsewhere
(`DictSpec`, `FlightSpec`, `BreakerSpec`, `LimiterSpec`, `HistorySpec`).

| theorem | statement |
|---|---|
| `CacheProofs!RegistryHolds`, `AtMostOneLeader`, `RegistryIsLive`, `OutcomesAgree` | `FlightSpec => []RegistryIsSound`, `[]OneLeaderPerKey`, `[]TakenKeyIsLed`, `[]OutcomeIsShared` |
| `CacheProofs!DictionaryHolds`, `EvictsOldest` | `DictSpec => []DictionaryIsSound`, `EvictsLeastRecent` |
| `CacheProofs!TiersHold` | `Spec => []TiersAreSound` of `MultiTierCache` |
| `ConnectionPoolProofs!PoolHolds`, `ExclusiveUse`, `CapacityConserved` | `Spec => []PoolIsSound`, `[]OneHolderPerConnection`, `[]SlotsAccounted` |
| `ConnectionPoolProofs!ImplementsLease` | `Spec => LeaseSpec`: the pool implements `Lease` |
| `AdmissionProofs!ClosedBelowThreshold` | `BreakerSpec => []StateMatchesCount` |
| `AdmissionProofs!LimitsAreHeld`, `RetryAfterSuffices` | `LimiterSpec => []LimitsHold`, if the paths of a client are `Comparable`; `LimiterSpec => []RetryAfterIsEnough` |
| `RedisSessionStoreProofs!HistoriesStayInOrder`, `HistoriesHold` | `HistorySpec => []HistoryInOrder`, `[]HistoriesAreSound` |
| `ChatPipelineProofs!TurnsHold` | `Spec => []TurnsAreSound` |
| `ChatPipelineProofs!ToolsUsedHonest`, `CountsHold`, `HistoriesStay` | `Spec => ToolsUsedIsHonest`, `CountIsOfTheSession`, `HistoriesAreKept`: action properties |
| `IngestionProofs!DeletedForGood` | `Spec => []GoneStaysGone` |
| `IngestionProofs!DocumentsStayWhole`, `VectorsStayWithTexts` | `Spec => []DocumentsAreWhole`, `[]VectorsKeepTheirTexts` |
| `IngestionProofs!RetriesEnd` | `Spec => RetriesRunOut`: an action property |
| `IngestionProofs!ChunksAreWhole` | the chunks of a text give back the whole of it, for every text |
| `RetrievalProofs!OneBuildWithoutOverlap` | `Spec => []BuiltTwiceOnlyByOverlap` |
| `RetrievalProofs!RankingHolds`, `BestHitSurvives` | `Spec => []RankingIsSound`, `[]TopHitSurvives` |
| `OperationsProofs!RequestsAreBounded` | `Spec => []AsksAreBounded` |
| `OperationsProofs!OnlyTheEntitledAreServed` | `Spec => []ServedOnlyIfEntitled` |
| `OperationsProofs!StockIsJudgedSoundly`, `AnswersFollow`, `PeriodsAreCoveredSoundly` | `Spec => []StockIsJudgedAlike`, `[]AnswersFollowTheirRows`, `[]PeriodsAreCovered` |

*SingleFlight.* That two callers never lead the same key is not inductive: one must
know that a leader's flight is the one under its key (`TakenKeyIsLed`) and that a
future is stored under one key only (`FlightsKeepToTheirKey`, which needs that new
futures have numbers not used before). That callers agree on an outcome needs
`OutcomeIsFuture`, which ties what they got to the settled future, and
`CancelledIsDisturbed`, which confines cancelled futures to flights excluded from
the claim. `FlightInv` is their conjunction; there is one lemma per group of actions.

*LRUCache and MultiTierCache.* Both rest on what one operation does to a dictionary that
holds each key once and no more than its size (`Dict`). `Picks(g, c, E)` says that `g`
is such a dictionary made of entries of `c` in their order, and is what a removal of
keys, an expiry or an eviction gives; to put a key at the end is the other half. That
the removal of a set of keys (`LruWithout`, a recursive function over the set) has one
solution is proved by induction over the number of keys. `DictInv` adds to that the
order by last use and that a live entry has the value last stored: the entry that
`popitem` drops is the first, so the one with the oldest use.

That a quiet key has no old version in the tiers is not inductive. The invariant
(`Quiet`) says of a key that is not tainted: a task that reads it and one that updates
it do not overlap; unless some task updates it, it is current in both tiers; and a task
that has committed and gone on has cleared what it has passed (`Cleared`), the first
tier first, then the second, whose keys a bulk invalidation had found. Most steps are
`Local`: of another key they change nothing but by the key's own entry
being carried on or dropped, of the key nothing but what the task was going to do. A
local step keeps `Quiet`; what is left are the commit of an update, which begins the time
when a key may be old, and the clearing of a tier, which ends it.

*ConnectionPool.* `SlotsAccounted` says that `1..active` is split into pooled,
held, in creation and lost. Its step needs that there is at most one creator
(`OneCreator`, from the lock), that clients that hold or create have a slot
(`BusyClientsHaveSlots`), and for the type of the poll counter that waiting clients
have polled (`WaitsArePolled`). With that the partition is carried through each
action, and exclusive use is a part of it.

That the pool implements `Lease` follows from the same invariant: since pooled, held
and lost slots exclude each other, the lease of a slot can be read off them
(`ReadLease`), a slot at which a step changes nothing keeps its lease (`SameLease`),
and every action changes one slot at most, which gives one lemma per abstract move
and one for the steps that stutter.

`TypeOK` and `LockHeldByCreator` are parts of `RegistryIsSound` and `PoolIsSound`, and
so is, for flights, that one which can be joined is unfinished: its leader settles the
future and frees the key in one step, and a waiter can only cancel it.

*CircuitBreaker.* `BreakerTypeOK /\ StateMatchesCount` is inductive: the count reaches the
threshold exactly in the step that opens the circuit, and only a success, which
resets the count, closes it.

*RateLimiter.* A bound on sums over windows of time is not inductive; what is, relates
what was let through to the entry of the algorithm. `SlidingInv`: of the requests since
any instant that is still in the window, the log has all that follow (`Logged`), so that
what is left after pruning is at least their number. `TokenInv`: the requests since any
instant cost at most a full bucket and what has flowed in since, less what is left
(`Paid`). `FixedInv`: no aligned window holds more than the limit, and the current one no
more than was counted (`Fits`, `InWindow`); since two aligned windows cover any other, it
has at most twice the limit. `RedisInv`: a request that was let through is in the
sorted set, unless something at least one window younger is, or the key has expired
since by a window (`Backed`), whatever the order in which the pipelines run; so the
newest window, from the last expiry less a window on, has no more of them than members
(`WithinWindow`); and the key outlives whatever it counts by a window (`NoneSince`),
since a clock that was read is never ahead of the one that the deadline is set by.
`Shape` is their common type, `LimitsInv` the conjunction. The sums are
folds over finite sets of instants: `AddedUpExists` and `AddedUpAgree` show by induction
that the fold has one solution, and `TotalOfBoth`, `TotalGrows` and `SumSplits` are the
rules that follow. `Later`, the pruning, is a recursive function, of which `LaterIsRest`
shows that it cuts off the beginning of an ordered log.

For `retry_after`, `RetryInv` says what a promise rests on: the oldest request of a log
that is no longer than the limit, the level of the bucket and what flows in until then,
the end of the counted window. A denied check on another path leaves it as it is.

`LimitsAreHeld` has a hypothesis, since the code keeps one entry per client for paths
that may be configured differently: paths that share a log or a window agree on its
length (`Comparable`; of a bucket the module assumes it). Nothing is asked of limits,
nor with Redis. All windows in `main.py` are 60 seconds, so the hypothesis holds of the
application; without it the statement is false (section 6). `RetryAfterSuffices` has no
hypothesis: it is the property that says for which paths a promise can be made
(`MayPromise`). A path with a low limit may be denied because of the requests of a path
with a high one, and is then told when the first of them leaves, which is not enough:
in a shared log only a path of the largest limit can rely on what it is told, in a shared
bucket only one of the smallest, in a fixed window every path. The limits in
`main.py` differ (5 to 200, by path and role), so of the application it covers `sliding_window` for the
paths of the largest limit, and for the others as long as a client keeps to one limit.

*RedisSessionStore.* Order needs little: `OrderInv` says of every place where a history
is kept or on its way (Redis, the dicts, what a task has dumped) that it is increasing
and that its messages have been added, so that a new one is greater than all of them.
It holds whatever overlaps, because a lost update loses messages and never moves one.
Completeness (`HistoriesAreSound`) holds only while nothing overlaps and nothing
raises, and its proof must follow the one writer: while `overlap` is false there is one
at most (`OneWriter`), and what it is about to store is the log with its message, cut
to the newest `max_messages` (`StoresTheNext`); the fallback is in use only after a
failure or offline (`FallbackIsForFailures`, `OfflineIsUnused`). Cutting commutes with
appending (`TrimmedIsLast`), which is the lemma that the rest depends on.

*ChatPipeline.* `TurnsArePaired` speaks of stored sessions; the invariant says it of
every address, since a turn may still hold a session that was evicted. `CountsFit`
bounds a history by two messages for each turn that has ended, which keeps
`message_count` in its range: a running turn has added nothing yet. For the count one
also needs that a session keeps its id (`SessionKeepsId`), so that `add_message()`,
which looks the id up again, finds the object that the turn holds or another one, and
never confuses the two; a new session takes an address that is neither stored nor held,
which exists by counting (`FreshIsFree`, from the assumption that there are more
addresses than sessions and clients). `AgentsFollow` ties what an agent has called to
what it has left, and in an agent with a single try to the last call that failed. The
three action properties follow from the invariant and from what one call of
`get_or_create()` or `add_message()` does to a store (`LookedUp`, `Added`): it keeps
what is not expired, but for the oldest entry of a full store.

*Ingestion.* That a deleted document stays away depends on everybody who may write
it. `Tame(d)` says what a step of the store may do to a document: no new writer,
points only from a writer, "gone" only by a deletion that found everything while
nobody wrote (`Clean`). Every step but the start of an upsert is tame for every
document, an upsert for every other one (`UpsertStarts`, for which a batch must hold
points of its own document only, `BatchesAreOwn`); there is one lemma per action of
`VectorStore`. `WrittenOnce(d)` is the strengthening: an id that is unused, or whose
vectors are being made, has no writer and no points; one task at most makes its
vectors; a document that is gone, or about to be, is in use and `Silent`: nobody
writes it or will. A tame step keeps it (`TameKeepsWrittenOnce`). Besides, the proof
needs that operations and jobs have their shapes (`TasksAreSound`, `JobsAreSound`).
`IInv` is the conjunction. The other theorems of the module build on it.

What the loops of `Chunking` compute is proved for every text. Induction over the
numbers is the lemma `Numbers`, which takes a set of numbers that has 0 and the
successor of each of its members. The chunks of `chunk_text()` begin at multiples of a
step, so that those that begin inside the text are an interval (`Interval`), and the
last of them reaches its end (`ChunksAreMany`); by induction, what the first chunks give
without their overlaps is the text up to the end of the last (`ChunksOfText`).
`chunk_by_paragraphs()` is a recursive function over the number of paragraphs, which
exists (`MergingExists`), and one more paragraph loses nothing of it or of what there
was (`ParagraphAdded`). `TextsAssumption` excludes empty paragraphs, since of blank lines
that follow one another the code loses those between two chunks. `FlattenSeq` puts the
chunks together, and `Flattened` says what it gives.

`VectorsKeepTheirTexts` is about points and caches; between them a vector is in the
batch of a caller, in a request, or in one that nobody waits for. `VectorsAreInPlace`
says for each phase of `embed_batch()` that the vector at a position is the one of the
text at that position: that it is so after `Filled` and `Present` is where hits and
misses are told apart (`Ascending` lists the positions of a set in order). `PointsHold`,
`LateHolds` and `TasksHold` say it of the store and its requests, and of an upload that
its batches and the rest are consecutive spans of the document (`UploadGoesOn`), of which
what is stored of an untouched document is all that is before them. `EInv` and
`SInv` are these two groups; a task that makes vectors is not one that stores zeros
(`EmbeddedHold`). `WInv` is all of that with `IInv`.

`DocumentsAreWhole` adds the point of view of the jobs. `JInv` says that an upload
is the last stage of a job, that jobs have no document in common, that a document is
stored when its job has seen the upload return and not before, and what the count of
a directory counts (`Counted`: a set of the documents it has begun, without the one it
is at, that has every one of them that is stored). `TInv` types what is left, with
the number of requests that nobody waits for. `FInv` is `WInv /\ JInv /\ TInv`.

`RetriesRunOut` needs, besides those shapes, that attempts are counted (`Tried`); an answer takes a
batch from those that follow, or goes from the search to the delete, and each error
raises the attempt (`StepOf`).

The assumptions: an attempt, a text or point per batch and a result of a search at
least; finitely many clients, which are the ingesters and the administrators; an overlap
less than the size of a chunk; texts and paragraphs that are not empty; and, of the
bounds, that `MaxLate` and `MaxFiles` are natural numbers.

*Retrieval.* A call that fetches documents for the index found the flag down.
`BuildsAreWatched` says that two of them at a time, or one that goes on after another
has built the index, have set `overlap`; without it the claim about the number of
builds is not inductive.

The other two properties are about answers, and `RankingInv` says what is known of a
call in every phase before it has one (`CallIsSound`): what it found has no document
twice; after the first search of a `retrieve()` the best hit leads what was found, which is
either cut at twice the limit or is all the store had (`SearchedBest`); before the
ranking the best hit leads at least the first of them, as many as the cross-encoder looks
at (`Leads`), unless the index brought documents the store had not. That cut is why
hits of the index, whose scores are of another query, can not pass it: either there are
enough fresh ones before them, or they are of documents that were found already and
nothing is appended (`BestStaysAhead`). Of the index it says that its lengths are those
of its documents as long as it was built once (`IndexIsSound`).

What sorting does is proved once, of `Ranked`: for a strict order whose negation is
transitive the places count up without gap, so that the result has each element
once, in order (`RankedProperties`). Scores that are fractions are such an order
(`FractionsAreOrdered`, with the products named, since the solver does not multiply
variables). Everything a call does to its hits selects some of them, each once
(`Selects`), which keeps ids distinct. Fusion respects both lists because two smaller
positions make a larger sum of reciprocals (`BeforeInBoth`). The assumption
(`Documents`): finitely many documents, which are sequences of words; similarities
that are integers; a limit of one at least.

*Operations.* `AsksAreBounded` needs an account of every request: `asked` is at most
`tries * Attempts + logins`, one more once a login was taken or refused
(`Account`). The product of the two loops of retries is where the solver needs help
(`Products`). `ServedOnlyIfEntitled` is about an answer, and the invariant (`Treated`) about how it
came to be: a request was rejected with the verdict of the middlewares, or passed and
reads, or passed and was answered at once; the rest is what a verdict tells of its
request (`VerdictTells`).

The three properties of the figures follow from one invariant, `FiguresAreSound`:
each read of a call returned what it matches in one of the states that the tables had
between its first and its last read, given the reads before it (`ReadBy`), and a call
that is done made all of them. Nothing is asked of the ERP between two reads; so
`PromotionsKeepTheirSales` is proved from it with a state for the promotions and one
each for the sales and the price of a promotion (`PromotionReads`, `SalesAreKept`,
`PriceIsKept`), which are told apart by their place in the answer: the places of the
promotions and their ids are in the same order (`Ranks`, `OrderIsComplete`). Where a
property compares figures with one state of the tables, it is about calls whose reads
saw one; a read that no limit cut off is then its match (`JudgedReads`), and each figure
becomes a statement about sets of rows. What a bare date compares with is
`BetweenCovers`: all of the days before the last, and nothing outside of the days. That the
tables are keyed is `HistoryAssumption`, and that no limit is above `LargestLimit`,
without which a small difference of large counts could be rounded to no trend, is
`ReportsAssumption`. A quotient is bounded by its remainder (`Quotient`); that the
total of a set of amounts is an integer, which "equal sales show no change" needs, is
proved by induction: `SetInduction` takes the property as a set of sets, for which
well-foundedness of strict inclusion suffices, and `SumsExist` and `SumsAgree` say
that the recursion of the fold has exactly one solution.

Only model-checked, not proved: all liveness (`WaiterReturns`, `WaitEnds`,
`LockIsFreed`, `EventuallyCurrent`, `Recovers`, `EveryRequestIsAnswered`), since it
needs fairness and `ENABLED`. Every other property that a passing run checks is the
statement of a theorem. The library's
induction theorems take an operator that the provers cannot instantiate. Induction over
finite sets (`SetInduction`) and over numbers (`Numbers`) is proved here with a set in
place of the operator, from the well-foundedness of the orders.

## 6. Disagreements between the code and what is said of it

Shown by a run, each by a property that states what is said and is violated:

- *A retrieval with query expansion finds nothing* (`retrieval_expansion`).
  `src/infrastructure/rag/advanced_retriever.py:111` passes a function of `q, lim`,
  and `query_expansion.py:205` calls it with `limit=`; the `TypeError` is caught as
  a failed search. Query expansion is the default.
- *Reports are not of their days* (`operations_daily`). The daily report has no upper
  bound on the date (`src/domain/services/analytics_service.py:40`), so it includes later
  days, against "for the specified date" (`src/api/routes/analytics.py:48`). KPIs compare
  with the midnight of their last day (`analytics_service.py:114`) and miss the rest of
  it, while `docs/API_REFERENCE.md:143` names a month by its first and its last day.
- *Low stock without an alert* (`operations_alerts`).
  `src/domain/services/supply_chain_service.py:131` reads the shelves that hold less than the
  threshold, while low is what has less that is not reserved (`:147`,
  `analytics_service.py:202`): a shelf of 12, 4 of them reserved, is low at 10 and has no
  alert, against "ReplenishmentAlert for low-stock products" (`:126`).
- *A refused request is told 500* (`operations_forbidden`). The 403 of
  `src/api/middleware/rbac.py:62` has a set in its body, which JSON cannot express.
- *Tickets are replaced and cannot be resolved* (`operations_tickets`). The escalation
  routes create a workflow per request (`src/api/routes/escalation.py:49`): all tickets are
  `ESC-000001`, a new one replaces the last, and resolving one fails with 500, against
  "List all escalation tickets" (`:101`) and "Resolve an escalation ticket" (`:139`).
- *A refused login is not tried again* (`operations_login`).
  `OdooClient._authenticate()` keeps `uid = False` (`src/infrastructure/data/odoo_client.py:64`),
  and every later attempt takes it for a login, also when the password is right again,
  against "Uses exponential backoff retry on failure" (`:54`).

Contained in the models, whose properties make an exception for them:

- A cancelled leader leaves its waiters waiting for ever: `except Exception`
  (`src/infrastructure/cache/singleflight.py:86`) does not include
  `CancelledError`; the `finally` frees the key, and the future stays pending.
  `WaiterReturns` is about the other waiters.
- A failed creation costs a slot of the pool: `src/infrastructure/pooling/__init__.py:58`
  counts the connection before it exists. `SlotsAccounted` counts such slots as lost.
- A failed read may wipe a history: `src/infrastructure/session/redis_store.py:91`
  continues with a new session, and the write that follows may succeed.
- Overlapping retrievals build the keyword index twice
  (`advanced_retriever.py:120`), and a second build appends to the lengths of the
  first (`rag/hybrid.py:55`). Deleted documents stay in the index.
- A provider that answers with fewer vectors makes `ingest_text()` drop the last
  chunks silently (`ingest/__init__.py:100`).
- Ranges of the sales repository, trends and forecasts miss their last day but for its
  midnight, like the KPIs; two adjacent periods share the midnight between them.
  `PeriodsAreCovered` says what they have: nothing missing of the days before, and
  nothing of other days.
- The change of a negative total has the wrong sign
  (`src/infrastructure/analytics/advanced.py:88`): more sales than before are a decline. The
  claim about signs is for the number of orders.
- `src/domain/services/supply_chain_service.py:196` builds its answer without
  `return_rate`, which the model requires, against "SupplierPerformance if found" (`:181`):
  500 whenever the supplier has orders. No property speaks of a performance.
- `src/api/routes/export.py:176` formats a growth that is `None`: 500 whenever
  there is a KPI.
- `ge=0` in the models lets one row spoil an answer: a shelf that has promised
  more than it holds fails the low-stock check, negative stock the replenishment,
  and a negative order amount the daily report, as 400 "Invalid date format".
  Dates with a time of day are refused by the models of orders and purchases.
- The 400 that `export.py:56` raises is caught at `:77` and becomes 500.
- RBAC decides before authentication (`main.py:279`; the last middleware added is the
  outermost), from a header that nobody has checked, while `rbac.py:34` says that the user
  is "set by auth middleware" and the comments of `main.py` name the other order;
  the limiting middleware is added without a limiter. `ServedOnlyIfEntitled` holds in
  either order.
- A check of the limiter that is delayed may find that the key has expired, and be let
  through: with a limit of 2 in 3, two requests run at 0, a third reads its clock at 2, the
  key expires at 3, and the third is counted as the first (`src/infrastructure/ratelimit/limiter.py:104`).
  So three requests are dated in the window from 0 to 2. `RedisBound` counts from a
  window before the last expiry.

Found by reading:

- Paths with different windows share one log: `src/infrastructure/ratelimit/limiter.py:252`
  passes only the client as key, so a check of a short window forgets what a longer
  one still needs, and the bound of the sliding window fails. `Comparable` excludes it,
  and the instance has one window; in `main.py` all windows are equal.
- A path with a low limit is denied because of what a path with a high one has put
  into the shared log, and its `retry_after` (`ratelimit/algorithms.py:108`) is the time
  until the oldest entry leaves, after which it is denied again (`MayPromise`).
- `src/api/routes/chat.py:116` calls `get_or_create()` without `await`, while
  `main.py:112` always wires the asynchronous store, whose constructor does not
  raise: every turn fails with 500.
- Cancelling a waiter of a flight cancels the future that the others wait for
  (`singleflight.py:63`); the leader then fails to settle it and raises, though
  `fn` succeeded. `OutcomeIsShared` excludes these flights.
- The breaker lets every caller through while half open (`circuit_breaker.py:66`),
  its enum speaks of one call; a late success closes an open circuit
  before the recovery timeout (`:73`).
- A read that resumes after a `delete` brings the deleted value back into L1
  (`cache.py:373`), against "Delete from both cache tiers." (`:408`);
  `QuietKeysAreCurrent` leaves such keys out. A pattern that is a bare prefix clears
  L2 and not L1 (`:422`, `:427`).
- With Redis failing, the limiter lets everything through and does not fall
  back to memory (`limiter.py:120`); a denied request is counted there, so
  `retry_after` is too short for a client that keeps trying (`:99`);
  `reset(key, path)` clears nothing in memory (`:263`).
- `RedisSessionStore.delete()` leaves the copy in the fallback (`redis_store.py:161`),
  which a later failing read serves again.
- `rag/vectorstore.py:598` drops what a filter says before its `$or`.

## 7. What is not modelled

Statistics and logging, hashing and serialisation, the wording of prompts and
answers, and everything that section 1.2 lists as not modelled. Of the vector store
the filter builder, namespaces and read-only calls are left out; of the Odoo client
`read`, `fields_get` and `execute_kw`, which repeat the scheme of `search_read`; of
the customer service `create_support_ticket`, which stores its object nowhere. Texts
with an overlap as large as the chunk are excluded by an assumption: the loop of
`chunk_text()` never ends on them (`NeverEnds`). Redis, Qdrant, Odoo and the LLM are environments that
answer or fail at each command; a command that fails may have taken effect where
that matters (`SetFails`, `RedisFails`, `DeleteFails`). Calls of Odoo are
synchronous and block the event loop; `OdooReads` takes each as one step and
assumes that it returns, and `ChatPipeline` takes the call of a whole service as
one. There is one process. It restarts in `Ingestion`, where Qdrant and Redis keep
what they have; in the other modules what the process keeps in memory is lost with
it, and what Redis keeps is as the last successful command left it.

One hazard in `PROJECT.json` has no property: the counters of the voice pipeline, which
is not modelled.

## 8. How to run it

    tlasany M.tla
    tlc -workers 2 -config X.cfg MCM.tla
    tlapm MProofs.tla

The names of modules and configurations belong together as `PROJECT.json` lists
them; each run takes less than four minutes.

----------------------------- MODULE VectorStore -----------------------------
(***************************************************************************)
(* src/infrastructure/rag/vectorstore.py: ProductionVectorStore, with the  *)
(* Qdrant collection it talks to.                                          *)
(*                                                                         *)
(* Every request runs in a thread of the executor while its task awaits    *)
(* the answer.  A request whose task was cancelled, or gave up on it with  *)
(* an exception (a time-out), may still reach the collection later: it is  *)
(* then in late.  Namespaces, statistics and logging are left out, and     *)
(* reading requests other than search are left out.                        *)
(***************************************************************************)
EXTENDS Integers, Sequences, FiniteSetsExt

CONSTANTS Clients,      \* tasks that use the store
          Docs,         \* document ids
          MaxAttempts,  \* MAX_RETRY
          BatchSize,    \* UPSERT_BATCH_SIZE
          SearchLimit,  \* the limit of delete_by_document, 10000
          MaxLate       \* bound: requests nobody waits for at a time

\* The tasks of a process are finitely many.
ASSUME ClientsAreFiniteAssumption == IsFiniteSet(Clients)
ASSUME MaxAttemptsAssumption == MaxAttempts \in Nat \ {0}
ASSUME BatchSizeAssumption == BatchSize \in Nat \ {0}
ASSUME SearchLimitAssumption == SearchLimit \in Nat \ {0}
ASSUME MaxLateAssumption == MaxLate \in Nat

VARIABLES exists,   \* the collection exists in Qdrant
          points,   \* its points: ids <<document, index>> mapped to vectors
          task,     \* the operation of each client
          late,     \* requests that nobody waits for and that may take effect
          fate      \* history: what is known of each document (Fates)

storeVars == <<exists, points, task, late, fate>>

\* An upsert of the document returned; a deletion took points of it; one that
\* found all of it, when nothing was writing to it, did.
Fates == {"none", "stored", "touched", "gone"}

Phases == {"idle", "waiting", "pause", "returned", "raised"}
Idle == [op |-> "none", phase |-> "idle"]

PointsOf(d) == {id \in DOMAIN points : id[1] = d}
Empty == [id \in {} |-> id]

(* Requests to Qdrant. *)
Upsert(new)  == [kind |-> "upsert", new |-> new]
Search(d)    == [kind |-> "search", doc |-> d]
\* Seeded fault: the first id of the list is left out.
DeleteRest(ids) == [kind |-> "delete", ids |-> ids \ {CHOOSE id \in ids : TRUE}]
Delete(ids)  == [kind |-> "delete", ids |-> ids]
Create       == [kind |-> "create"]
Drop         == [kind |-> "drop"]

Writes(r, d) ==
  r.kind = "upsert" /\ \E id \in DOMAIN r.new : id[1] = d

StoreInit ==
  /\ exists = TRUE
  /\ points = Empty
  /\ task = [c \in Clients |-> Idle]
  /\ late = {}
  /\ fate = [d \in Docs |-> "none"]

-----------------------------------------------------------------------------
(* What Qdrant does with a request. *)

\* Create is refused when the collection exists, the others when it does not.
Accepted(r) ==
  CASE r.kind = "create" -> ~exists
    [] r.kind = "drop" -> TRUE
    [] OTHER -> exists

Merged(new) == [id \in DOMAIN points \cup DOMAIN new |->
                 IF id \in DOMAIN new THEN new[id] ELSE points[id]]

\* Points are taken away.
Lose(ids) ==
  /\ points' = [id \in DOMAIN points \ ids |-> points[id]]
  /\ fate' = [d \in Docs |->
       IF fate[d] # "gone" /\ \E id \in ids \cap DOMAIN points : id[1] = d
       THEN "touched" ELSE fate[d]]

\* Searches have none.
Effect(r) ==
  \/ /\ r.kind = "upsert"
     /\ points' = Merged(r.new)
     /\ UNCHANGED <<exists, fate>>
  \/ /\ r.kind = "delete"
     /\ Lose(r.ids)
     /\ UNCHANGED exists
  \/ /\ r.kind = "create"
     /\ exists' = TRUE
     /\ UNCHANGED <<points, fate>>
  \/ /\ r.kind = "drop"
     /\ exists' = FALSE
     /\ Lose(DOMAIN points)

-----------------------------------------------------------------------------
(* _run_with_retry(): a request is sent, and sent again after a pause,      *)
(* MaxAttempts times at most.                                              *)

Busy(c) == task[c].phase \in {"waiting", "pause"}
Free(c) == ~Busy(c)

Sending(op, r, doc, rest) ==
  [op |-> op, phase |-> "waiting", attempt |-> 1, req |-> r, doc |-> doc,
   rest |-> rest, clean |-> FALSE]

\* Only the outcome of an upsert is looked at by its caller.
Ended(c, phase) ==
  [task EXCEPT ![c] = IF @.op = "upsert" THEN [op |-> @.op, phase |-> phase] ELSE Idle]

\* Seeded fault: attempts are not counted.
SentForEver(c) == [task EXCEPT ![c].phase = "pause"]

\* The request of each attempt is the same.
SentAgain(c) == [task EXCEPT ![c].phase = "pause", ![c].attempt = @ + 1]

\* Seeded fault: one attempt too many.
LastAttemptLate(c) == task[c].attempt > MaxAttempts
LastAttempt(c) == task[c].attempt = MaxAttempts

\* create_collection() answers False when the last error says that the
\* collection exists; every other error is raised.
AfterError(c, existed) ==
  IF ~LastAttempt(c) THEN SentAgain(c)
  ELSE Ended(c, IF existed THEN "returned" ELSE "raised")

Unheeded(r) ==
  \/ late' = late
  \/ r.kind # "search" /\ Cardinality(late) < MaxLate /\ late' = late \cup {r}

\* Qdrant answers with an error.
Refuse(c) ==
  /\ task[c].phase = "waiting"
  /\ ~Accepted(task[c].req)
  /\ task' = AfterError(c, task[c].req.kind = "create")
  /\ UNCHANGED <<exists, points, late, fate>>

\* The connection breaks or times out; the request may have left.
Fail(c) ==
  /\ task[c].phase = "waiting"
  /\ task' = AfterError(c, FALSE)
  /\ Unheeded(task[c].req)
  /\ UNCHANGED <<exists, points, fate>>

\* asyncio.sleep() between attempts or batches is over.
Wake(c) ==
  /\ task[c].phase = "pause"
  /\ task' = [task EXCEPT ![c].phase = "waiting"]
  /\ UNCHANGED <<exists, points, late, fate>>

\* The task is cancelled: the thread goes on, the pause does not.
CancelOperation(c) ==
  /\ Busy(c)
  /\ task' = [task EXCEPT ![c] = Idle]
  /\ IF task[c].phase = "waiting" THEN Unheeded(task[c].req) ELSE UNCHANGED late
  /\ UNCHANGED <<exists, points, fate>>

\* The process ends; requests that were sent may still arrive.
RestartStore ==
  /\ task' = [c \in Clients |-> Idle]
  /\ LET sent == {task[c].req : c \in {x \in Clients : task[x].phase = "waiting"}}
     IN  \E some \in SUBSET {r \in sent : r.kind # "search"} :
           /\ Cardinality(late \cup some) <= MaxLate
           /\ late' = late \cup some
  /\ UNCHANGED <<exists, points, fate>>

LateEffect(r) ==
  /\ r \in late
  /\ late' = late \ {r}
  /\ IF Accepted(r) THEN Effect(r) ELSE UNCHANGED <<exists, points, fate>>
  /\ UNCHANGED task

LateLoss(r) ==
  /\ r \in late
  /\ late' = late \ {r}
  /\ UNCHANGED <<exists, points, task, fate>>

-----------------------------------------------------------------------------
(* upsert() in batches, delete_by_document() as a search and a delete,     *)
(* create_collection() and delete_collection().                            *)

\* Seeded fault: the next batch starts one point too far.
BatchesWithGap(new, ids) ==
  [b \in 1..((Len(ids) + BatchSize) \div (BatchSize + 1)) |->
    LET at == {ids[i] : i \in {j \in DOMAIN ids :
                 (j - 1) \div (BatchSize + 1) = b - 1 /\ (j - 1) % (BatchSize + 1) < BatchSize}}
    IN  [id \in at |-> new[id]]]

\* The points, in the order of the list, BatchSize at a time.
Batches(new, ids) ==
  [b \in 1..((Len(ids) + BatchSize - 1) \div BatchSize) |->
    LET at == {ids[i] : i \in {j \in DOMAIN ids : (j - 1) \div BatchSize = b - 1}}
    IN  [id \in at |-> new[id]]]

\* No points make one request, without points.
StartUpsert(c, d, new, ids) ==
  /\ Free(c)
  /\ LET batches == IF ids = <<>> THEN <<Empty>> ELSE Batches(new, ids)
     IN  task' = [task EXCEPT ![c] =
                   Sending("upsert", Upsert(Head(batches)), d, Tail(batches))]
  /\ UNCHANGED <<exists, points, late, fate>>

StartDelete(c, d) ==
  /\ Free(c)
  /\ task' = [task EXCEPT ![c] = Sending("delete", Search(d), d, <<>>)]
  /\ UNCHANGED <<exists, points, late, fate>>

StartCreate(c) ==
  /\ Free(c)
  /\ task' = [task EXCEPT ![c] = Sending("create", Create, "none", <<>>)]
  /\ UNCHANGED <<exists, points, late, fate>>

StartDrop(c) ==
  /\ Free(c)
  /\ task' = [task EXCEPT ![c] = Sending("drop", Drop, "none", <<>>)]
  /\ UNCHANGED <<exists, points, late, fate>>

\* Nobody is writing points of d, and no request that would is on its way.
Quiet(d) ==
  /\ \A r \in late : ~Writes(r, d)
  /\ \A c \in Clients : Busy(c) /\ task[c].op = "upsert" => task[c].doc # d

\* A batch is stored: the next one follows after a pause.
UpsertAnswered(c) ==
  /\ task[c].phase = "waiting" /\ task[c].op = "upsert"
  /\ exists
  /\ points' = Merged(task[c].req.new)
  /\ LET t == task[c] IN
     IF t.rest # <<>>
     THEN /\ task' = [task EXCEPT ![c].phase = "pause", ![c].attempt = 1,
                                  ![c].req = Upsert(Head(t.rest)), ![c].rest = Tail(t.rest)]
          /\ UNCHANGED fate
     ELSE /\ task' = Ended(c, "returned")
          /\ fate' = [fate EXCEPT ![t.doc] = IF @ = "none" THEN "stored" ELSE @]
  /\ UNCHANGED <<exists, late>>

\* The search of delete_by_document(): up to SearchLimit ids, in any order.
SearchAnswered(c) ==
  /\ task[c].phase = "waiting" /\ task[c].req.kind = "search"
  /\ exists
  /\ LET all == PointsOf(task[c].doc) IN
     \E ids \in kSubset(IF Cardinality(all) < SearchLimit THEN Cardinality(all)
                        ELSE SearchLimit, all) :
       task' = IF ids = {} THEN Ended(c, "returned")
               ELSE [task EXCEPT ![c].req = Delete(ids), ![c].attempt = 1,
                                 ![c].clean = (ids = all /\ Quiet(task[c].doc))]
  /\ UNCHANGED <<exists, points, late, fate>>

DeleteAnswered(c) ==
  /\ task[c].phase = "waiting" /\ task[c].req.kind = "delete"
  /\ exists
  /\ points' = [id \in DOMAIN points \ task[c].req.ids |-> points[id]]
  /\ fate' = [fate EXCEPT ![task[c].doc] =
                IF task[c].clean \/ @ = "gone" THEN "gone" ELSE "touched"]
  /\ task' = Ended(c, "returned")
  /\ UNCHANGED <<exists, late>>

CollectionAnswered(c) ==
  /\ task[c].phase = "waiting" /\ task[c].op \in {"create", "drop"}
  /\ Accepted(task[c].req)
  /\ Effect(task[c].req)
  /\ task' = Ended(c, "returned")
  /\ UNCHANGED late

\* What an operation that is not over may still take: requests, attempts of
\* each, and pauses between them.
Remaining(t) ==
  LET requests == Len(t.rest) + (IF t.req.kind = "search" THEN 1 ELSE 0) IN
  2 * (MaxAttempts + 1) * requests + 2 * (MaxAttempts - t.attempt)
    + (IF t.phase = "pause" THEN 1 ELSE 0)

Progress(c) ==
  \/ Refuse(c) \/ Wake(c)
  \/ UpsertAnswered(c) \/ SearchAnswered(c) \/ DeleteAnswered(c) \/ CollectionAnswered(c)

LateSteps == \E r \in late : LateEffect(r) \/ LateLoss(r)
=============================================================================

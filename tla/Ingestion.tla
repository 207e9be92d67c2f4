----------------------------- MODULE Ingestion -----------------------------
(***************************************************************************)
(* src/infrastructure/rag/ingest/__init__.py (ingest_text, ingest_file,    *)
(* ingest_policies, ingest_faqs) and DocumentService.ingest_document():    *)
(* a text is chunked, its chunks are embedded, the points are stored, and  *)
(* the id of the document is returned.  Composes Chunking, Embeddings and  *)
(* VectorStore; a client that only administers the store deletes documents *)
(* and collections.                                                        *)
(*                                                                         *)
(* Sizes with overlap < size only: with others the loop of chunk_text()    *)
(* never ends and nothing else in the process runs (Chunking!NeverEnds).   *)
(***************************************************************************)
EXTENDS VectorStore, Embeddings, Chunking

CONSTANTS Ingesters,  \* clients that ingest
          Admins,     \* clients that delete and create
          Texts,      \* documents, sequences of characters
          Faqs,       \* lists of entries of one or more FAQs (paragraphs)
          ChunkSize, Overlap,
          MaxFiles,   \* bound: files of a directory of policies
          FirstSettings,    \* configuration before any restart
          MaxDisturbances   \* bound: errors, cancellations, losses, restarts,
                            \* and operations of administrators, in all

ASSUME ClientsAssumption == Clients = Ingesters \cup Admins /\ Callers = Ingesters
ASSUME SizesAssumption == Overlap \in Nat /\ ChunkSize \in Nat /\ Overlap < ChunkSize
ASSUME MaxFilesAssumption == MaxFiles \in Nat
\* Something was written, and no paragraph is empty: of blank lines that follow
\* one another chunk_by_paragraphs() loses those between two chunks.
IsText(text) == text \in Seq(Range(text)) \ {<<>>}
ASSUME TextsAssumption ==
  /\ \A text \in Texts : IsText(text)
  /\ \A faqs \in Faqs : IsText(faqs) /\ \A paragraph \in Range(faqs) : IsText(paragraph)

VARIABLES job,      \* what each ingester is doing
          sources,  \* history: the method and the text of each document id used
          disturbances  \* so far

vars == <<storeVars, embVars, job, sources, disturbances>>

NoJob == [kind |-> "none"]
NoDoc == "no document"
\* It is the id of no document.
ASSUME DocsAssumption == NoDoc \notin Docs
Active(c) == job[c] # NoJob

\* uuid4() makes a new document id; which one does not matter.
Unused == Docs \ DOMAIN sources
Fresh == CHOOSE d \in Unused : TRUE

ChunksOf(kind, text) ==
  IF kind = "faqs" THEN ChunkByParagraphs(text, ChunkSize)
  ELSE ChunkText(text, ChunkSize, Overlap)

Whole(kind, chunks) ==
  IF kind = "faqs" THEN Joined(chunks) ELSE Reassembled(chunks, Overlap)

Original(kind, text) == IF kind = "faqs" THEN Joined(text) ELSE text

Init ==
  /\ StoreInit
  /\ EmbInit /\ settings = FirstSettings
  /\ job = [c \in Ingesters |-> NoJob]
  /\ sources = [d \in {} |-> d]
  /\ disturbances = 0

-----------------------------------------------------------------------------
(* Points. *)

Zero == [of |-> <<"zeros">>]

\* Seeded fault: the chunks are numbered from 1.
PairedFromOne(d, chunks, vectors) ==
  LET n == Cardinality(DOMAIN chunks \cap DOMAIN vectors)
      ids == [i \in 1..n |-> <<d, i>>]
  IN  [ids |-> ids,
       new |-> [id \in {ids[i] : i \in 1..n} |->
                 [content |-> chunks[id[2]], vector |-> vectors[id[2]]]]]

\* zip(chunks, embeddings): as many points as the shorter of the two.
Paired(d, chunks, vectors) ==
  LET n == Cardinality(DOMAIN chunks \cap DOMAIN vectors)
      ids == [i \in 1..n |-> <<d, i - 1>>]
  IN  [ids |-> ids,
       new |-> [id \in {ids[i] : i \in 1..n} |->
                 [content |-> chunks[id[2] + 1], vector |-> vectors[id[2] + 1]]]]

-----------------------------------------------------------------------------
(* Jobs: one document, or a directory of files, one document after the     *)
(* other.  Document ids are fresh (uuid4).                                 *)

StartDirectory(c) ==
  /\ ~Active(c)
  /\ \E n \in 1..MaxFiles : \E files \in [1..n -> Texts \cup {<<>>}] :
       /\ n <= Cardinality(Unused)
       /\ job' = [job EXCEPT ![c] = [kind |-> "policies", doc |-> NoDoc, left |-> files,
                                     count |-> 0, docs |-> {}]]
  /\ UNCHANGED <<storeVars, embVars, sources, disturbances>>

\* A document that is to be embedded.
Embed(c, d, kind, text) ==
  /\ Unused # {} /\ d = Fresh
  /\ sources' = [x \in DOMAIN sources \cup {d} |->
                  IF x = d THEN [kind |-> kind, text |-> text] ELSE sources[x]]
  /\ StartEmbed(c, ChunksOf(kind, text))
  /\ UNCHANGED <<settings, redis, memory, short>>

\* ingest_text(), ingest_file() and ingest_faqs(); without text they fail
\* before anything happens.
StartText(c) ==
  /\ ~Active(c)
  /\ \E d \in Docs, kind \in {"text", "faqs"} :
       \E text \in IF kind = "faqs" THEN Faqs ELSE Texts :
         /\ Embed(c, d, kind, text)
         /\ job' = [job EXCEPT ![c] = [kind |-> kind, doc |-> d]]
  /\ UNCHANGED <<storeVars, disturbances>>

\* ingest_document(): nothing is embedded, every vector is all zeros; the
\* text may be empty.
StartDocument(c) ==
  /\ ~Active(c)
  /\ Unused # {} /\ \E d \in {Fresh}, text \in Texts \cup {<<>>} :
       /\ sources' = [x \in DOMAIN sources \cup {d} |->
                       IF x = d THEN [kind |-> "document", text |-> text] ELSE sources[x]]
       /\ job' = [job EXCEPT ![c] = [kind |-> "document", doc |-> d]]
       /\ LET chunks == ChunksOf("document", text)
              p == Paired(d, chunks, [i \in DOMAIN chunks |-> Zero])
          IN  StartUpsert(c, d, p.new, p.ids)
  /\ UNCHANGED <<embVars, disturbances>>

\* The next file of ingest_policies(); one that has no text is skipped.
NextFile(c) ==
  /\ job[c].kind = "policies" /\ job[c].doc = NoDoc /\ job[c].left # <<>>
  /\ LET text == Head(job[c].left)
         j == [job[c] EXCEPT !.left = Tail(@)]
     IN  \/ /\ text = <<>>
            /\ job' = [job EXCEPT ![c] = j]
            /\ UNCHANGED <<embVars, sources>>
         \/ /\ text # <<>>
            /\ \E d \in Docs :
                 /\ Embed(c, d, "text", text)
                 /\ job' = [job EXCEPT ![c] = [j EXCEPT !.doc = d, !.docs = @ \cup {d}]]
  /\ UNCHANGED <<storeVars, disturbances>>

DirectoryEnds(c) ==
  /\ job[c].kind = "policies" /\ job[c].doc = NoDoc /\ job[c].left = <<>>
  /\ job' = [job EXCEPT ![c] = NoJob]
  /\ UNCHANGED <<storeVars, embVars, sources, disturbances>>

\* The vectors are there: the points are built and stored.
StorePoints(c) ==
  /\ c \in Ingesters /\ emb[c].phase = "embedded"
  /\ LET d == job[c].doc
         p == Paired(d, ChunksOf(sources[d].kind, sources[d].text), emb[c].vectors)
     IN  StartUpsert(c, d, p.new, p.ids)
  /\ emb' = [emb EXCEPT ![c] = EmbIdle]
  /\ UNCHANGED <<settings, redis, memory, short, job, sources, disturbances>>

\* Seeded fault: a file that failed is counted like the others.
CountAlways(count, ok) == count + 1

\* `count += 1` follows the ingestion inside the try.
Count(count, ok) == IF ok THEN count + 1 ELSE count

\* The document is stored, or the provider or the store raised: a directory
\* goes on with its next file, the others end.
DocumentEnds(c) ==
  /\ Active(c) /\ job[c].doc # NoDoc
  /\ \/ emb[c].phase = "failed"
     \/ emb[c].phase = "idle" /\ task[c].phase \in {"returned", "raised"}
  /\ LET j == job[c]
         count == Count(j.count, emb[c].phase = "idle" /\ task[c].phase = "returned")
     IN  job' = [job EXCEPT ![c] = IF j.kind = "policies"
                                   THEN [j EXCEPT !.doc = NoDoc, !.count = count]
                                   ELSE NoJob]
  /\ emb' = [emb EXCEPT ![c] = EmbIdle]
  /\ task' = [task EXCEPT ![c] = Idle]
  /\ UNCHANGED <<exists, points, late, fate, settings, redis, memory, short, sources, disturbances>>

-----------------------------------------------------------------------------
(* Faults: errors of Redis, of the provider and of Qdrant, short answers,  *)
(* keys that expire or are cleared, cancellations, crash and restart.      *)

CancelJob(c) ==
  /\ Active(c)
  /\ job' = [job EXCEPT ![c] = NoJob]
  /\ emb' = [emb EXCEPT ![c] = EmbIdle]
  /\ \/ Busy(c) /\ CancelOperation(c)
     \/ ~Busy(c) /\ UNCHANGED storeVars
  /\ UNCHANGED <<settings, redis, memory, short, sources>>

Restart ==
  /\ \E s \in Settings : RestartEmbeddings(s)
  /\ RestartStore
  /\ job' = [c \in Ingesters |-> NoJob]
  /\ UNCHANGED <<sources>>

Disturb ==
  /\ disturbances < MaxDisturbances
  /\ disturbances' = disturbances + 1

Fault ==
  /\ Disturb
  /\ \/ \E c \in Clients : Fail(c) /\ UNCHANGED <<embVars, job, sources>>
     \/ \E c \in Ingesters : EmbedFaults(c) /\ UNCHANGED <<storeVars, job, sources>>
     \/ CacheSteps /\ UNCHANGED <<storeVars, job, sources>>
     \/ \E c \in Ingesters : CancelJob(c)
     \/ \E c \in Admins : CancelOperation(c) /\ UNCHANGED <<embVars, job, sources>>
     \/ Restart

-----------------------------------------------------------------------------
\* A client that only administers the store: delete_by_document() of an id
\* that search results or an answer have shown, and the collections.
Administer(c) ==
  /\ Disturb
  /\ \/ \E d \in DOMAIN sources : StartDelete(c, d)
     \/ StartCreate(c)
     \/ StartDrop(c)
  /\ UNCHANGED <<embVars, job, sources>>

EmbStep(c) == EmbedSteps(c) /\ UNCHANGED <<storeVars, job, sources, disturbances>>
StoreStep(c) == Progress(c) /\ UNCHANGED <<embVars, job, sources, disturbances>>

JobStep(c) ==
  \/ EmbStep(c) \/ StoreStep(c)
  \/ StorePoints(c) \/ DocumentEnds(c) \/ NextFile(c) \/ DirectoryEnds(c)

Next ==
  \/ \E c \in Ingesters : StartText(c) \/ StartDocument(c) \/ StartDirectory(c) \/ JobStep(c)
  \/ \E c \in Admins : Administer(c) \/ StoreStep(c)
  \/ LateSteps /\ UNCHANGED <<embVars, job, sources, disturbances>>
  \/ Fault

Spec == Init /\ [][Next]_vars

-----------------------------------------------------------------------------
(* What is checked. *)

TypeOK ==
  /\ exists \in BOOLEAN
  /\ DOMAIN points \subseteq Docs \X Nat
  /\ \A c \in Clients : task[c].phase \in Phases
  /\ \A c \in Clients : task[c].phase \in {"waiting", "pause"} =>
       task[c].attempt \in 1..MaxAttempts
  /\ Cardinality(late) <= MaxLate
  /\ fate \in [Docs -> Fates]
  /\ short \in BOOLEAN
  /\ DOMAIN sources \subseteq Docs

StoredChunks(d) == Cardinality(PointsOf(d))

\* Batches reach the collection in order, whatever fails, is retried, is
\* cancelled or arrives late: what an ingestion leaves behind, finished or
\* not, is the beginning of its document.
StoredIsABeginning ==
  \A d \in Docs : fate[d] \in {"none", "stored"} =>
    PointsOf(d) = {<<d, i>> : i \in 0..(StoredChunks(d) - 1)}

\* When ingestion returned the id of a document, and no deletion took points
\* of it, the collection holds all of its text, the overlaps taken off.  Not
\* after a provider answered short: the chunks left over are dropped silently.
AcknowledgedIsWhole ==
  ~short => \A d \in Docs : fate[d] = "stored" =>
    LET chunks == [i \in 1..StoredChunks(d) |-> points[<<d, i - 1>>].content] IN
    Whole(sources[d].kind, chunks) = Original(sources[d].kind, sources[d].text)

\* A chunk is stored with the vector of its own text, by whichever mixture of
\* cached and new vectors, unless a provider answered short.  Documents that
\* come through the document service have vectors of zeros only.
ChunksHaveTheirVectors ==
  ~short => \A id \in DOMAIN points :
    points[id].vector.of = IF sources[id[1]].kind = "document" THEN <<"zeros">>
                           ELSE Norm(points[id].content)

\* A document that was deleted as a whole, when no request that writes it was
\* on its way, never comes back.
GoneStaysGone == \A d \in Docs : fate[d] = "gone" => PointsOf(d) = {}

\* When ingest_policies() is about to return its count, the files whose upsert
\* returned are all in it (those not touched since), and no other file is.
DirectoryIsCounted ==
  \A c \in Ingesters : LET j == job[c] IN
    j.kind = "policies" /\ j.doc = NoDoc /\ j.left = <<>> =>
      /\ Cardinality({d \in j.docs : fate[d] = "stored"}) <= j.count
      /\ j.count <= Cardinality({d \in j.docs : fate[d] # "none"})

\* No operation on the store can go on for ever: every answer, error and pause
\* of one that is not over brings it nearer to its end.
RetriesRunOut ==
  [][\A c \in Clients : Busy(c) /\ task'[c].phase \in {"waiting", "pause"} =>
       task'[c] = task[c] \/ Remaining(task'[c]) < Remaining(task[c])]_vars

\* Of a document the collection has a beginning, all of it once that was
\* acknowledged, and a directory counts what it acknowledged (ingest/__init__.py,
\* vectorstore.py).
DocumentsAreWhole == TypeOK /\ StoredIsABeginning /\ AcknowledgedIsWhole /\ DirectoryIsCounted

\* Vectors stay with their texts, in the collection and in the caches
\* (embeddings/service.py, cache.py).
VectorsKeepTheirTexts == ChunksHaveTheirVectors /\ CachedUnderItsText
=============================================================================

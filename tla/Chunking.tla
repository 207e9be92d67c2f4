------------------------------ MODULE Chunking ------------------------------
(***************************************************************************)
(* src/infrastructure/rag/ingest/chunking.py, and the same loop in         *)
(* DocumentService._chunk_text(): how a text becomes the chunks that are   *)
(* embedded and stored.  A text is a sequence of characters; for           *)
(* chunk_by_paragraphs() it is given as the sequence of its paragraphs.    *)
(***************************************************************************)
EXTENDS Integers, Sequences, SequencesExt, FiniteSets

\* `requested or default`: a request of 0 is the default as well.
OrDefault(requested, default) == IF requested = 0 THEN default ELSE requested

\* Every pass of the loop moves forward by the size less the overlap; when
\* that is not positive, a text that is not empty is never consumed.
NeverEnds(text, size, overlap) == text # <<>> /\ overlap >= size

\* Seeded fault: the overlap is added instead of taken back.
ChunkStartWithGaps(size, overlap, i) == (i - 1) * (size + overlap)

\* The i-th chunk begins after ChunkStart characters.
ChunkStart(size, overlap, i) == (i - 1) * (size - overlap)

ChunkAt(text, size, overlap, i) ==
  LET start == ChunkStart(size, overlap, i)
      end == start + size
  IN  SubSeq(text, start + 1, IF end < Len(text) THEN end ELSE Len(text))

\* As many chunks as begin inside the text; only for overlap < size.
ChunkText(text, size, overlap) ==
  [i \in 1..Cardinality({j \in 1..Len(text) : ChunkStart(size, overlap, j) < Len(text)})
     |-> ChunkAt(text, size, overlap, i)]

\* What a reader of the chunks can put together again: of every chunk but the
\* first, what follows the overlap.
Reassembled(chunks, overlap) ==
  FlattenSeq([i \in DOMAIN chunks |->
    IF i = 1 THEN chunks[1] ELSE SubSeq(chunks[i], overlap + 1, Len(chunks[i]))])

-----------------------------------------------------------------------------
(* chunk_by_paragraphs(): paragraphs are merged, a blank line (two          *)
(* characters) between them, while they fit.                               *)

BlankLine == <<"|", "|">>

Joined(paragraphs) ==
  FlattenSeq([i \in DOMAIN paragraphs |->
    IF i = 1 THEN paragraphs[1] ELSE BlankLine \o paragraphs[i]])

AddParagraph(max, acc, para) ==
  IF Len(acc.current) + Len(para) + 2 <= max
  THEN [acc EXCEPT !.current = IF @ = <<>> THEN para ELSE @ \o BlankLine \o para]
  ELSE [chunks |-> IF acc.current = <<>> THEN acc.chunks ELSE Append(acc.chunks, acc.current),
        current |-> para]

ChunkByParagraphs(paragraphs, max) ==
  LET acc[i \in 0..Len(paragraphs)] ==
        IF i = 0 THEN [chunks |-> <<>>, current |-> <<>>]
        ELSE AddParagraph(max, acc[i - 1], paragraphs[i])
      end == acc[Len(paragraphs)]
  IN  IF end.current = <<>> THEN end.chunks ELSE Append(end.chunks, end.current)
=============================================================================

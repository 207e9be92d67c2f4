---------------------------- MODULE MCIngestion ----------------------------
(***************************************************************************)
(* Bounded instance of Ingestion.tla: one task that ingests and one that   *)
(* deletes and creates; a text of two chunks that overlap, a list of two   *)
(* FAQ paragraphs too long for one chunk; "B" and "b" are the same after   *)
(* preprocessing, so that a chunk of the text and one of the FAQs are.     *)
(***************************************************************************)
EXTENDS Ingestion

CONSTANTS w, a

MCIngesters == {w}
MCAdmins == {a}
MCClients == {w, a}

MCNorm(text) ==
  [i \in DOMAIN text |-> IF text[i] = "B" THEN "b" ELSE text[i]]

MCTexts == { <<"a", "a", "b", "B">> }
MCFaqs == { << <<"a">>, <<"b", "b">> >> }

MCFirstSettings == [keys |-> {"openai"}, broken |-> FALSE, model |-> "m"]
MCSettings == { MCFirstSettings,
                [keys |-> {"openai", "local"}, broken |-> TRUE, model |-> "m"] }
=============================================================================

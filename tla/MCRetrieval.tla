---------------------------- MODULE MCRetrieval ----------------------------
(***************************************************************************)
(* Bounded instance of Retrieval.tla: three documents, one of them empty,  *)
(* and two queries that score them differently.                            *)
(***************************************************************************)
EXTENDS Retrieval, TLC

CONSTANTS c1, c2

MCSymmetry == Permutations({c1, c2})

MCContent == [d1 |-> <<"q", "r", "r", "x">>, d2 |-> <<"q", "r">>, d3 |-> <<>>]
MCTag == [d1 |-> "s", d2 |-> "t", d3 |-> "s"]
MCScore == [q |-> [d1 |-> 3, d2 |-> 2, d3 |-> 1], r |-> [d1 |-> 1, d2 |-> 2, d3 |-> 3]]
=============================================================================

---------------------------- MODULE MCKnowledge ----------------------------
(***************************************************************************)
(* Instances of KnowledgeIndex for TLC.                                    *)
(***************************************************************************)
EXTENDS KnowledgeIndex

CONSTANTS short, long

\* A document of one chunk, and one of two batches that begins otherwise.
OneOrTwoChunks == {<<short>>, <<long, short>>}
=============================================================================

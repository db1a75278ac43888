------------------------------ MODULE MCMemory ------------------------------
(***************************************************************************)
(* Instances of MemoryWorker for TLC.                                      *)
(***************************************************************************)
EXTENDS MemoryWorker

CONSTANTS talk

\* Every source belongs to one conversation.
OneConversation == [s \in Sources |-> talk]
=============================================================================

-------------------------- MODULE ContextInvariant --------------------------
(***************************************************************************)
(* The inductive invariant behind the properties of ContextStore: who      *)
(* holds an attachment that a deleter has picked, which artifacts are      *)
(* whose, and what the input of a run stands on before it is sent.         *)
(***************************************************************************)
EXTENDS ContextStore

-----------------------------------------------------------------------------
(* Types.                                                                   *)

MessageRow == [role : {"user", "assistant"}, size : Sizes \cup Answers, run : Statuses]

SetupRow == [history : Nat, requests : Nat, uploads : SUBSET Attachments,
             artifacts : Nat, crashes : Nat]

\* Which turns are chosen is left open: of the fold that chooses them only the
\* result is looked at.
TaskRow ==
    [pc : {"idle", "history", "snapshot", "stream", "output", "compact"},
     run : {0} \cup Requests, current : {0} \cup Messages, input : {task.input}, full : BOOLEAN,
     cited : {0} \cup Messages, upto : {0} \cup Messages, saved : {task.saved},
     file : Nat, tool : BOOLEAN]

Holders == {Absent, Gone, Unbound} \cup Requests
Deleters == {"retention", "request"}

ContextTypes ==
    /\ conv \in Seq(MessageRow)
    /\ \A k \in Messages : conv[k].run = "none" <=> conv[k].role = "assistant"
    /\ holder \in [Attachments -> Holders]
    /\ aged \subseteq Attachments
    /\ picked \in [Deleters -> SUBSET Attachments]
    /\ rows \subseteq [id : Nat, run : Requests] /\ made \in Nat
    /\ batch \in [pc : {"idle", "picked", "unlinked"}, ids : SUBSET Nat]
    /\ snap \in [upto : {0} \cup Messages, source : Nat]
    /\ task \in TaskRow
    /\ IF task.pc = "idle" THEN task = Idle
       ELSE task.run \in Requests /\ task.current \in Messages
    /\ setup \in SetupRow

-----------------------------------------------------------------------------
\* What a deleter has picked was unbound, or has been sent since.
PickedInv ==
    \A d \in Deleters : \A a \in picked[d] : holder[a] > 0 => a \in late

-----------------------------------------------------------------------------
(* The artifacts.                                                           *)

\* Every artifact has one row at most.
RowsInv == \A r, q \in rows : r.id = q.id => r = q

\* What is to be removed is not wanted any more: it has lost its row, or has
\* expired and is not the source of the snapshot.
RemovalInv ==
    /\ leaving \cap Ids = {}
    /\ batch.ids \subseteq expired /\ snap.source \notin batch.ids

\* The file a run has written waits for its row and is nobody else's.
PendingInv ==
    task.pc \in {"snapshot", "output", "compact"} =>
        task.file \in files \ (Ids \cup expired \cup leaving \cup batch.ids)

NumbersInv == Ids \cup files \cup expired \cup leaving \cup batch.ids \subseteq 1..made

ArtifactsInv == NumbersInv /\ RowsInv /\ RemovalInv /\ PendingInv /\ ContextIsRecoverable

-----------------------------------------------------------------------------
(* The input of a run.                                                      *)

\* A run that looks for no snapshot has all of the conversation; the snapshot
\* it writes covers what it leaves out; its input is shortened once at most.
InputInv ==
    /\ task.pc = "history" /\ ~task.full => Omitted = {}
    /\ task.pc = "snapshot" => \A k \in Omitted : k <= task.upto
    /\ task.pc = "compact" => task.saved = {}
    /\ NothingIsLost

ContextInv == ContextTypes /\ PickedInv /\ ArtifactsInv /\ InputInv
=============================================================================

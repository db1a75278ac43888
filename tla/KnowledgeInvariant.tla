------------------------- MODULE KnowledgeInvariant -------------------------
(***************************************************************************)
(* The inductive invariant behind CollectionsMirrorDocuments: what is in a *)
(* collection, or is on its way there, for a document that no call was     *)
(* made about out of turn.                                                 *)
(***************************************************************************)
EXTENDS KnowledgeIndex

-----------------------------------------------------------------------------
(* Types.                                                                   *)

Points == UNION {ItemsOf(d, body) : d \in Documents, body \in Bodies}
Entries == {DeleteEntry(d) : d \in Documents} \cup {UpsertEntry(p) : p \in Points}
OutboxRow == [entry : Entries, state : {"pending", "claimed", "done", "purged"}]
WriterRow == [at : {"idle", "delete", "queue_delete", "upsert", "queue"},
              docs : SUBSET Documents, items : SUBSET Points, failed : SUBSET Points]
TaskRow == [at : {"idle", "call", "mark", "dead"}, rows : SUBSET Nat, row : Nat, ok : BOOLEAN]

Types ==
  /\ chunks \in [Documents -> Bodies \cup {<<>>}]
  /\ primary \subseteq Points /\ fallback \subseteq Points
  /\ outbox \in Seq(OutboxRow)
  /\ writer \in [Threads -> WriterRow]
  /\ task \in TaskRow
  /\ bypassed \subseteq Documents /\ behind \subseteq Documents
  /\ writes \in Nat /\ faults \in Nat

\* Where a request is says what it has left to do, and about which documents.
WriterFits(t) ==
  /\ \A p \in writer[t].items \cup writer[t].failed : p.doc \in writer[t].docs
  /\ writer[t].at = "idle" => writer[t].docs = {}
  /\ writer[t].at # "queue" => writer[t].failed = {}

\* What the task has claimed is open until it has marked it.
TaskFits ==
  /\ \A n \in task.rows : n \in DOMAIN outbox /\ Open(n)
  /\ task.at = "mark" => task.row \in task.rows

-----------------------------------------------------------------------------
(* A document that no call was made about out of turn.                      *)

OpenAt(entry) == {n \in DOMAIN outbox : Open(n) /\ outbox[n].entry = entry}

\* The chunks of a document, and the requests, that are still to be called for.
Calling(d) ==
  {p \in Points : p.doc = d /\ \E t \in Threads : p \in writer[t].items \cup writer[t].failed}
InOutbox(d) == {p \in Points : p.doc = d /\ OpenAt(UpsertEntry(p)) # {}}
Pending(d) == Calling(d) \cup InOutbox(d)

Deleters(d) == {t \in Busy(d) : writer[t].at \in {"delete", "queue_delete"}}
Deleting(d) == Deleters(d) # {} \/ OpenAt(DeleteEntry(d)) # {}

\* The entry that the task has delivered and is about to mark.
Delivered(d) ==
  IF task.at = "mark" /\ task.ok /\ outbox[task.row].entry.doc = d
  THEN {outbox[task.row].entry} ELSE {}

\* One request at a time, of which nothing waits in the outbox before its
\* deletion is done; what is under way is what SQLite has, and the deletion
\* comes before it.
InTurn(d) ==
  /\ \A t, u \in Busy(d) : t = u
  /\ Deleters(d) # {} => ~Unfinished(d)
  /\ Pending(d) \subseteq Stored(d)
  /\ \A p \in InOutbox(d) : \A n \in OpenAt(UpsertEntry(p)), m \in OpenAt(DeleteEntry(d)) : m < n

\* A chunk is in the collection or on its way, and what must not be there is
\* deleted first; what the task is about to mark as done has been done.
Clean(points, stored, d) == \A p \in points : p.doc = d => p \in stored

Mirrors(points, stored, pending, deleting, delivered, d) ==
  /\ \A p \in stored : p \in pending \/ (p \in points /\ ~deleting)
  /\ ~deleting => Clean(points, stored, d)
  /\ \A entry \in delivered :
       /\ entry = DeleteEntry(d) => Clean(points, stored, d)
       /\ entry.op = "upsert" => entry.item \in points

Follows(points, d) ==
  Mirrors(points, Stored(d), Pending(d), Deleting(d), Delivered(d), d)

KnowledgeInv ==
  /\ Types
  /\ \A t \in Threads : WriterFits(t)
  /\ TaskFits
  /\ \A d \in Documents \ bypassed :
       /\ InTurn(d)
       /\ Follows(primary, d)
       /\ d \notin behind => Follows(fallback, d)
=============================================================================

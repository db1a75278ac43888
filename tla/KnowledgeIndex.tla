--------------------------- MODULE KnowledgeIndex ---------------------------
(***************************************************************************)
(* The knowledge documents of the diagnosis service: their chunks in       *)
(* SQLite, the vectors of the chunks in a primary and a fallback           *)
(* collection of the vector store, and the outbox that makes up for calls  *)
(* to the store that have failed.                                          *)
(*                                                                         *)
(* A request is served by a thread of the MCP server: it commits the       *)
(* chunks, then calls the store, and a call that fails is put into the     *)
(* outbox in a transaction of its own.  One task of the process works the  *)
(* outbox off.  The store is configured.                                   *)
(*                                                                         *)
(* Chunks have names, so that it does not matter in which order those of a *)
(* request go to the store: which of them make up a batch is left open.    *)
(***************************************************************************)
EXTENDS Naturals, Sequences, FiniteSets

CONSTANTS
  Documents,  \* (source, document_id)
  Bodies,     \* texts of the chunks of a document that has been ingested
  Threads,    \* requests under way
  BatchSize,  \* DIAGNOSIS_VECTOR_BATCH_SIZE
  MaxWrites,  \* bound: requests
  MaxFaults   \* bound: failing calls, crashes, errors of the task

ASSUME BodiesHaveChunks == <<>> \notin Bodies
ASSUME BatchSizeIsPositive == BatchSize \in Nat \ {0}
ASSUME KnowledgeBounds == MaxWrites \in Nat /\ MaxFaults \in Nat

VARIABLES
  chunks,     \* knowledge_document: the texts of a document, in order
  primary,    \* points of the primary collection
  fallback,   \* points of the fallback collection
  outbox,     \* external_sync_outbox, by created_at
  writer,     \* what a thread still has to do
  task,       \* the retry task, the entries it has claimed, and the one it is at
  bypassed,   \* history: documents the store was called about out of turn
  behind,     \* history: documents of which the fallback missed a call
  writes, faults

vars == <<chunks, primary, fallback, outbox, writer, task, bypassed, behind,
          writes, faults>>

(***************************************************************************)
(* Points and entries.  A point has the name of its chunk, and its text.   *)
(***************************************************************************)
ItemsOf(d, body) ==
  {[doc |-> d, index |-> i, text |-> body[i]] : i \in DOMAIN body}

Stored(d) == ItemsOf(d, chunks[d])

SameSlot(p, q) == p.doc = q.doc /\ p.index = q.index

Upserted(points, items) ==
  {p \in points : \A q \in items : ~SameSlot(p, q)} \cup items

Deleted(points, d) == {p \in points : p.doc # d}

DeleteEntry(d) == [op |-> "delete", doc |-> d, item |-> <<>>]
UpsertEntry(item) == [op |-> "upsert", doc |-> item.doc, item |-> item]

Effect(points, entry) ==
  IF entry.op = "delete" THEN Deleted(points, entry.doc)
  ELSE Upserted(points, {entry.item})

Open(n) == outbox[n].state \in {"pending", "claimed"}

Position(entry) ==
  {n \in DOMAIN outbox : outbox[n].entry = entry /\ outbox[n].state # "purged"}

\* An entry that exists is opened again where it is: created_at stays.
Enqueue(entry) ==
  LET open == [entry |-> entry, state |-> "pending"]
  IN  outbox' = IF Position(entry) = {} THEN Append(outbox, open)
                ELSE [n \in DOMAIN outbox |->
                        IF n \in Position(entry) THEN open ELSE outbox[n]]

Unfinished(d) == \E n \in DOMAIN outbox : outbox[n].entry.doc = d /\ Open(n)

\* An entry that is not done will undo what a call does for this item.
Overtakes(item) ==
  \E n \in DOMAIN outbox :
    /\ Open(n)
    /\ \/ outbox[n].entry = DeleteEntry(item.doc)
       \/ outbox[n].entry.op = "upsert" /\ SameSlot(outbox[n].entry.item, item)

(***************************************************************************)
(* Calls to the store.  An upsert goes to the fallback as well, whether    *)
(* the primary has failed or not; a delete only when it has not.  A call   *)
(* that fails may have had its effect on the primary.                      *)
(***************************************************************************)
Faulty == faults < MaxFaults /\ faults' = faults + 1
Fine == UNCHANGED faults

\* The collections after the call, if it reaches them: first and second.  The
\* fallback takes part, or fails, which is only logged.
FallbackTakes(second, docs) ==
  \/ fallback' = second /\ UNCHANGED behind
  \/ fallback' = fallback /\ behind' = behind \cup docs

Succeeds(first, second, docs) ==
  /\ primary' = first
  /\ \/ Fine /\ fallback' = second /\ UNCHANGED behind
     \/ Faulty /\ fallback' = fallback /\ behind' = behind \cup docs

UpsertFails(first, second, docs) ==
  /\ Faulty
  /\ primary' \in {primary, first}
  /\ FallbackTakes(second, docs)

DeleteFails(first) ==
  /\ Faulty
  /\ primary' \in {primary, first}
  /\ UNCHANGED <<fallback, behind>>

(***************************************************************************)
(* Requests.                                                               *)
(***************************************************************************)
Resting == [at |-> "idle", docs |-> {}, items |-> {}, failed |-> {}]

Busy(d) == {t \in Threads : d \in writer[t].docs}

\* What is left of the request: the batches, when there is one.
Proceeds(t, items) ==
  writer' = [writer EXCEPT ![t] =
    IF items = {} THEN Resting
    ELSE [at |-> "upsert", docs |-> @.docs, items |-> items, failed |-> {}]]

Begins(t, docs, place, items) ==
  /\ writer[t].at = "idle"
  /\ writes < MaxWrites
  /\ writes' = writes + 1
  /\ writer' = [writer EXCEPT ![t] =
                  [at |-> place, docs |-> docs, items |-> items, failed |-> {}]]
  /\ bypassed' = bypassed \cup {d \in docs : Busy(d) # {} \/ Unfinished(d)}
  /\ UNCHANGED <<primary, fallback, outbox, task, behind, faults>>

\* Mutant: the chunks of the document that was there stay in the store.
Replace_keepOld(t, d, body) ==
  /\ Begins(t, {d}, "upsert", ItemsOf(d, body))
  /\ chunks' = [chunks EXCEPT ![d] = body]

\* replace_knowledge_document: all chunks of the document are replaced.
Replace(t, d, body) ==
  /\ Begins(t, {d}, "delete", ItemsOf(d, body))
  /\ chunks' = [chunks EXCEPT ![d] = body]

\* delete_knowledge_document
Delete(t, d) ==
  /\ Begins(t, {d}, "delete", {})
  /\ chunks' = [chunks EXCEPT ![d] = <<>>]

\* rebuild_vector_index: what is stored is put into the index; nothing is
\* taken out of it.
Rebuild(t, docs) ==
  /\ \E d \in docs : chunks[d] # <<>>
  /\ Begins(t, docs, "upsert", UNION {Stored(d) : d \in docs})
  /\ UNCHANGED chunks

\* _external_write of the delete.
DeleteCall(t, d) ==
  /\ writer[t].at = "delete" /\ writer[t].docs = {d}
  /\ LET After(points) == Deleted(points, d)
     IN  \/ Succeeds(After(primary), After(fallback), {d}) /\ Proceeds(t, writer[t].items)
         \/ DeleteFails(After(primary)) /\ writer' = [writer EXCEPT ![t].at = "queue_delete"]
  /\ UNCHANGED <<chunks, outbox, task, bypassed, writes>>

QueueDelete(t, d) ==
  /\ writer[t].at = "queue_delete" /\ writer[t].docs = {d}
  /\ Enqueue(DeleteEntry(d))
  /\ Proceeds(t, writer[t].items)
  /\ UNCHANGED <<chunks, primary, fallback, task, bypassed, behind, writes, faults>>

Batches(items) ==
  IF Cardinality(items) <= BatchSize THEN {items}
  ELSE {batch \in SUBSET items : Cardinality(batch) = BatchSize}

\* _qdrant_write_many: one batch.
UpsertCall(t, batch) ==
  /\ writer[t].at = "upsert" /\ batch \in Batches(writer[t].items)
  /\ LET rest == writer[t].items \ batch
         docs == {p.doc : p \in batch}
         After(points) == Upserted(points, batch)
     IN  \/ /\ Succeeds(After(primary), After(fallback), docs)
            /\ Proceeds(t, rest)
            /\ bypassed' = bypassed \cup {p.doc : p \in {q \in batch : Overtakes(q)}}
         \/ /\ UpsertFails(After(primary), After(fallback), docs)
            /\ writer' = [writer EXCEPT ![t] =
                            [at |-> "queue", docs |-> @.docs, items |-> rest, failed |-> batch]]
            /\ UNCHANGED bypassed
  /\ UNCHANGED <<chunks, outbox, task, writes>>

\* The chunks of a batch that failed, each in a transaction of its own.
QueueItem(t, item) ==
  /\ writer[t].at = "queue" /\ item \in writer[t].failed
  /\ LET left == writer[t].failed \ {item}
         entry == UpsertEntry(item)
     IN  /\ Enqueue(entry)
         /\ bypassed' = IF Position(entry) = {} THEN bypassed
                        ELSE bypassed \cup {entry.doc}
         /\ IF left = {} THEN Proceeds(t, writer[t].items)
            ELSE writer' = [writer EXCEPT ![t].failed = left]
  /\ UNCHANGED <<chunks, primary, fallback, task, behind, writes, faults>>

(***************************************************************************)
(* retry_external_sync.                                                    *)
(***************************************************************************)
Waiting == [at |-> "idle", rows |-> {}, row |-> 0, ok |-> FALSE]

Claimable(expired) ==
  {n \in DOMAIN outbox :
     \/ outbox[n].state = "pending"
     \/ expired /\ outbox[n].state = "claimed"}

Claimed(rows) ==
  /\ outbox' = [n \in DOMAIN outbox |->
                  IF n \in rows THEN [outbox[n] EXCEPT !.state = "claimed"]
                  ELSE outbox[n]]
  /\ task' = [at |-> "call", rows |-> rows, row |-> 0, ok |-> FALSE]
  /\ UNCHANGED <<chunks, primary, fallback, writer, bypassed, behind, writes, faults>>

\* Mutant: what a dead process had claimed is never claimed again.
Claim_pendingOnly(expired) ==
  /\ task.at = "idle"
  /\ Claimable(FALSE) # {}
  /\ Claimed(Claimable(FALSE))

\* One statement claims what is open, and what was claimed before a crash when
\* its lease has run out.
Claim(expired) ==
  /\ task.at = "idle"
  /\ Claimable(expired) # {}
  /\ Claimed(Claimable(expired))

\* The statement returns the rows in no order that SQLite promises.
RetryCall(n) ==
  /\ task.at = "call" /\ n \in task.rows
  /\ LET entry == outbox[n].entry
         After(points) == Effect(points, entry)
         Answered(ok) == task' = [at |-> "mark", rows |-> task.rows, row |-> n, ok |-> ok]
     IN  \/ Succeeds(After(primary), After(fallback), {entry.doc}) /\ Answered(TRUE)
         \/ /\ IF entry.op = "delete" THEN DeleteFails(After(primary))
               ELSE UpsertFails(After(primary), After(fallback), {entry.doc})
            /\ Answered(FALSE)
  /\ UNCHANGED <<chunks, outbox, writer, bypassed, writes>>

\* An entry can be done before an older one about its document.
RetryMark ==
  /\ task.at = "mark"
  /\ LET n == task.row
         d == outbox[n].entry.doc
         left == task.rows \ {n}
         early == \E m \in 1..(n - 1) : outbox[m].entry.doc = d /\ Open(m)
     IN  /\ outbox' = [outbox EXCEPT ![n].state = IF task.ok THEN "done" ELSE "pending"]
         /\ bypassed' = IF task.ok /\ early THEN bypassed \cup {d} ELSE bypassed
         /\ task' = IF left = {} THEN Waiting
                    ELSE [at |-> "call", rows |-> left, row |-> 0, ok |-> FALSE]
  /\ UNCHANGED <<chunks, primary, fallback, writer, behind, writes, faults>>

\* The clean-up of the service (retention.py) deletes entries that were done
\* long ago.  Such an entry is then put at the end when it is needed again.
Purge(n) ==
  /\ outbox[n].state = "done"
  /\ outbox' = [outbox EXCEPT ![n].state = "purged"]
  /\ UNCHANGED <<chunks, primary, fallback, writer, task, bypassed, behind, writes, faults>>

(***************************************************************************)
(* Faults.                                                                 *)
(***************************************************************************)
\* An error of the database ends the task for good: nobody catches it.
TaskDies ==
  /\ Faulty
  /\ task.at \in {"idle", "mark"}
  /\ task' = [Waiting EXCEPT !.at = "dead"]
  /\ UNCHANGED <<chunks, primary, fallback, outbox, writer, bypassed, behind, writes>>

\* The process restarts: requests are lost between their transactions.
Restart ==
  /\ Faulty
  /\ writer' = [t \in Threads |-> Resting]
  /\ task' = Waiting
  /\ bypassed' = bypassed \cup {d \in Documents : Busy(d) # {}}
  /\ UNCHANGED <<chunks, primary, fallback, outbox, behind, writes>>

(***************************************************************************)
(* The specification.                                                      *)
(***************************************************************************)
Init ==
  /\ chunks = [d \in Documents |-> <<>>]
  /\ primary = {} /\ fallback = {}
  /\ outbox = <<>>
  /\ writer = [t \in Threads |-> Resting]
  /\ task = Waiting
  /\ bypassed = {} /\ behind = {}
  /\ writes = 0 /\ faults = 0

RetryCalls == \E n \in DOMAIN outbox : RetryCall(n)

TaskStep == (\E expired \in BOOLEAN : Claim(expired)) \/ RetryCalls \/ RetryMark

Next ==
  \/ \E t \in Threads, d \in Documents, body \in Bodies : Replace(t, d, body)
  \/ \E t \in Threads, d \in Documents : Delete(t, d)
  \/ \E t \in Threads, docs \in SUBSET Documents : Rebuild(t, docs)
  \/ \E t \in Threads, d \in Documents : DeleteCall(t, d)
  \/ \E t \in Threads, d \in Documents : QueueDelete(t, d)
  \/ \E t \in Threads : \E batch \in Batches(writer[t].items) : UpsertCall(t, batch)
  \/ \E t \in Threads : \E item \in writer[t].failed : QueueItem(t, item)
  \/ \E expired \in BOOLEAN : Claim(expired)
  \/ RetryCalls
  \/ RetryMark
  \/ \E n \in DOMAIN outbox : Purge(n)
  \/ TaskDies
  \/ Restart

Spec == Init /\ [][Next]_vars /\ WF_vars(TaskStep)

(***************************************************************************)
(* Properties.                                                             *)
(***************************************************************************)
Quiet(d) == Busy(d) = {} /\ ~Unfinished(d)

\* When a document is quiet, the primary collection holds the chunks SQLite
\* has, with their texts, and no others, and so does the fallback unless it
\* has missed a call: whatever failed, was repeated after a crash or was done
\* on the way, as long as no call about the document went past an entry of it
\* that was open.
CollectionsMirrorDocuments ==
  \A d \in Documents \ bypassed : Quiet(d) =>
    /\ {p \in primary : p.doc = d} = Stored(d)
    /\ d \notin behind => {p \in fallback : p.doc = d} = Stored(d)

\* An entry of the outbox is delivered in the end, also when the process has
\* died with it, unless an error of the database has ended the retry task.
OutboxDrains ==
  \A d \in Documents : Unfinished(d) ~> (~Unfinished(d) \/ task.at = "dead")
=============================================================================

--------------------------- MODULE KnowledgeProofs ---------------------------
(***************************************************************************)
(* KnowledgeInv is an invariant of KnowledgeIndex, for any documents,      *)
(* texts, threads, batch size and bounds; that quiet documents have their  *)
(* chunks, and no others, in the collections follows from it.              *)
(***************************************************************************)
EXTENDS KnowledgeInvariant, SequenceTheorems, TLAPS

-----------------------------------------------------------------------------
(* Points, entries and calls.                                               *)

LEMMA ItemFacts ==
  ASSUME NEW d, NEW body
  PROVE  /\ \A p \in ItemsOf(d, body) : p.doc = d
         /\ \A p, q \in ItemsOf(d, body) : SameSlot(p, q) => p = q
BY DEF ItemsOf, SameSlot

LEMMA NoItems == \A d : ItemsOf(d, <<>>) = {}
BY DEF ItemsOf

LEMMA ItemsArePoints ==
  ASSUME NEW d \in Documents, NEW body \in Bodies \cup {<<>>}
  PROVE  ItemsOf(d, body) \subseteq Points
<1>1. CASE body = <<>>
  BY <1>1, NoItems
<1>2. CASE body \in Bodies
  BY <1>2 DEF Points
<1> QED BY <1>1, <1>2

LEMMA PointFacts ==
  ASSUME NEW p \in Points
  PROVE  p.doc \in Documents
<1>1. PICK d \in Documents, body \in Bodies : p \in ItemsOf(d, body)
  BY DEF Points
<1> QED BY <1>1, ItemFacts

LEMMA StoredFacts ==
  ASSUME chunks \in [Documents -> Bodies \cup {<<>>}], NEW d \in Documents
  PROVE  /\ Stored(d) \subseteq Points
         /\ \A p \in Stored(d) : p.doc = d
         /\ \A p, q \in Stored(d) : SameSlot(p, q) => p = q
<1>1. chunks[d] \in Bodies \cup {<<>>}
  OBVIOUS
<1> QED BY <1>1, ItemFacts, ItemsArePoints DEF Stored

LEMMA EntryShape ==
  ASSUME NEW e \in Entries
  PROVE  /\ e.doc \in Documents
         /\ \/ e.op = "delete" /\ e = DeleteEntry(e.doc)
            \/ e.op = "upsert" /\ e.item \in Points /\ e = UpsertEntry(e.item)
               /\ e.item.doc = e.doc
<1>1. CASE e \in {DeleteEntry(d) : d \in Documents}
  BY <1>1 DEF DeleteEntry
<1>2. CASE e \in {UpsertEntry(p) : p \in Points}
  BY <1>2, PointFacts DEF UpsertEntry
<1> QED BY <1>1, <1>2 DEF Entries

LEMMA EntryFacts ==
  /\ \A d \in Documents : /\ DeleteEntry(d) \in Entries
                          /\ DeleteEntry(d).op = "delete" /\ DeleteEntry(d).doc = d
  /\ \A p \in Points : /\ UpsertEntry(p) \in Entries /\ UpsertEntry(p).op = "upsert"
                       /\ UpsertEntry(p).doc = p.doc /\ UpsertEntry(p).item = p
  BY DEF Entries, DeleteEntry, UpsertEntry

LEMMA CalledPoints ==
  ASSUME NEW points \in SUBSET Points
  PROVE  /\ \A items \in SUBSET Points : Upserted(points, items) \subseteq Points
         /\ \A d : Deleted(points, d) \subseteq Points
         /\ \A e \in Entries : Effect(points, e) \subseteq Points
<1>1. \A items \in SUBSET Points : Upserted(points, items) \subseteq Points
  BY DEF Upserted
<1>2. \A d : Deleted(points, d) \subseteq Points
  BY DEF Deleted
<1>3. ASSUME NEW e \in Entries PROVE Effect(points, e) \subseteq Points
  <2>1. CASE e.op = "delete"
    BY <1>2, <2>1 DEF Effect
  <2>2. CASE e.op # "delete"
    <3>1. e.item \in Points
      BY <2>2, EntryShape
    <3>2. {e.item} \in SUBSET Points
      BY <3>1
    <3> QED BY <1>1, <2>2, <3>2 DEF Effect
  <2> QED BY <2>1, <2>2
<1> QED BY <1>1, <1>2, <1>3

LEMMA BatchIsPart ==
  ASSUME NEW items, NEW batch \in Batches(items)
  PROVE  batch \subseteq items
BY DEF Batches

-----------------------------------------------------------------------------
(* What a collection owes a document, when one of its parts changes.        *)

\* Only what is in the collection about the document matters.
LEMMA MirrorsStay ==
  ASSUME NEW points, NEW points2, NEW stored, NEW pending, NEW deleting \in BOOLEAN,
         NEW delivered, NEW d,
         Mirrors(points, stored, pending, deleting, delivered, d),
         \A p : p.doc = d => (p \in points <=> p \in points2),
         \A p \in stored : p.doc = d,
         \A e \in delivered : e.op = "upsert" => e.item.doc = d
  PROVE  Mirrors(points2, stored, pending, deleting, delivered, d)
BY DEF Mirrors, Clean

\* A current chunk can be put there at any time.
LEMMA UpsertedMirrors ==
  ASSUME NEW points, NEW items, NEW stored, NEW pending, NEW deleting \in BOOLEAN,
         NEW delivered, NEW d,
         Mirrors(points, stored, pending, deleting, delivered, d),
         \A q \in items : q.doc = d => q \in stored,
         \A p \in stored : p.doc = d,
         \A p, q \in stored : SameSlot(p, q) => p = q,
         \A e \in delivered : e.op = "upsert" => e.item \in stored
  PROVE  Mirrors(Upserted(points, items), stored, pending, deleting, delivered, d)
<1>1. ASSUME NEW p \in stored, p \in points PROVE p \in Upserted(points, items)
  BY <1>1 DEF Upserted, SameSlot
<1>2. Clean(points, stored, d) => Clean(Upserted(points, items), stored, d)
  BY DEF Clean, Upserted
<1> QED BY <1>1, <1>2 DEF Mirrors

\* What is no longer pending has arrived, and what is no longer deleted has gone.
LEMMA MirrorsAgain ==
  ASSUME NEW points, NEW stored, NEW pending, NEW pending2,
         NEW deleting \in BOOLEAN, NEW deleting2 \in BOOLEAN,
         NEW delivered, NEW delivered2, NEW d,
         Mirrors(points, stored, pending, deleting, delivered, d),
         \A p \in pending : p \in pending2 \/ (p \in points /\ ~deleting2),
         deleting2 => deleting,
         ~deleting2 => Clean(points, stored, d),
         \A e \in delivered2 : /\ e = DeleteEntry(d) => Clean(points, stored, d)
                               /\ e.op = "upsert" => e.item \in points
  PROVE  Mirrors(points, stored, pending2, deleting2, delivered2, d)
BY DEF Mirrors

\* While the document is to be deleted, everything is pending: the collection
\* may be anything.
LEMMA MirrorsAnyway ==
  ASSUME NEW points, NEW stored, NEW pending, NEW d,
         \A p \in stored : p \in pending
  PROVE  Mirrors(points, stored, pending, TRUE, {}, d)
BY DEF Mirrors

-----------------------------------------------------------------------------
(* Rows of the outbox.                                                      *)

LEMMA RowFacts ==
  ASSUME outbox \in Seq(OutboxRow), NEW n \in DOMAIN outbox
  PROVE  /\ outbox[n] \in OutboxRow /\ outbox[n].entry \in Entries
         /\ outbox[n].state \in {"pending", "claimed", "done", "purged"}
         /\ n \in 1..Len(outbox) /\ n \in Nat
<1>1. DOMAIN outbox = 1..Len(outbox) /\ Len(outbox) \in Nat
  OBVIOUS
<1>2. n \in 1..Len(outbox) /\ n \in Nat
  BY <1>1
<1>3. outbox[n] \in OutboxRow
  BY <1>2
<1> QED BY <1>2, <1>3 DEF OutboxRow

\* A document has something left to do when an entry about it is open.
LEMMA UnfinishedIs ==
  ASSUME outbox \in Seq(OutboxRow), NEW d
  PROVE  Unfinished(d) <=> \E e \in Entries : e.doc = d /\ OpenAt(e) # {}
BY RowFacts DEF Unfinished, OpenAt

LEMMA UnfinishedIsNext ==
  ASSUME outbox' \in Seq(OutboxRow), NEW d
  PROVE  Unfinished(d)' <=> \E e \in Entries : e.doc = d /\ OpenAt(e)' # {}
<1>1. DOMAIN outbox' = 1..Len(outbox')
  OBVIOUS
<1>2. \A n \in 1..Len(outbox') : outbox'[n] \in OutboxRow
  OBVIOUS
<1>3. \A n \in DOMAIN outbox' : outbox'[n].entry \in Entries
  BY <1>1, <1>2 DEF OutboxRow
<1> QED BY <1>3 DEF Unfinished, OpenAt

\* The rows of the outbox keep their entries, and those of R change state.
Restated(R, states) ==
  /\ DOMAIN outbox' = DOMAIN outbox
  /\ \A n \in DOMAIN outbox : outbox'[n].entry = outbox[n].entry
  /\ \A n \in DOMAIN outbox \ R : outbox'[n] = outbox[n]
  /\ \A n \in R : n \in DOMAIN outbox => outbox'[n].state \in states

LEMMA RestatedOpens ==
  ASSUME NEW R, NEW states, Restated(R, states), NEW e
  PROVE  /\ states \subseteq {"pending", "claimed"} /\ (\A n \in R : Open(n))
              => OpenAt(e)' = OpenAt(e)
         /\ states \subseteq {"done", "purged"} => OpenAt(e)' = OpenAt(e) \ R
BY DEF Restated, OpenAt, Open

LEMMA Reopened ==
  ASSUME outbox \in Seq(OutboxRow), NEW R, NEW entry \in Entries,
         \A n \in R : outbox[n].entry = entry,
         outbox' = [n \in DOMAIN outbox |->
                      IF n \in R THEN [entry |-> entry, state |-> "pending"] ELSE outbox[n]]
  PROVE  outbox' \in Seq(OutboxRow) /\ Restated(R, {"pending"})
<1> DEFINE open == [entry |-> entry, state |-> "pending"]
<1>1. open \in OutboxRow
  BY DEF OutboxRow
<1>2. DOMAIN outbox = 1..Len(outbox) /\ Len(outbox) \in Nat
  OBVIOUS
<1>3. \A n \in 1..Len(outbox) : (IF n \in R THEN open ELSE outbox[n]) \in OutboxRow
  BY <1>1, <1>2, RowFacts
<1>4. outbox' = [n \in 1..Len(outbox) |-> IF n \in R THEN open ELSE outbox[n]]
  BY <1>2
<1> HIDE DEF open
<1>5. outbox' \in Seq(OutboxRow)
  BY <1>2, <1>3, <1>4, SeqDef
<1>6. Restated(R, {"pending"})
  BY <1>2, <1>4 DEF Restated, open
<1> QED BY <1>5, <1>6

\* An entry that is put into the outbox is open, at the end if it was not there.
LEMMA EnqueueFacts ==
  ASSUME outbox \in Seq(OutboxRow), NEW entry \in Entries, Enqueue(entry)
  PROVE  /\ outbox' \in Seq(OutboxRow)
         /\ \A n \in DOMAIN outbox : n \in DOMAIN outbox' /\ outbox'[n].entry = outbox[n].entry
         /\ \A e : OpenAt(e) \subseteq OpenAt(e)'
         /\ \A e : e # entry => OpenAt(e)' = OpenAt(e)
         /\ OpenAt(entry)' # {}
         /\ Position(entry) = {} => \A n \in OpenAt(entry)', m \in DOMAIN outbox : m < n
<1> DEFINE open == [entry |-> entry, state |-> "pending"]
<1>1. open \in OutboxRow /\ open.entry = entry /\ open.state = "pending"
  BY DEF OutboxRow
<1>2. DOMAIN outbox = 1..Len(outbox) /\ Len(outbox) \in Nat
  OBVIOUS
<1> HIDE DEF open
<1>3. CASE Position(entry) = {}
  <2>1. outbox' = Append(outbox, open)
    BY <1>3 DEF Enqueue, open
  <2>2. /\ outbox' \in Seq(OutboxRow) /\ DOMAIN outbox' = 1..(Len(outbox) + 1)
        /\ \A n \in 1..Len(outbox) : outbox'[n] = outbox[n]
        /\ outbox'[Len(outbox) + 1] = open
    BY <1>1, <2>1
  <2>3. \A n \in DOMAIN outbox' : n \in 1..Len(outbox) \/ n = Len(outbox) + 1
    BY <1>2, <2>2
  <2>4. \A n \in DOMAIN outbox : n \in DOMAIN outbox' /\ outbox'[n].entry = outbox[n].entry
    BY <1>2, <2>2
  <2>5. \A e : OpenAt(e) \subseteq OpenAt(e)'
    BY <1>2, <2>2, <2>4 DEF OpenAt, Open
  <2>6. \A e : \A n \in OpenAt(e)' : n \in OpenAt(e) \/ (n = Len(outbox) + 1 /\ e = entry)
    BY <1>1, <1>2, <2>2, <2>3 DEF OpenAt, Open
  <2>7. Len(outbox) + 1 \in OpenAt(entry)'
    BY <1>1, <1>2, <2>2 DEF OpenAt, Open
  <2>8. OpenAt(entry) = {}
    BY <1>3 DEF Position, OpenAt, Open
  <2>9. \A n \in OpenAt(entry)', m \in DOMAIN outbox : m < n
    BY <1>2, <2>6, <2>8
  <2>10. ASSUME NEW e, e # entry PROVE OpenAt(e)' = OpenAt(e)
    <3>1. OpenAt(e) \subseteq OpenAt(e)'
      BY <2>5
    <3>2. \A n \in OpenAt(e)' : n \in OpenAt(e)
      BY <2>6, <2>10
    <3> QED BY <3>1, <3>2
  <2>11. OpenAt(entry)' # {}
    BY <2>7
  <2> QED BY <2>2, <2>4, <2>5, <2>9, <2>10, <2>11
<1>4. CASE Position(entry) # {}
  <2>1. outbox' = [n \in DOMAIN outbox |->
                     IF n \in Position(entry) THEN open ELSE outbox[n]]
    BY <1>4 DEF Enqueue, open
  <2>2. \A n \in Position(entry) : n \in DOMAIN outbox /\ outbox[n].entry = entry
    BY DEF Position
  <2>3. outbox' \in Seq(OutboxRow) /\ Restated(Position(entry), {"pending"})
    BY <2>1, <2>2, Reopened DEF open
  <2>4. \A n \in Position(entry) : n \in OpenAt(entry)'
    BY <1>1, <2>1, <2>2 DEF OpenAt, Open
  <2>5. \A e : OpenAt(e) \subseteq OpenAt(e)'
    BY <2>3 DEF OpenAt, Open, Restated
  <2>6. \A e : e # entry => OpenAt(e)' = OpenAt(e)
    BY <2>2, <2>3 DEF OpenAt, Open, Restated
  <2> QED BY <1>4, <2>2, <2>3, <2>4, <2>5, <2>6 DEF Restated
<1> QED BY <1>3, <1>4

-----------------------------------------------------------------------------
(* Requests.                                                                *)

LEMMA WriterParts ==
  ASSUME writer \in [Threads -> WriterRow], NEW t \in Threads
  PROVE  /\ writer[t] \in WriterRow
         /\ writer[t].at \in {"idle", "delete", "queue_delete", "upsert", "queue"}
         /\ writer[t].docs \subseteq Documents
         /\ writer[t].items \subseteq Points /\ writer[t].failed \subseteq Points
<1>1. writer[t] \in WriterRow
  OBVIOUS
<1> QED BY <1>1 DEF WriterRow

\* One request moves on.
Moved(t, row) ==
  /\ \A u \in Threads \ {t} : writer'[u] = writer[u]
  /\ writer'[t] = row

LEMMA Moves ==
  ASSUME writer \in [Threads -> WriterRow], NEW t \in Threads, NEW row \in WriterRow,
         writer' = [writer EXCEPT ![t] = row]
  PROVE  writer' \in [Threads -> WriterRow] /\ Moved(t, row)
BY DEF Moved

\* What a request is at, after the part that it has done.
Onward(t, items) ==
  IF items = {} THEN Resting
  ELSE [at |-> "upsert", docs |-> writer[t].docs, items |-> items, failed |-> {}]

LEMMA RestingRow == Resting \in WriterRow
BY DEF Resting, WriterRow

LEMMA ProceedsFacts ==
  ASSUME writer \in [Threads -> WriterRow], NEW t \in Threads, NEW items \in SUBSET Points,
         Proceeds(t, items)
  PROVE  /\ writer' \in [Threads -> WriterRow]
         /\ Moved(t, Onward(t, items))
         /\ writer'[t].items = items /\ writer'[t].failed = {}
         /\ writer'[t].docs \subseteq writer[t].docs
         /\ writer'[t].docs = {} <=> (items = {} \/ writer[t].docs = {})
         /\ writer'[t].at \in {"idle", "upsert"}
         /\ (\A p \in items : p.doc \in writer[t].docs) => WriterFits(t)'
<1>1. writer' = [writer EXCEPT ![t] = Onward(t, items)]
  BY DEF Proceeds, Onward
<1>2. Onward(t, items) \in WriterRow
  BY RestingRow, WriterParts DEF Onward, WriterRow
<1>3. writer' \in [Threads -> WriterRow] /\ Moved(t, Onward(t, items))
  BY <1>1, <1>2, Moves
<1>4. writer'[t] = Onward(t, items)
  BY <1>3 DEF Moved
<1>5. CASE items = {}
  <2>1. writer'[t] = Resting
    BY <1>4, <1>5 DEF Onward
  <2> QED BY <1>3, <1>5, <2>1 DEF Resting, WriterFits
<1>6. CASE items # {}
  <2>1. writer'[t] = [at |-> "upsert", docs |-> writer[t].docs, items |-> items, failed |-> {}]
    BY <1>4, <1>6 DEF Onward
  <2> QED BY <1>3, <1>6, <2>1 DEF WriterFits
<1> QED BY <1>5, <1>6

LEMMA BeginsFacts ==
  ASSUME writer \in [Threads -> WriterRow], NEW t \in Threads, NEW docs \in SUBSET Documents,
         NEW place \in {"delete", "upsert"}, NEW items \in SUBSET Points,
         Begins(t, docs, place, items)
  PROVE  /\ writer' \in [Threads -> WriterRow]
         /\ Moved(t, [at |-> place, docs |-> docs, items |-> items, failed |-> {}])
         /\ (\A p \in items : p.doc \in docs) => WriterFits(t)'
<1> DEFINE row == [at |-> place, docs |-> docs, items |-> items, failed |-> {}]
<1>1. row \in WriterRow /\ writer' = [writer EXCEPT ![t] = row]
  BY DEF WriterRow, Begins
<1>2. /\ row.at = place /\ row.docs = docs /\ row.items = items /\ row.failed = {}
  OBVIOUS
<1> HIDE DEF row
<1>3. writer' \in [Threads -> WriterRow] /\ Moved(t, row)
  BY <1>1, Moves
<1>4. writer'[t] = row
  BY <1>3 DEF Moved
<1>5. (\A p \in items : p.doc \in docs) => WriterFits(t)'
  BY <1>2, <1>4 DEF WriterFits
<1> QED BY <1>3, <1>5 DEF row

-----------------------------------------------------------------------------
(* Types and places.                                                        *)

Shape ==
  /\ Types
  /\ \A t \in Threads : WriterFits(t)
  /\ TaskFits

LEMMA RowWithState ==
  ASSUME NEW row \in OutboxRow, NEW state
  PROVE  [row EXCEPT !.state = state] = [entry |-> row.entry, state |-> state]
BY DEF OutboxRow

LEMMA StateOf ==
  ASSUME outbox \in Seq(OutboxRow), NEW R \in SUBSET (DOMAIN outbox),
         NEW state \in {"pending", "claimed", "done", "purged"},
         outbox' = [n \in DOMAIN outbox |->
                      IF n \in R THEN [entry |-> outbox[n].entry, state |-> state]
                      ELSE outbox[n]]
  PROVE  outbox' \in Seq(OutboxRow) /\ Restated(R, {state})
<1> DEFINE Row(n) == IF n \in R THEN [entry |-> outbox[n].entry, state |-> state] ELSE outbox[n]
<1>1. DOMAIN outbox = 1..Len(outbox) /\ Len(outbox) \in Nat
  OBVIOUS
<1>2. \A e \in Entries : [entry |-> e, state |-> state] \in OutboxRow
  BY DEF OutboxRow
<1>3. \A n \in 1..Len(outbox) : outbox[n] \in OutboxRow /\ outbox[n].entry \in Entries
  BY <1>1, RowFacts
<1>4. outbox' = [n \in 1..Len(outbox) |-> Row(n)]
  BY <1>1
<1>5. \A n \in 1..Len(outbox) : Row(n) \in OutboxRow
  BY <1>2, <1>3
<1>6. \A n \in 1..Len(outbox) : /\ Row(n).entry = outbox[n].entry
                                /\ n \in R => Row(n).state = state
                                /\ n \notin R => Row(n) = outbox[n]
  OBVIOUS
<1> HIDE DEF Row
<1>7. outbox' \in Seq(OutboxRow)
  BY <1>1, <1>4, <1>5, SeqDef
<1>8. Restated(R, {state})
  BY <1>1, <1>4, <1>6 DEF Restated
<1> QED BY <1>7, <1>8

LEMMA StateOfOne ==
  ASSUME outbox \in Seq(OutboxRow), NEW k \in DOMAIN outbox,
         NEW state \in {"pending", "claimed", "done", "purged"},
         outbox' = [outbox EXCEPT ![k] = [entry |-> outbox[k].entry, state |-> state]]
  PROVE  outbox' \in Seq(OutboxRow) /\ Restated({k}, {state})
<1>1. DOMAIN outbox = 1..Len(outbox)
  OBVIOUS
<1>2. outbox' = [n \in DOMAIN outbox |->
                   IF n \in {k} THEN [entry |-> outbox[n].entry, state |-> state]
                   ELSE outbox[n]]
  BY <1>1
<1> QED BY <1>2, StateOf

LEMMA TaskKeeps ==
  ASSUME TaskFits, UNCHANGED task,
         \A n \in DOMAIN outbox : n \in DOMAIN outbox' /\ (Open(n) => Open(n)')
  PROVE  TaskFits'
BY DEF TaskFits

LEMMA EnqueueOpens ==
  ASSUME outbox \in Seq(OutboxRow), NEW entry \in Entries, Enqueue(entry)
  PROVE  \A n \in DOMAIN outbox : n \in DOMAIN outbox' /\ (Open(n) => Open(n)')
<1>1. /\ \A n \in DOMAIN outbox : n \in DOMAIN outbox' /\ outbox'[n].entry = outbox[n].entry
      /\ \A e : OpenAt(e) \subseteq OpenAt(e)'
  BY EnqueueFacts
<1>2. ASSUME NEW n \in DOMAIN outbox, Open(n) PROVE Open(n)'
  <2>1. n \in OpenAt(outbox[n].entry)
    BY <1>2 DEF OpenAt
  <2>2. n \in OpenAt(outbox[n].entry)'
    BY <2>1, <1>1 DEF OpenAt
  <2> QED BY <2>2 DEF OpenAt
<1> QED BY <1>1, <1>2

LEMMA MovedFits ==
  ASSUME \A u \in Threads : WriterFits(u), NEW t \in Threads, NEW row, Moved(t, row),
         WriterFits(t)'
  PROVE  \A u \in Threads : WriterFits(u)'
BY DEF Moved, WriterFits

LEMMA BeginsShape ==
  ASSUME Shape, NEW t \in Threads, NEW docs \in SUBSET Documents,
         NEW place \in {"delete", "upsert"}, NEW items \in SUBSET Points,
         Begins(t, docs, place, items), \A p \in items : p.doc \in docs,
         chunks' \in [Documents -> Bodies \cup {<<>>}]
  PROVE  Shape'
<1>1. writer \in [Threads -> WriterRow]
  BY DEF Shape, Types
<1>2. /\ writer' \in [Threads -> WriterRow]
      /\ \E row : Moved(t, row)
      /\ WriterFits(t)'
  BY <1>1, BeginsFacts
<1>3. \A u \in Threads : WriterFits(u)'
  BY <1>2, MovedFits DEF Shape
<1>4. /\ UNCHANGED <<primary, fallback, outbox, task, behind, faults>>
      /\ writes' = writes + 1
      /\ bypassed' \subseteq bypassed \cup docs
  BY DEF Begins
<1>5. Types'
  BY <1>2, <1>4 DEF Shape, Types
<1>6. TaskFits'
  BY <1>4, TaskKeeps DEF Shape, Open
<1> QED BY <1>3, <1>5, <1>6 DEF Shape

LEMMA StoredNext ==
  ASSUME Shape, NEW d \in Documents, NEW body \in Bodies \cup {<<>>},
         chunks' = [chunks EXCEPT ![d] = body]
  PROVE  /\ chunks' \in [Documents -> Bodies \cup {<<>>}]
         /\ Stored(d)' = ItemsOf(d, body)
         /\ \A e \in Documents \ {d} : Stored(e)' = Stored(e)
BY DEF Shape, Types, Stored

LEMMA RequestShape ==
  ASSUME Shape, NEW t \in Threads,
         \/ \E d \in Documents, body \in Bodies : Replace(t, d, body)
         \/ \E d \in Documents : Delete(t, d)
         \/ \E docs \in SUBSET Documents : Rebuild(t, docs)
  PROVE  Shape'
<1>1. CASE \E d \in Documents, body \in Bodies : Replace(t, d, body)
  <2>1. PICK d \in Documents, body \in Bodies : Replace(t, d, body)
    BY <1>1
  <2>2. /\ ItemsOf(d, body) \in SUBSET Points /\ {d} \in SUBSET Documents
        /\ \A p \in ItemsOf(d, body) : p.doc \in {d}
    BY ItemsArePoints, ItemFacts
  <2>3. Begins(t, {d}, "delete", ItemsOf(d, body)) /\ chunks' = [chunks EXCEPT ![d] = body]
    BY <2>1 DEF Replace
  <2> QED BY <2>2, <2>3, StoredNext, BeginsShape
<1>2. CASE \E d \in Documents : Delete(t, d)
  <2>1. PICK d \in Documents : Delete(t, d)
    BY <1>2
  <2> DEFINE items == {}
  <2>2. Begins(t, {d}, "delete", items) /\ chunks' = [chunks EXCEPT ![d] = <<>>]
    BY <2>1 DEF Delete
  <2>3. items \in SUBSET Points /\ {d} \in SUBSET Documents /\ \A p \in items : p.doc \in {d}
    OBVIOUS
  <2> HIDE DEF items
  <2>4. chunks' \in [Documents -> Bodies \cup {<<>>}]
    BY <2>2, StoredNext
  <2> QED BY <2>2, <2>3, <2>4, BeginsShape
<1>3. CASE \E docs \in SUBSET Documents : Rebuild(t, docs)
  <2>1. PICK docs \in SUBSET Documents : Rebuild(t, docs)
    BY <1>3
  <2> DEFINE items == UNION {Stored(d) : d \in docs}
  <2>2. chunks \in [Documents -> Bodies \cup {<<>>}] /\ chunks' = chunks
    BY <2>1 DEF Rebuild, Shape, Types
  <2>3. items \in SUBSET Points /\ \A p \in items : p.doc \in docs
    BY <2>2, StoredFacts
  <2>4. Begins(t, docs, "upsert", items)
    BY <2>1 DEF Rebuild
  <2> HIDE DEF items
  <2> QED BY <2>2, <2>3, <2>4, BeginsShape
<1> QED BY <1>1, <1>2, <1>3

\* The calls: what they can leave in the collections, and behind.
LEMMA CallTypes ==
  ASSUME Types, NEW first \in SUBSET Points, NEW second \in SUBSET Points,
         NEW docs \in SUBSET Documents,
         Succeeds(first, second, docs) \/ UpsertFails(first, second, docs) \/ DeleteFails(first)
  PROVE  /\ primary' \subseteq Points /\ fallback' \subseteq Points
         /\ behind' \subseteq Documents /\ behind \subseteq behind' /\ faults' \in Nat
<1>1. primary \subseteq Points /\ fallback \subseteq Points /\ behind \subseteq Documents /\ faults \in Nat
  BY DEF Types
<1>2. CASE Succeeds(first, second, docs)
  BY <1>1, <1>2 DEF Succeeds, Fine, Faulty
<1>3. CASE UpsertFails(first, second, docs)
  BY <1>1, <1>3 DEF UpsertFails, FallbackTakes, Faulty
<1>4. CASE DeleteFails(first)
  BY <1>1, <1>4 DEF DeleteFails, Faulty
<1> QED BY <1>2, <1>3, <1>4

LEMMA RowParts ==
  ASSUME NEW row \in WriterRow, NEW place, NEW failed
  PROVE  /\ [row EXCEPT !.at = place] =
               [at |-> place, docs |-> row.docs, items |-> row.items, failed |-> row.failed]
         /\ [row EXCEPT !.failed = failed] =
               [at |-> row.at, docs |-> row.docs, items |-> row.items, failed |-> failed]
<1>1. [row EXCEPT !.at = place] =
        [at |-> place, docs |-> row.docs, items |-> row.items, failed |-> row.failed]
  BY DEF WriterRow
<1>2. [row EXCEPT !.failed = failed] =
        [at |-> row.at, docs |-> row.docs, items |-> row.items, failed |-> failed]
  BY DEF WriterRow
<1> QED BY <1>1, <1>2

\* What the steps of a request do to its row.
Steps(t, place, items, failed) ==
  writer' = [writer EXCEPT ![t] = [at |-> place, docs |-> writer[t].docs,
                                   items |-> items, failed |-> failed]]

LEMMA RowAt ==
  ASSUME writer \in [Threads -> WriterRow], NEW t \in Threads,
         NEW place \in {"idle", "delete", "queue_delete", "upsert", "queue"},
         NEW items \in SUBSET Points, NEW failed \in SUBSET Points,
         Steps(t, place, items, failed)
  PROVE  /\ writer' \in [Threads -> WriterRow]
         /\ \E row : Moved(t, row)
         /\ \A u \in Threads \ {t} : writer'[u] = writer[u]
         /\ writer'[t].at = place /\ writer'[t].docs = writer[t].docs
         /\ writer'[t].items = items /\ writer'[t].failed = failed
<1> DEFINE row == [at |-> place, docs |-> writer[t].docs, items |-> items, failed |-> failed]
<1>1. row \in WriterRow
  BY WriterParts DEF WriterRow
<1>2. /\ row.at = place /\ row.docs = writer[t].docs
      /\ row.items = items /\ row.failed = failed
  OBVIOUS
<1>3. writer' = [writer EXCEPT ![t] = row]
  BY DEF Steps
<1> HIDE DEF row
<1>4. writer' \in [Threads -> WriterRow] /\ Moved(t, row)
  BY <1>1, <1>3, Moves
<1> QED BY <1>2, <1>4 DEF Moved

LEMMA StepsOf ==
  ASSUME writer \in [Threads -> WriterRow], NEW t \in Threads
  PROVE  /\ \A place : writer' = [writer EXCEPT ![t].at = place]
                         => Steps(t, place, writer[t].items, writer[t].failed)
         /\ \A failed : writer' = [writer EXCEPT ![t].failed = failed]
                         => Steps(t, writer[t].at, writer[t].items, failed)
<1> DEFINE row == writer[t]
<1>1. row \in WriterRow
  OBVIOUS
<1>2. ASSUME NEW place, writer' = [writer EXCEPT ![t].at = place]
      PROVE  Steps(t, place, writer[t].items, writer[t].failed)
  BY <1>1, <1>2, RowParts DEF Steps
<1>3. ASSUME NEW failed, writer' = [writer EXCEPT ![t].failed = failed]
      PROVE  Steps(t, writer[t].at, writer[t].items, failed)
  BY <1>1, <1>3, RowParts DEF Steps
<1> QED BY <1>2, <1>3

-----------------------------------------------------------------------------
(* A document that a step does not disturb.                                 *)

Holds(d) ==
  /\ InTurn(d)
  /\ Follows(primary, d)
  /\ d \notin behind => Follows(fallback, d)

LEMMA DeliveredFacts ==
  ASSUME Shape, NEW d, NEW e \in Delivered(d)
  PROVE  /\ task.at = "mark" /\ task.ok /\ e = outbox[task.row].entry
         /\ e \in Entries /\ e.doc = d /\ task.row \in OpenAt(e)
         /\ e.op = "upsert" => e.item \in InOutbox(d) /\ e.item.doc = d
<1>1. task.at = "mark" /\ task.ok /\ e = outbox[task.row].entry /\ e.doc = d
  BY DEF Delivered
<1>2. task.row \in DOMAIN outbox /\ Open(task.row)
  BY <1>1 DEF Shape, TaskFits
<1>3. outbox \in Seq(OutboxRow)
  BY DEF Shape, Types
<1>4. e \in Entries
  BY <1>1, <1>2, <1>3, RowFacts
<1>5. task.row \in OpenAt(e)
  BY <1>1, <1>2 DEF OpenAt
<1>6. ASSUME e.op = "upsert" PROVE e.item \in InOutbox(d) /\ e.item.doc = d
  <2>1. e.item \in Points /\ e = UpsertEntry(e.item) /\ e.item.doc = d
    BY <1>1, <1>4, <1>6, EntryShape
  <2> QED BY <1>5, <2>1 DEF InOutbox
<1> QED BY <1>1, <1>4, <1>5, <1>6

LEMMA DeliveredStays ==
  ASSUME Shape, UNCHANGED task, NEW d,
         \A n \in DOMAIN outbox : outbox'[n].entry = outbox[n].entry
  PROVE  Delivered(d)' = Delivered(d)
<1>1. task.at = "mark" => task.row \in DOMAIN outbox
  BY DEF Shape, TaskFits
<1> QED BY <1>1 DEF Delivered

LEMMA NothingDelivered ==
  ASSUME NEW d, task.at # "mark"
  PROVE  Delivered(d) = {}
BY DEF Delivered

LEMMA NothingDeliveredNext ==
  ASSUME NEW d, task.at' # "mark"
  PROVE  Delivered(d)' = {}
BY DEF Delivered

LEMMA InOutboxNext ==
  ASSUME NEW d, \A e \in Entries : e.doc = d => OpenAt(e)' \subseteq OpenAt(e)
  PROVE  InOutbox(d)' \subseteq InOutbox(d)
BY EntryFacts DEF InOutbox

LEMMA InOutboxSame ==
  ASSUME NEW d, \A e \in Entries : e.doc = d => OpenAt(e)' = OpenAt(e)
  PROVE  InOutbox(d)' = InOutbox(d)
BY EntryFacts DEF InOutbox

LEMMA PendingIsStored ==
  ASSUME NEW d, InTurn(d)
  PROVE  Calling(d) \subseteq Stored(d) /\ InOutbox(d) \subseteq Stored(d)
BY DEF InTurn, Pending

\* The order of a document does not suffer when less is under way.
LEMMA TurnStays ==
  ASSUME Shape, Shape', NEW d \in Documents, InTurn(d),
         chunks'[d] = chunks[d],
         Busy(d)' \subseteq Busy(d), Deleters(d)' \subseteq Deleters(d),
         Calling(d)' \subseteq Calling(d),
         \A e \in Entries : e.doc = d => OpenAt(e)' \subseteq OpenAt(e)
  PROVE  InTurn(d)' /\ Stored(d)' = Stored(d)
<1>1. Stored(d)' = Stored(d)
  BY DEF Stored
<1>2. \A t, u \in Busy(d)' : t = u
  BY DEF InTurn
<1>3. Deleters(d)' # {} => ~Unfinished(d)'
  <2>1. Deleters(d)' # {} => ~Unfinished(d)
    BY DEF InTurn
  <2>2. Unfinished(d)' => Unfinished(d)
    BY UnfinishedIs, UnfinishedIsNext DEF Shape, Types
  <2> QED BY <2>1, <2>2
<1>4. InOutbox(d)' \subseteq InOutbox(d)
  BY InOutboxNext
<1>5. Pending(d)' \subseteq Stored(d)'
  BY <1>1, <1>4, PendingIsStored DEF Pending
<1>6. ASSUME NEW p \in InOutbox(d)',
             NEW n \in OpenAt(UpsertEntry(p))', NEW m \in OpenAt(DeleteEntry(d))'
      PROVE  m < n
  <2>1. p \in InOutbox(d) /\ p \in Points /\ p.doc = d
    BY <1>4 DEF InOutbox
  <2>2. n \in OpenAt(UpsertEntry(p)) /\ m \in OpenAt(DeleteEntry(d))
    BY <2>1, EntryFacts
  <2> QED BY <2>1, <2>2 DEF InTurn
<1> QED BY <1>1, <1>2, <1>3, <1>5, <1>6 DEF InTurn

LEMMA FollowsSame ==
  ASSUME Shape, NEW d \in Documents, InTurn(d), NEW points, NEW points2, Follows(points, d),
         \A p : p.doc = d => (p \in points <=> p \in points2),
         Stored(d)' = Stored(d), Pending(d)' = Pending(d), Deleting(d)' <=> Deleting(d),
         Delivered(d)' \subseteq Delivered(d)
  PROVE  Mirrors(points2, Stored(d)', Pending(d)', Deleting(d)', Delivered(d)', d)
<1>1. Mirrors(points, Stored(d), Pending(d), Deleting(d), Delivered(d), d)
  BY DEF Follows
<1>2. \A p \in Stored(d) : p.doc = d
  BY ItemFacts DEF Stored
<1>3. \A e \in Delivered(d) : e.op = "upsert" => e.item.doc = d
  BY DeliveredFacts
<1> QED BY <1>1, <1>2, <1>3 DEF Mirrors, Clean

LEMMA Undisturbed ==
  ASSUME Shape, Shape', NEW d \in Documents, Holds(d),
         chunks'[d] = chunks[d],
         Busy(d)' \subseteq Busy(d), Deleters(d)' = Deleters(d), Calling(d)' = Calling(d),
         \A e \in Entries : e.doc = d => OpenAt(e)' = OpenAt(e),
         \A p : p.doc = d => (p \in primary <=> p \in primary'),
         d \notin behind' => d \notin behind /\ \A p : p.doc = d => (p \in fallback <=> p \in fallback'),
         Delivered(d)' \subseteq Delivered(d)
  PROVE  Holds(d)'
<1>1. InTurn(d)' /\ Stored(d)' = Stored(d)
  BY TurnStays DEF Holds
<1>2. Pending(d)' = Pending(d)
  BY InOutboxSame DEF Pending
<1>3. Deleting(d)' <=> Deleting(d)
  BY EntryFacts DEF Deleting
<1>4. Follows(primary, d)'
  <2>1. Mirrors(primary', Stored(d)', Pending(d)', Deleting(d)', Delivered(d)', d)
    BY <1>1, <1>2, <1>3, FollowsSame DEF Holds
  <2> QED BY <2>1 DEF Follows
<1>5. ASSUME d \notin behind' PROVE Follows(fallback, d)'
  <2>1. Mirrors(fallback', Stored(d)', Pending(d)', Deleting(d)', Delivered(d)', d)
    BY <1>1, <1>2, <1>3, <1>5, FollowsSame DEF Holds
  <2> QED BY <2>1 DEF Follows
<1> QED BY <1>1, <1>4, <1>5 DEF Holds

\* A request that moves on without a document leaves the document alone.
LEMMA Elsewhere ==
  ASSUME NEW t \in Threads, \A u \in Threads \ {t} : writer'[u] = writer[u],
         WriterFits(t), WriterFits(t)', NEW d,
         d \notin writer[t].docs, d \notin writer'[t].docs
  PROVE  Busy(d)' = Busy(d) /\ Deleters(d)' = Deleters(d) /\ Calling(d)' = Calling(d)
<1>1. Busy(d)' = Busy(d)
  BY DEF Busy
<1>2. Deleters(d)' = Deleters(d)
  BY <1>1 DEF Deleters, Busy
<1>3. \A p \in Points : p.doc = d =>
        /\ p \notin writer[t].items \cup writer[t].failed
        /\ p \notin writer'[t].items \cup writer'[t].failed
  BY DEF WriterFits
<1>4. Calling(d)' = Calling(d)
  BY <1>3 DEF Calling
<1> QED BY <1>1, <1>2, <1>4

-----------------------------------------------------------------------------
(* A request begins.                                                        *)

\* Nothing is under way about a quiet document: the collections have it.
LEMMA QuietIsClear ==
  ASSUME Shape, NEW d \in Documents, Quiet(d)
  PROVE  /\ Calling(d) = {} /\ InOutbox(d) = {} /\ Pending(d) = {} /\ ~Deleting(d)
         /\ Delivered(d) = {}
         /\ \A e \in Entries : e.doc = d => OpenAt(e) = {}
<1>1. \A e \in Entries : e.doc = d => OpenAt(e) = {}
  BY UnfinishedIs DEF Quiet, Shape, Types
<1>2. InOutbox(d) = {}
  BY <1>1, EntryFacts DEF InOutbox
<1>3. Calling(d) = {}
  <2>1. \A p \in Points, t \in Threads :
          p \in writer[t].items \cup writer[t].failed => p.doc \in writer[t].docs
    BY DEF Shape, WriterFits
  <2> QED BY <2>1 DEF Calling, Quiet, Busy
<1>4. ~Deleting(d)
  BY <1>1, EntryFacts DEF Deleting, Deleters, Quiet
<1>5. Delivered(d) = {}
  BY <1>1, DeliveredFacts
<1> QED BY <1>1, <1>2, <1>3, <1>4, <1>5 DEF Pending

LEMMA QuietMirrors ==
  ASSUME Shape, NEW d \in Documents, Quiet(d), NEW points, Follows(points, d)
  PROVE  Stored(d) \subseteq points /\ Clean(points, Stored(d), d)
BY QuietIsClear DEF Follows, Mirrors

Starts(t, docs, place, items) ==
  /\ t \in Threads /\ docs \subseteq Documents /\ items \subseteq Points
  /\ place \in {"delete", "upsert"}
  /\ Begins(t, docs, place, items)

LEMMA BeginsAbout ==
  ASSUME Shape, NEW t, NEW docs, NEW place, NEW items, Starts(t, docs, place, items),
         NEW d \in docs, d \notin bypassed'
  PROVE  /\ Quiet(d) /\ Busy(d)' = {t}
         /\ (place = "delete" => Deleters(d)' = {t}) /\ (place # "delete" => Deleters(d)' = {})
         /\ \A p : p \in Calling(d)' <=> p \in items /\ p.doc = d
         /\ InOutbox(d)' = {} /\ ~Unfinished(d)' /\ Delivered(d)' = {}
         /\ OpenAt(DeleteEntry(d))' = {}
<1>0. /\ t \in Threads /\ docs \subseteq Documents /\ items \subseteq Points
      /\ place \in {"delete", "upsert"} /\ d \in Documents
      /\ Begins(t, docs, place, items)
  BY DEF Starts
<1>1. Quiet(d) /\ UNCHANGED <<outbox, task>>
  BY <1>0 DEF Begins, Quiet
<1>2. /\ Moved(t, [at |-> place, docs |-> docs, items |-> items, failed |-> {}])
  BY <1>0, BeginsFacts DEF Shape, Types
<1>3. /\ \A u \in Threads \ {t} : writer'[u] = writer[u]
      /\ writer'[t].at = place /\ writer'[t].docs = docs
      /\ writer'[t].items = items /\ writer'[t].failed = {}
  BY <1>2 DEF Moved
<1>4. Busy(d) = {}
  BY <1>1 DEF Quiet
<1>5. Busy(d)' = {t}
  BY <1>0, <1>3, <1>4 DEF Busy
<1>6. (place = "delete" => Deleters(d)' = {t}) /\ (place # "delete" => Deleters(d)' = {})
  BY <1>0, <1>3, <1>5 DEF Deleters
<1>7. \A p : p \in Calling(d)' <=> p \in items /\ p.doc = d
  <2>1. \A p \in Points, u \in Threads : p.doc = d => p \notin writer[u].items \cup writer[u].failed
    BY <1>4 DEF Shape, WriterFits, Busy
  <2> QED BY <1>0, <1>3, <2>1 DEF Calling
<1>8. \A e \in Entries : e.doc = d => OpenAt(e) = {}
  BY <1>0, <1>1, QuietIsClear
<1>9. \A e : OpenAt(e)' = OpenAt(e)
  BY <1>1 DEF OpenAt, Open
<1>10. InOutbox(d)' = {}
  BY <1>0, <1>8, <1>9, EntryFacts DEF InOutbox
<1>11. ~Unfinished(d)'
  BY <1>1 DEF Quiet, Unfinished, Open
<1>12. Delivered(d)' = {}
  BY <1>0, <1>1, DeliveredStays, QuietIsClear
<1> QED BY <1>0, <1>1, <1>5, <1>6, <1>7, <1>8, <1>9, <1>10, <1>11, <1>12, EntryFacts

\* The other documents are left alone.
LEMMA BeginsElsewhere ==
  ASSUME Shape, Shape', NEW t \in Threads, NEW docs \in SUBSET Documents,
         NEW place \in {"delete", "upsert"}, NEW items \in SUBSET Points,
         Begins(t, docs, place, items), \A p \in items : p.doc \in docs,
         NEW d \in Documents \ docs, chunks'[d] = chunks[d], Holds(d)
  PROVE  Holds(d)'
<1>1. /\ \A u \in Threads \ {t} : writer'[u] = writer[u]
      /\ writer'[t].docs = docs
  <2>1. Moved(t, [at |-> place, docs |-> docs, items |-> items, failed |-> {}])
    BY BeginsFacts DEF Shape, Types
  <2> QED BY <2>1 DEF Moved
<1>2. writer[t].docs = {} /\ UNCHANGED <<primary, fallback, outbox, task, behind>>
  BY DEF Begins, Shape, WriterFits
<1>3. WriterFits(t) /\ WriterFits(t)'
  BY DEF Shape
<1>4. Busy(d)' = Busy(d) /\ Deleters(d)' = Deleters(d) /\ Calling(d)' = Calling(d)
  BY <1>1, <1>2, <1>3, Elsewhere
<1>5. \A e : OpenAt(e)' = OpenAt(e)
  BY <1>2 DEF OpenAt, Open
<1>6. Delivered(d)' = Delivered(d)
  BY <1>2, DeliveredStays
<1> QED BY <1>2, <1>4, <1>5, <1>6, Undisturbed

\* A request that deletes first: everything it will store is pending.
LEMMA BeginsToDelete ==
  ASSUME Shape, NEW t \in Threads, NEW d \in Documents, NEW items \in SUBSET Points,
         Begins(t, {d}, "delete", items), Stored(d)' = items, d \notin bypassed'
  PROVE  Holds(d)'
<1>1. /\ Busy(d)' = {t} /\ Deleters(d)' = {t}
      /\ \A p : p \in Calling(d)' <=> p \in items /\ p.doc = d
      /\ InOutbox(d)' = {} /\ ~Unfinished(d)' /\ Delivered(d)' = {}
  <2>1. Starts(t, {d}, "delete", items) /\ d \in {d}
    BY DEF Starts
  <2> QED BY <2>1, BeginsAbout
<1>2. \A p \in items : p.doc = d
  BY ItemFacts DEF Stored
<1>3. Pending(d)' = items
  BY <1>1, <1>2 DEF Pending
<1>4. InTurn(d)'
  BY <1>1, <1>3 DEF InTurn
<1>5. Deleting(d)'
  BY <1>1 DEF Deleting
<1>6. Follows(primary, d)' /\ Follows(fallback, d)'
  BY <1>1, <1>3, <1>5 DEF Follows, Mirrors
<1> QED BY <1>4, <1>6 DEF Holds

LEMMA BeginsToRebuild ==
  ASSUME Shape, NEW t \in Threads, NEW docs \in SUBSET Documents, NEW items \in SUBSET Points,
         Begins(t, docs, "upsert", items), UNCHANGED chunks,
         NEW d \in docs, \A p : p \in items /\ p.doc = d <=> p \in Stored(d),
         d \notin bypassed', Holds(d)
  PROVE  Holds(d)'
<1>1. /\ Quiet(d) /\ Busy(d)' = {t} /\ Deleters(d)' = {} /\ Calling(d)' = Stored(d)
      /\ InOutbox(d)' = {} /\ ~Unfinished(d)' /\ Delivered(d)' = {}
      /\ OpenAt(DeleteEntry(d))' = {}
  <2>1. Starts(t, docs, "upsert", items)
    BY DEF Starts
  <2> QED BY <2>1, BeginsAbout
<1>2. Stored(d)' = Stored(d) /\ UNCHANGED <<primary, fallback, behind>>
  BY DEF Stored, Begins
<1>3. Pending(d)' = Stored(d)
  BY <1>1 DEF Pending
<1>4. InTurn(d)'
  BY <1>1, <1>2, <1>3 DEF InTurn
<1>5. ~Deleting(d)'
  BY <1>1 DEF Deleting
<1>6. ASSUME NEW points, Follows(points, d)
      PROVE  Mirrors(points, Stored(d)', Pending(d)', Deleting(d)', Delivered(d)', d)
  <2>1. Clean(points, Stored(d), d)
    BY <1>1, <1>6, QuietMirrors
  <2> QED BY <1>1, <1>2, <1>3, <1>5, <2>1 DEF Mirrors
<1>7. Follows(primary, d)'
  BY <1>2, <1>6 DEF Follows, Holds
<1>8. d \notin behind' => Follows(fallback, d)'
  BY <1>2, <1>6 DEF Follows, Holds
<1> QED BY <1>4, <1>7, <1>8 DEF Holds

LEMMA RequestHolds ==
  ASSUME Shape, NEW t \in Threads,
         \/ \E d \in Documents, body \in Bodies : Replace(t, d, body)
         \/ \E d \in Documents : Delete(t, d)
         \/ \E docs \in SUBSET Documents : Rebuild(t, docs),
         NEW e \in Documents \ bypassed', Holds(e)
  PROVE  Holds(e)'
<1>0. Shape'
  BY RequestShape
<1>1. CASE \E d \in Documents, body \in Bodies : Replace(t, d, body)
  <2>1. PICK d \in Documents, body \in Bodies : Replace(t, d, body)
    BY <1>1
  <2>2. Begins(t, {d}, "delete", ItemsOf(d, body)) /\ chunks' = [chunks EXCEPT ![d] = body]
    BY <2>1 DEF Replace
  <2>3. /\ ItemsOf(d, body) \in SUBSET Points /\ {d} \in SUBSET Documents
        /\ \A p \in ItemsOf(d, body) : p.doc \in {d}
    BY ItemsArePoints, ItemFacts
  <2>4. Stored(d)' = ItemsOf(d, body)
    BY <2>2, StoredNext
  <2>5. CASE e = d
    BY <2>2, <2>3, <2>4, <2>5, BeginsToDelete
  <2>6. CASE e # d
    <3>1. chunks'[e] = chunks[e]
      BY <2>2, <2>6 DEF Shape, Types
    <3> QED BY <1>0, <2>2, <2>3, <2>6, <3>1, BeginsElsewhere
  <2> QED BY <2>5, <2>6
<1>2. CASE \E d \in Documents : Delete(t, d)
  <2>1. PICK d \in Documents : Delete(t, d)
    BY <1>2
  <2> DEFINE items == {}
  <2>2. Begins(t, {d}, "delete", items) /\ chunks' = [chunks EXCEPT ![d] = <<>>]
    BY <2>1 DEF Delete
  <2>3. items \in SUBSET Points /\ {d} \in SUBSET Documents /\ \A p \in items : p.doc \in {d}
    OBVIOUS
  <2>4. Stored(d)' = items
    BY <2>2, StoredNext, NoItems
  <2> HIDE DEF items
  <2>5. CASE e = d
    BY <2>2, <2>3, <2>4, <2>5, BeginsToDelete
  <2>6. CASE e # d
    <3>1. chunks'[e] = chunks[e]
      BY <2>2, <2>6 DEF Shape, Types
    <3> QED BY <1>0, <2>2, <2>3, <2>6, <3>1, BeginsElsewhere
  <2> QED BY <2>5, <2>6
<1>3. CASE \E docs \in SUBSET Documents : Rebuild(t, docs)
  <2>1. PICK docs \in SUBSET Documents : Rebuild(t, docs)
    BY <1>3
  <2> DEFINE items == UNION {Stored(d) : d \in docs}
  <2>2. chunks \in [Documents -> Bodies \cup {<<>>}] /\ chunks' = chunks
    BY <2>1 DEF Rebuild, Shape, Types
  <2>3. items \in SUBSET Points /\ \A p \in items : p.doc \in docs
    BY <2>2, StoredFacts
  <2>4. Begins(t, docs, "upsert", items)
    BY <2>1 DEF Rebuild
  <2>5. \A d \in docs : \A p : p \in items /\ p.doc = d <=> p \in Stored(d)
    BY <2>2, StoredFacts
  <2> HIDE DEF items
  <2>6. CASE e \in docs
    BY <2>2, <2>3, <2>4, <2>5, <2>6, BeginsToRebuild
  <2>7. CASE e \notin docs
    <3>1. chunks'[e] = chunks[e]
      BY <2>2
    <3> QED BY <1>0, <2>3, <2>4, <2>7, <3>1, BeginsElsewhere
  <2> QED BY <2>6, <2>7
<1> QED BY <1>1, <1>2, <1>3

-----------------------------------------------------------------------------
(* A request goes on.                                                       *)

\* The request about a document, and no other, has its chunks.
LEMMA OneCalls ==
  ASSUME Shape, Shape', NEW d \in Documents, InTurn(d), NEW t \in Threads, d \in writer[t].docs,
         \A u \in Threads \ {t} : writer'[u] = writer[u]
  PROVE  /\ Busy(d) = {t} /\ Busy(d)' \subseteq {t}
         /\ Deleters(d) # {} <=> writer[t].at \in {"delete", "queue_delete"}
         /\ Deleters(d)' # {} <=>
              d \in writer'[t].docs /\ writer'[t].at \in {"delete", "queue_delete"}
         /\ \A p : p \in Calling(d) <=>
              p.doc = d /\ p \in writer[t].items \cup writer[t].failed
         /\ \A p : p \in Calling(d)' <=>
              p.doc = d /\ p \in writer'[t].items \cup writer'[t].failed
<1>1. Busy(d) = {t}
  BY DEF InTurn, Busy
<1>2. \A u \in Threads \ {t} : d \notin writer[u].docs /\ d \notin writer'[u].docs
  BY <1>1 DEF Busy
<1>3. Busy(d)' \subseteq {t}
  BY <1>2 DEF Busy
<1>4. /\ Deleters(d) # {} <=> writer[t].at \in {"delete", "queue_delete"}
      /\ Deleters(d)' # {} <=>
           d \in writer'[t].docs /\ writer'[t].at \in {"delete", "queue_delete"}
  BY <1>1, <1>2, <1>3 DEF Deleters, Busy
<1>5. /\ \A u \in Threads \ {t} : \A p \in writer[u].items \cup writer[u].failed : p.doc # d
      /\ \A u \in Threads \ {t} : \A p \in writer'[u].items \cup writer'[u].failed : p.doc # d
  BY <1>2 DEF Shape, WriterFits
<1>6. /\ writer[t].items \cup writer[t].failed \subseteq Points
      /\ writer'[t].items \cup writer'[t].failed \subseteq Points
  <2>1. writer[t] \in WriterRow /\ writer'[t] \in WriterRow
    BY DEF Shape, Types
  <2> QED BY <2>1 DEF WriterRow
<1>7. \A p : p \in Calling(d) <=> p.doc = d /\ p \in writer[t].items \cup writer[t].failed
  BY <1>5, <1>6 DEF Calling
<1>8. \A p : p \in Calling(d)' <=> p.doc = d /\ p \in writer'[t].items \cup writer'[t].failed
  BY <1>5, <1>6 DEF Calling
<1> QED BY <1>1, <1>3, <1>4, <1>7, <1>8

\* What a call does.
CallIs(first, second, docs) ==
  /\ primary' \in {primary, first}
  /\ behind \subseteq behind'
  /\ \/ fallback' = second
     \/ fallback' = fallback /\ docs \subseteq behind'

LEMMA Calls ==
  ASSUME NEW first, NEW second, NEW docs
  PROVE  /\ Succeeds(first, second, docs) => CallIs(first, second, docs) /\ primary' = first
         /\ UpsertFails(first, second, docs) => CallIs(first, second, docs)
<1>1. Succeeds(first, second, docs) => CallIs(first, second, docs) /\ primary' = first
  BY DEF Succeeds, CallIs
<1>2. UpsertFails(first, second, docs) => CallIs(first, second, docs)
  BY DEF UpsertFails, FallbackTakes, CallIs
<1> QED BY <1>1, <1>2

LEMMA DeleteCallIs ==
  ASSUME Shape, NEW t \in Threads, NEW d \in Documents, DeleteCall(t, d)
  PROVE  /\ writer[t].at = "delete" /\ writer[t].docs = {d}
         /\ UNCHANGED <<chunks, outbox, task, bypassed>>
         /\ \A u \in Threads \ {t} : writer'[u] = writer[u]
         /\ writer'[t].items = writer[t].items
         /\ writer[t].failed = {} /\ writer'[t].failed = {}
         /\ writer'[t].docs \subseteq {d}
         /\ \/ /\ writer'[t].at \in {"idle", "upsert"}
               /\ CallIs(Deleted(primary, d), Deleted(fallback, d), {d})
               /\ primary' = Deleted(primary, d)
            \/ /\ writer'[t].at = "queue_delete" /\ writer'[t].docs = {d}
               /\ primary' \in {primary, Deleted(primary, d)}
               /\ UNCHANGED <<fallback, behind>>
         /\ Shape'
<1>1. /\ writer[t].at = "delete" /\ writer[t].docs = {d}
      /\ UNCHANGED <<chunks, outbox, task, bypassed, writes>>
  BY DEF DeleteCall
<1>2. writer \in [Threads -> WriterRow] /\ writer[t].items \in SUBSET Points
      /\ writer[t].failed \in SUBSET Points
  BY WriterParts DEF Shape, Types
<1>3. /\ writer[t].failed = {} /\ \A p \in writer[t].items : p.doc \in writer[t].docs
  BY <1>1 DEF Shape, WriterFits
<1>4. /\ Deleted(primary, d) \in SUBSET Points /\ Deleted(fallback, d) \in SUBSET Points
  BY CalledPoints DEF Shape, Types
<1>5. /\ TaskFits' /\ chunks' \in [Documents -> Bodies \cup {<<>>}] /\ outbox' \in Seq(OutboxRow)
      /\ task' \in TaskRow /\ bypassed' \subseteq Documents /\ writes' \in Nat
  BY <1>1, TaskKeeps DEF Shape, Types, Open
<1>6. CASE /\ Succeeds(Deleted(primary, d), Deleted(fallback, d), {d})
           /\ Proceeds(t, writer[t].items)
  <2>1. /\ writer' \in [Threads -> WriterRow]
        /\ Moved(t, Onward(t, writer[t].items))
        /\ writer'[t].items = writer[t].items /\ writer'[t].failed = {}
        /\ writer'[t].docs \subseteq {d} /\ writer'[t].at \in {"idle", "upsert"}
        /\ WriterFits(t)'
    BY <1>1, <1>2, <1>3, <1>6, ProceedsFacts
  <2>2. /\ CallIs(Deleted(primary, d), Deleted(fallback, d), {d})
        /\ primary' = Deleted(primary, d)
    BY <1>6, Calls
  <2>3. /\ primary' \subseteq Points /\ fallback' \subseteq Points
        /\ behind' \subseteq Documents /\ faults' \in Nat
    BY <1>4, <1>6, CallTypes DEF Shape
  <2>4. \A u \in Threads : WriterFits(u)'
    BY <2>1, MovedFits DEF Shape
  <2>5. Shape'
    BY <1>5, <2>1, <2>3, <2>4 DEF Shape, Types
  <2> QED BY <1>1, <1>3, <2>1, <2>2, <2>5 DEF Moved
<1>7. CASE /\ DeleteFails(Deleted(primary, d))
           /\ writer' = [writer EXCEPT ![t].at = "queue_delete"]
  <2>1. Steps(t, "queue_delete", writer[t].items, writer[t].failed)
    BY <1>2, <1>7, StepsOf
  <2>2. /\ writer' \in [Threads -> WriterRow]
        /\ \E row : Moved(t, row)
        /\ \A u \in Threads \ {t} : writer'[u] = writer[u]
        /\ writer'[t].at = "queue_delete" /\ writer'[t].docs = writer[t].docs
        /\ writer'[t].items = writer[t].items /\ writer'[t].failed = writer[t].failed
    BY <1>2, <2>1, RowAt
  <2>3. WriterFits(t)'
    BY <1>1, <1>3, <2>2 DEF WriterFits
  <2>4. \A u \in Threads : WriterFits(u)'
    BY <2>2, <2>3, MovedFits DEF Shape
  <2>5. /\ primary' \subseteq Points /\ fallback' \subseteq Points
        /\ behind' \subseteq Documents /\ faults' \in Nat
    BY <1>4, <1>7, CallTypes DEF Shape
  <2>6. Shape'
    BY <1>5, <2>2, <2>4, <2>5 DEF Shape, Types
  <2>7. primary' \in {primary, Deleted(primary, d)} /\ UNCHANGED <<fallback, behind>>
    BY <1>7 DEF DeleteFails
  <2> QED BY <1>1, <1>3, <2>2, <2>6, <2>7
<1> QED BY <1>6, <1>7 DEF DeleteCall

\* While a request has its document still to delete, nothing else is under way
\* about it, and the request has all that is stored.
LEMMA AllIsCalled ==
  ASSUME Shape, NEW d \in Documents, InTurn(d), Deleters(d) # {}
  PROVE  /\ InOutbox(d) = {} /\ Delivered(d) = {} /\ Deleting(d)
         /\ \A e \in Entries : e.doc = d => OpenAt(e) = {}
         /\ \A points : Follows(points, d) => \A p \in Stored(d) : p \in Calling(d)
<1>1. \A e \in Entries : e.doc = d => OpenAt(e) = {}
  BY UnfinishedIs DEF InTurn, Shape, Types
<1>2. InOutbox(d) = {}
  BY <1>1, EntryFacts DEF InOutbox
<1>3. Delivered(d) = {}
  BY <1>1, DeliveredFacts
<1>4. Deleting(d)
  BY DEF Deleting
<1> QED BY <1>1, <1>2, <1>3, <1>4 DEF Follows, Mirrors, Pending

LEMMA DeleteCallHolds ==
  ASSUME Shape, NEW t \in Threads, NEW d \in Documents, DeleteCall(t, d),
         NEW e \in Documents, Holds(e)
  PROVE  Holds(e)'
<1>1. /\ writer[t].at = "delete" /\ writer[t].docs = {d}
      /\ UNCHANGED <<chunks, outbox, task, bypassed>>
      /\ \A u \in Threads \ {t} : writer'[u] = writer[u]
      /\ writer'[t].items = writer[t].items
      /\ writer[t].failed = {} /\ writer'[t].failed = {}
      /\ writer'[t].docs \subseteq {d}
      /\ Shape'
  BY DeleteCallIs
<1>2. \/ /\ writer'[t].at \in {"idle", "upsert"}
         /\ CallIs(Deleted(primary, d), Deleted(fallback, d), {d})
         /\ primary' = Deleted(primary, d)
      \/ /\ writer'[t].at = "queue_delete" /\ writer'[t].docs = {d}
         /\ primary' \in {primary, Deleted(primary, d)}
         /\ UNCHANGED <<fallback, behind>>
  BY DeleteCallIs
<1>3. \A x : OpenAt(x)' = OpenAt(x)
  BY <1>1 DEF OpenAt, Open
<1>4. \A x : Delivered(x)' = Delivered(x)
  BY <1>1, DeliveredStays
<1>5. CASE e # d
  <2>1. Busy(e)' = Busy(e) /\ Deleters(e)' = Deleters(e) /\ Calling(e)' = Calling(e)
    <3>1. e \notin writer[t].docs /\ e \notin writer'[t].docs
      BY <1>1, <1>5
    <3>2. WriterFits(t) /\ WriterFits(t)'
      BY <1>1 DEF Shape
    <3> QED BY <1>1, <3>1, <3>2, Elsewhere
  <2>2. \A points, p : p.doc = e => (p \in points <=> p \in Deleted(points, d))
    BY <1>5 DEF Deleted
  <2>3. /\ \A p : p.doc = e => (p \in primary <=> p \in primary')
        /\ \A p : p.doc = e => (p \in fallback <=> p \in fallback')
        /\ behind \subseteq behind'
    BY <1>2, <2>2 DEF CallIs
  <2> QED BY <1>1, <1>3, <1>4, <2>1, <2>3, Undisturbed
<1>6. CASE e = d
  <2>1. /\ Busy(d) = {t} /\ Busy(d)' \subseteq {t} /\ Deleters(d) # {}
        /\ Deleters(d)' # {} => writer'[t].at = "queue_delete"
        /\ (writer'[t].at = "queue_delete" /\ writer'[t].docs = {d}) => Deleters(d)' # {}
        /\ Deleters(d)' \subseteq Deleters(d)
        /\ Calling(d)' = Calling(d)
    <3>1. d \in writer[t].docs /\ InTurn(d)
      BY <1>1, <1>6 DEF Holds
    <3>2. /\ Busy(d) = {t} /\ Busy(d)' \subseteq {t}
          /\ Deleters(d) # {} <=> writer[t].at \in {"delete", "queue_delete"}
          /\ Deleters(d)' # {} <=>
               d \in writer'[t].docs /\ writer'[t].at \in {"delete", "queue_delete"}
          /\ \A p : p \in Calling(d) <=> p.doc = d /\ p \in writer[t].items \cup writer[t].failed
          /\ \A p : p \in Calling(d)' <=>
               p.doc = d /\ p \in writer'[t].items \cup writer'[t].failed
      BY <1>1, <3>1, OneCalls
    <3>3. Calling(d)' = Calling(d)
      BY <1>1, <3>2
    <3>4. Deleters(d)' \subseteq Deleters(d)
      BY <1>1, <3>2 DEF Deleters
    <3>5. writer'[t].at # "delete"
      BY <1>2
    <3> QED BY <1>1, <3>2, <3>3, <3>4, <3>5
  <2>2. InTurn(d)' /\ Stored(d)' = Stored(d)
    BY <1>1, <1>3, <1>6, <2>1, TurnStays DEF Holds
  <2>3. /\ InOutbox(d) = {} /\ Delivered(d)' = {} /\ OpenAt(DeleteEntry(d))' = {}
        /\ \A points : Follows(points, d) => \A p \in Stored(d) : p \in Calling(d)
    BY <1>3, <1>4, <1>6, <2>1, AllIsCalled, EntryFacts DEF Holds
  <2>4. ASSUME NEW points, NEW points2, Follows(points, d),
               Deleting(d)' \/ points2 = Deleted(points, d)
        PROVE  Mirrors(points2, Stored(d)', Pending(d)', Deleting(d)', Delivered(d)', d)
    <3>1. \A p \in Stored(d)' : p \in Pending(d)'
      BY <2>1, <2>2, <2>3, <2>4 DEF Pending
    <3>2. ~Deleting(d)' => Clean(points2, Stored(d)', d)
      BY <2>4 DEF Clean, Deleted
    <3> QED BY <2>3, <3>1, <3>2 DEF Mirrors
  <2>5. Follows(primary, d) /\ (d \notin behind => Follows(fallback, d))
    BY <1>6 DEF Holds
  <2>6. CASE writer'[t].at = "queue_delete"
    <3>1. Deleting(d)'
      BY <1>2, <2>1, <2>6 DEF Deleting
    <3>2. d \notin behind' => d \notin behind
      BY <1>2 DEF CallIs
    <3> QED BY <1>6, <2>2, <2>4, <2>5, <3>1, <3>2 DEF Follows, Holds
  <2>7. CASE writer'[t].at # "queue_delete"
    <3>1. /\ primary' = Deleted(primary, d)
          /\ d \notin behind' => d \notin behind /\ fallback' = Deleted(fallback, d)
      BY <1>2, <2>7 DEF CallIs
    <3>2. Mirrors(primary', Stored(d)', Pending(d)', Deleting(d)', Delivered(d)', d)
      BY <2>4, <2>5, <3>1
    <3>3. d \notin behind' =>
            Mirrors(fallback', Stored(d)', Pending(d)', Deleting(d)', Delivered(d)', d)
      BY <2>4, <2>5, <3>1
    <3> QED BY <1>6, <2>2, <3>2, <3>3 DEF Follows, Holds
  <2> QED BY <2>6, <2>7
<1> QED BY <1>5, <1>6

LEMMA QueueDeleteIs ==
  ASSUME Shape, NEW t \in Threads, NEW d \in Documents, QueueDelete(t, d)
  PROVE  /\ writer[t].at = "queue_delete" /\ writer[t].docs = {d}
         /\ UNCHANGED <<chunks, primary, fallback, task, bypassed, behind>>
         /\ Enqueue(DeleteEntry(d))
         /\ \A u \in Threads \ {t} : writer'[u] = writer[u]
         /\ writer'[t].items = writer[t].items
         /\ writer[t].failed = {} /\ writer'[t].failed = {}
         /\ writer'[t].docs \subseteq {d} /\ writer'[t].at \in {"idle", "upsert"}
         /\ Shape'
<1>1. /\ writer[t].at = "queue_delete" /\ writer[t].docs = {d}
      /\ UNCHANGED <<chunks, primary, fallback, task, bypassed, behind, writes, faults>>
      /\ Enqueue(DeleteEntry(d)) /\ Proceeds(t, writer[t].items)
  BY DEF QueueDelete
<1>2. writer \in [Threads -> WriterRow] /\ writer[t].items \in SUBSET Points
  BY WriterParts DEF Shape, Types
<1>3. writer[t].failed = {} /\ \A p \in writer[t].items : p.doc \in writer[t].docs
  BY <1>1 DEF Shape, WriterFits
<1>4. /\ writer' \in [Threads -> WriterRow]
      /\ Moved(t, Onward(t, writer[t].items))
      /\ writer'[t].items = writer[t].items /\ writer'[t].failed = {}
      /\ writer'[t].docs \subseteq {d} /\ writer'[t].at \in {"idle", "upsert"}
      /\ WriterFits(t)'
  BY <1>1, <1>2, <1>3, ProceedsFacts
<1>5. \A u \in Threads : WriterFits(u)'
  BY <1>4, MovedFits DEF Shape
<1>6. outbox \in Seq(OutboxRow) /\ DeleteEntry(d) \in Entries
  BY EntryFacts DEF Shape, Types
<1>7. outbox' \in Seq(OutboxRow) /\ TaskFits'
  BY <1>1, <1>6, EnqueueFacts, EnqueueOpens, TaskKeeps DEF Shape
<1>8. Shape'
  BY <1>1, <1>4, <1>5, <1>7 DEF Shape, Types
<1> QED BY <1>1, <1>3, <1>4, <1>8 DEF Moved

LEMMA QueueDeleteHolds ==
  ASSUME Shape, NEW t \in Threads, NEW d \in Documents, QueueDelete(t, d),
         NEW e \in Documents, Holds(e)
  PROVE  Holds(e)'
<1>1. /\ writer[t].at = "queue_delete" /\ writer[t].docs = {d}
      /\ UNCHANGED <<chunks, primary, fallback, task, bypassed, behind>>
      /\ Enqueue(DeleteEntry(d))
      /\ \A u \in Threads \ {t} : writer'[u] = writer[u]
      /\ writer'[t].items = writer[t].items
      /\ writer[t].failed = {} /\ writer'[t].failed = {}
      /\ writer'[t].docs \subseteq {d} /\ writer'[t].at \in {"idle", "upsert"}
      /\ Shape'
  BY QueueDeleteIs
<1>2. /\ \A n \in DOMAIN outbox : outbox'[n].entry = outbox[n].entry
      /\ \A x : x # DeleteEntry(d) => OpenAt(x)' = OpenAt(x)
      /\ OpenAt(DeleteEntry(d))' # {}
  BY <1>1, EntryFacts, EnqueueFacts DEF Shape, Types
<1>3. \A x : Delivered(x)' = Delivered(x)
  BY <1>1, <1>2, DeliveredStays
<1>4. CASE e # d
  <2>1. Busy(e)' = Busy(e) /\ Deleters(e)' = Deleters(e) /\ Calling(e)' = Calling(e)
    <3>1. e \notin writer[t].docs /\ e \notin writer'[t].docs
      BY <1>1, <1>4
    <3>2. WriterFits(t) /\ WriterFits(t)'
      BY <1>1 DEF Shape
    <3> QED BY <1>1, <3>1, <3>2, Elsewhere
  <2>2. \A x \in Entries : x.doc = e => OpenAt(x)' = OpenAt(x)
    BY <1>2, <1>4, EntryFacts
  <2> QED BY <1>1, <1>3, <2>1, <2>2, Undisturbed
<1>5. CASE e = d
  <2>1. /\ Busy(d)' \subseteq {t} /\ Deleters(d) # {} /\ Deleters(d)' = {}
        /\ Calling(d)' = Calling(d)
    <3>1. d \in writer[t].docs /\ InTurn(d)
      BY <1>1, <1>5 DEF Holds
    <3>2. /\ Busy(d) = {t} /\ Busy(d)' \subseteq {t}
          /\ Deleters(d) # {} <=> writer[t].at \in {"delete", "queue_delete"}
          /\ Deleters(d)' # {} <=>
               d \in writer'[t].docs /\ writer'[t].at \in {"delete", "queue_delete"}
          /\ \A p : p \in Calling(d) <=> p.doc = d /\ p \in writer[t].items \cup writer[t].failed
          /\ \A p : p \in Calling(d)' <=>
               p.doc = d /\ p \in writer'[t].items \cup writer'[t].failed
      BY <1>1, <3>1, OneCalls
    <3>3. Calling(d)' = Calling(d)
      BY <1>1, <3>2
    <3> QED BY <1>1, <3>2, <3>3
  <2>2. /\ InOutbox(d) = {} /\ Delivered(d)' = {}
        /\ \A points : Follows(points, d) => \A p \in Stored(d) : p \in Calling(d)
    BY <1>3, <1>5, <2>1, AllIsCalled DEF Holds
  <2>3. InOutbox(d)' = {}
    BY <1>2, <2>2, EntryFacts DEF InOutbox, UpsertEntry, DeleteEntry
  <2>4. Stored(d)' = Stored(d) /\ Pending(d)' = Calling(d) /\ Deleting(d)'
    BY <1>1, <1>2, <2>1, <2>3 DEF Stored, Pending, Deleting
  <2>5. InTurn(d)'
    <3>1. Calling(d) \subseteq Stored(d)
      BY <1>5, PendingIsStored DEF Holds
    <3> QED BY <2>1, <2>3, <2>4, <3>1 DEF InTurn
  <2>6. \A points : Follows(points, d) =>
          Mirrors(points, Stored(d)', Pending(d)', Deleting(d)', Delivered(d)', d)
    BY <2>2, <2>4 DEF Mirrors
  <2> QED BY <1>1, <1>5, <2>5, <2>6 DEF Follows, Holds
<1> QED BY <1>4, <1>5

LEMMA UpsertCallIs ==
  ASSUME Shape, NEW t \in Threads, NEW batch \in Batches(writer[t].items), UpsertCall(t, batch)
  PROVE  /\ writer[t].at = "upsert" /\ writer[t].failed = {}
         /\ batch \subseteq writer[t].items /\ batch \subseteq Points
         /\ UNCHANGED <<chunks, outbox, task>> /\ bypassed \subseteq bypassed'
         /\ \A u \in Threads \ {t} : writer'[u] = writer[u]
         /\ CallIs(Upserted(primary, batch), Upserted(fallback, batch), {p.doc : p \in batch})
         /\ writer'[t].items = writer[t].items \ batch
         /\ writer'[t].docs \subseteq writer[t].docs
         /\ writer'[t].at \in {"idle", "upsert", "queue"}
         /\ \/ /\ primary' = Upserted(primary, batch) /\ writer'[t].failed = {}
               /\ \A q \in batch : Overtakes(q) => q.doc \in bypassed'
            \/ writer'[t].failed = batch
         /\ Shape'
<1> DEFINE docs == {p.doc : p \in batch}  rest == writer[t].items \ batch
           first == Upserted(primary, batch)  second == Upserted(fallback, batch)
<1>1. /\ writer[t].at = "upsert" /\ UNCHANGED <<chunks, outbox, task, writes>>
  BY DEF UpsertCall
<1>2. /\ writer \in [Threads -> WriterRow] /\ writer[t].items \in SUBSET Points
      /\ batch \subseteq writer[t].items /\ batch \in SUBSET Points /\ rest \in SUBSET Points
  BY WriterParts, BatchIsPart DEF Shape, Types
<1>3. /\ writer[t].failed = {} /\ \A p \in writer[t].items : p.doc \in writer[t].docs
  BY <1>1 DEF Shape, WriterFits
<1>4. /\ first \in SUBSET Points /\ second \in SUBSET Points /\ docs \in SUBSET Documents
  <2>1. docs \in SUBSET Documents
    BY <1>2, PointFacts
  <2> QED BY <1>2, <2>1, CalledPoints DEF Shape, Types
<1>5. /\ TaskFits' /\ chunks' \in [Documents -> Bodies \cup {<<>>}] /\ outbox' \in Seq(OutboxRow)
      /\ task' \in TaskRow /\ writes' \in Nat
  BY <1>1, TaskKeeps DEF Shape, Types, Open
<1>6. \/ /\ Succeeds(first, second, docs) /\ Proceeds(t, rest)
         /\ bypassed' = bypassed \cup {p.doc : p \in {q \in batch : Overtakes(q)}}
      \/ /\ UpsertFails(first, second, docs)
         /\ Steps(t, "queue", rest, batch)
         /\ UNCHANGED bypassed
  BY DEF UpsertCall, Steps
<1>7. bypassed' \subseteq Documents /\ bypassed \subseteq bypassed'
      /\ (UNCHANGED bypassed \/ \A q \in batch : Overtakes(q) => q.doc \in bypassed')
  BY <1>2, <1>6, PointFacts DEF Shape, Types
<1> HIDE DEF docs, rest, first, second
<1>8. CASE /\ Succeeds(first, second, docs) /\ Proceeds(t, rest)
           /\ bypassed' = bypassed \cup {p.doc : p \in {q \in batch : Overtakes(q)}}
  <2>0. \A p \in rest : p.doc \in writer[t].docs
    BY <1>3 DEF rest
  <2>1. /\ writer' \in [Threads -> WriterRow]
        /\ Moved(t, Onward(t, rest))
        /\ writer'[t].items = rest /\ writer'[t].failed = {}
        /\ writer'[t].docs \subseteq writer[t].docs /\ writer'[t].at \in {"idle", "upsert"}
        /\ WriterFits(t)'
    BY <1>2, <1>8, <2>0, ProceedsFacts
  <2>2. CallIs(first, second, docs) /\ primary' = first
    BY <1>8, Calls
  <2>3. /\ primary' \subseteq Points /\ fallback' \subseteq Points
        /\ behind' \subseteq Documents /\ faults' \in Nat
    BY <1>4, <1>8, CallTypes DEF Shape
  <2>4. \A u \in Threads : WriterFits(u)'
    BY <2>1, MovedFits DEF Shape
  <2>5. Shape'
    BY <1>5, <1>7, <2>1, <2>3, <2>4 DEF Shape, Types
  <2>6. \A q \in batch : Overtakes(q) => q.doc \in bypassed'
    BY <1>8
  <2>7. \A u \in Threads \ {t} : writer'[u] = writer[u]
    BY <2>1 DEF Moved
  <2> QED BY <1>1, <1>2, <1>3, <1>7, <2>1, <2>2, <2>5, <2>6, <2>7 DEF docs, rest, first, second
<1>9. CASE /\ UpsertFails(first, second, docs)
           /\ Steps(t, "queue", rest, batch)
           /\ UNCHANGED bypassed
  <2>1. /\ writer' \in [Threads -> WriterRow]
        /\ \E row : Moved(t, row)
        /\ \A u \in Threads \ {t} : writer'[u] = writer[u]
        /\ writer'[t].at = "queue" /\ writer'[t].docs = writer[t].docs
        /\ writer'[t].items = rest /\ writer'[t].failed = batch
    BY <1>2, <1>9, RowAt
  <2>2. WriterFits(t)'
    <3>1. \A p \in rest \cup batch : p.doc \in writer[t].docs
      BY <1>2, <1>3 DEF rest
    <3> QED BY <2>1, <3>1 DEF WriterFits
  <2>3. \A u \in Threads : WriterFits(u)'
    BY <2>1, <2>2, MovedFits DEF Shape
  <2>4. /\ primary' \subseteq Points /\ fallback' \subseteq Points
        /\ behind' \subseteq Documents /\ faults' \in Nat
    BY <1>4, <1>9, CallTypes DEF Shape
  <2>5. Shape'
    BY <1>5, <1>7, <2>1, <2>3, <2>4 DEF Shape, Types
  <2>6. CallIs(first, second, docs)
    BY <1>9, Calls
  <2> QED BY <1>1, <1>2, <1>3, <1>7, <2>1, <2>5, <2>6 DEF docs, rest, first, second
<1> QED BY <1>6, <1>8, <1>9

LEMMA UpsertCallHolds ==
  ASSUME Shape, NEW t \in Threads, NEW batch \in Batches(writer[t].items), UpsertCall(t, batch),
         NEW e \in Documents \ bypassed', Holds(e)
  PROVE  Holds(e)'
<1>1. /\ writer[t].at = "upsert" /\ writer[t].failed = {}
      /\ batch \subseteq writer[t].items /\ batch \subseteq Points
      /\ UNCHANGED <<chunks, outbox, task>>
      /\ \A u \in Threads \ {t} : writer'[u] = writer[u]
      /\ writer'[t].items = writer[t].items \ batch
      /\ writer'[t].docs \subseteq writer[t].docs
      /\ writer'[t].at \in {"idle", "upsert", "queue"}
      /\ Shape'
  BY UpsertCallIs
<1>2. /\ CallIs(Upserted(primary, batch), Upserted(fallback, batch), {p.doc : p \in batch})
      /\ \/ /\ primary' = Upserted(primary, batch) /\ writer'[t].failed = {}
            /\ \A q \in batch : Overtakes(q) => q.doc \in bypassed'
         \/ writer'[t].failed = batch
  BY UpsertCallIs
<1>3. \A x : OpenAt(x)' = OpenAt(x)
  BY <1>1 DEF OpenAt, Open
<1>4. \A x : Delivered(x)' = Delivered(x)
  BY <1>1, DeliveredStays
<1>5. /\ primary' \in {primary, Upserted(primary, batch)} /\ behind \subseteq behind'
      /\ \/ fallback' = Upserted(fallback, batch)
         \/ fallback' = fallback /\ \A p \in batch : p.doc \in behind'
  BY <1>2 DEF CallIs
<1>6. CASE e \notin writer[t].docs
  <2>1. Busy(e)' = Busy(e) /\ Deleters(e)' = Deleters(e) /\ Calling(e)' = Calling(e)
    <3>1. WriterFits(t) /\ WriterFits(t)'
      BY <1>1 DEF Shape
    <3> QED BY <1>1, <1>6, <3>1, Elsewhere
  <2>2. \A q \in batch : q.doc # e
    BY <1>1, <1>6 DEF Shape, WriterFits
  <2>3. \A points, p : p.doc = e => (p \in points <=> p \in Upserted(points, batch))
    BY <2>2 DEF Upserted, SameSlot
  <2>4. /\ \A p : p.doc = e => (p \in primary <=> p \in primary')
        /\ \A p : p.doc = e => (p \in fallback <=> p \in fallback')
    BY <1>5, <2>3
  <2> QED BY <1>1, <1>3, <1>4, <1>5, <2>1, <2>4, Undisturbed
<1>7. CASE e \in writer[t].docs
  <2>1. /\ Busy(e) = {t} /\ Busy(e)' \subseteq {t} /\ Deleters(e) = {} /\ Deleters(e)' = {}
        /\ \A p : p \in Calling(e) <=> p.doc = e /\ p \in writer[t].items
        /\ \A p : p \in Calling(e)' <=>
             p.doc = e /\ p \in writer'[t].items \cup writer'[t].failed
    <3>1. /\ Busy(e) = {t} /\ Busy(e)' \subseteq {t}
          /\ Deleters(e) # {} <=> writer[t].at \in {"delete", "queue_delete"}
          /\ Deleters(e)' # {} <=>
               e \in writer'[t].docs /\ writer'[t].at \in {"delete", "queue_delete"}
          /\ \A p : p \in Calling(e) <=> p.doc = e /\ p \in writer[t].items \cup writer[t].failed
          /\ \A p : p \in Calling(e)' <=>
               p.doc = e /\ p \in writer'[t].items \cup writer'[t].failed
      BY <1>1, <1>7, OneCalls DEF Holds
    <3> QED BY <1>1, <3>1
  <2>2. Calling(e)' \subseteq Calling(e)
    BY <1>1, <1>2, <2>1
  <2>3. InTurn(e)' /\ Stored(e)' = Stored(e)
    BY <1>1, <1>3, <2>1, <2>2, TurnStays DEF Holds
  <2>4. InOutbox(e)' = InOutbox(e) /\ (Deleting(e)' <=> Deleting(e))
    BY <1>3, <2>1, InOutboxSame DEF Deleting
  <2>5. /\ \A q \in batch : q.doc = e => q \in Stored(e)
        /\ \A p \in Stored(e) : p.doc = e
        /\ \A p, q \in Stored(e) : SameSlot(p, q) => p = q
        /\ \A x \in Delivered(e) : x.op = "upsert" => x.item \in Stored(e)
    <3>1. InTurn(e)
      BY DEF Holds
    <3>2. \A q \in batch : q.doc = e => q \in Stored(e)
      BY <1>1, <2>1, <3>1, PendingIsStored
    <3>3. \A x \in Delivered(e) : x.op = "upsert" => x.item \in Stored(e)
      BY <3>1, DeliveredFacts, PendingIsStored
    <3> QED BY <3>2, <3>3, StoredFacts DEF Shape, Types
  <2>6. ASSUME NEW points, Mirrors(points, Stored(e), Pending(e), Deleting(e), Delivered(e), e),
               \A p \in Calling(e) : p \in Calling(e)' \/ (p \in points /\ ~Deleting(e))
        PROVE  Mirrors(points, Stored(e)', Pending(e)', Deleting(e)', Delivered(e)', e)
    <3>1. \A p \in Pending(e) : p \in Pending(e)' \/ (p \in points /\ ~Deleting(e)')
      BY <2>4, <2>6 DEF Pending
    <3> QED BY <1>4, <2>3, <2>4, <2>6, <3>1 DEF Mirrors
  \* Having made the call.
  <2>7. ASSUME NEW points, Follows(points, e)
        PROVE  Mirrors(Upserted(points, batch), Stored(e)', Pending(e)', Deleting(e)',
                       Delivered(e)', e)
    <3>1. Mirrors(Upserted(points, batch), Stored(e), Pending(e), Deleting(e), Delivered(e), e)
      <4>1. Deleting(e) \in BOOLEAN
        BY DEF Deleting
      <4>2. Mirrors(points, Stored(e), Pending(e), Deleting(e), Delivered(e), e)
        BY <2>7 DEF Follows
      <4> QED BY <2>5, <4>1, <4>2, UpsertedMirrors
    <3>2. ASSUME NEW p \in Calling(e), p \notin Calling(e)'
          PROVE  p \in Upserted(points, batch) /\ ~Deleting(e)
      <4>1. p \in batch /\ p.doc = e
        BY <1>1, <2>1, <3>2
      <4>2. ~Overtakes(p)
        BY <1>1, <1>2, <2>1, <3>2, <4>1
      <4>3. OpenAt(DeleteEntry(e)) = {}
        BY <4>1, <4>2 DEF Overtakes, OpenAt
      <4> QED BY <2>1, <4>1, <4>3 DEF Deleting, Upserted
    <3> QED BY <2>6, <3>1, <3>2
  \* Having failed, or having had nothing to call about.
  <2>8. ASSUME NEW points, Follows(points, e),
               writer'[t].failed = batch \/ \A p \in batch : p.doc # e
        PROVE  Mirrors(points, Stored(e)', Pending(e)', Deleting(e)', Delivered(e)', e)
    <3>1. \A p \in Calling(e) : p \in Calling(e)'
      BY <1>1, <2>1, <2>8
    <3> QED BY <2>6, <2>8, <3>1 DEF Follows
  <2>9. Mirrors(primary', Stored(e)', Pending(e)', Deleting(e)', Delivered(e)', e)
    BY <1>2, <1>5, <2>7, <2>8 DEF Holds
  <2>10. e \notin behind' =>
           Mirrors(fallback', Stored(e)', Pending(e)', Deleting(e)', Delivered(e)', e)
    BY <1>5, <2>7, <2>8 DEF Holds
  <2> QED BY <2>3, <2>9, <2>10 DEF Follows, Holds
<1> QED BY <1>6, <1>7

LEMMA QueueItemIs ==
  ASSUME Shape, NEW t \in Threads, NEW item \in writer[t].failed, QueueItem(t, item)
  PROVE  /\ writer[t].at = "queue" /\ item \in Points /\ item.doc \in writer[t].docs
         /\ UNCHANGED <<chunks, primary, fallback, task, behind>>
         /\ Enqueue(UpsertEntry(item))
         /\ bypassed \subseteq bypassed'
         /\ Position(UpsertEntry(item)) = {} \/ item.doc \in bypassed'
         /\ \A u \in Threads \ {t} : writer'[u] = writer[u]
         /\ writer'[t].items = writer[t].items
         /\ writer'[t].failed = writer[t].failed \ {item}
         /\ writer'[t].docs \subseteq writer[t].docs
         /\ writer'[t].at \in {"idle", "upsert", "queue"}
         /\ Shape'
<1> DEFINE left == writer[t].failed \ {item}  entry == UpsertEntry(item)
<1>1. /\ writer \in [Threads -> WriterRow] /\ writer[t].items \in SUBSET Points
      /\ item \in Points /\ left \in SUBSET Points
  BY WriterParts DEF Shape, Types
<1>2. \A p \in writer[t].items \cup writer[t].failed : p.doc \in writer[t].docs
  BY DEF Shape, WriterFits
<1>3. /\ entry \in Entries /\ entry.doc = item.doc /\ item.doc \in Documents
  BY <1>1, EntryFacts, PointFacts
<1>4. /\ writer[t].at = "queue"
      /\ UNCHANGED <<chunks, primary, fallback, task, behind, writes, faults>>
      /\ Enqueue(entry)
      /\ bypassed' = IF Position(entry) = {} THEN bypassed ELSE bypassed \cup {entry.doc}
  BY DEF QueueItem
<1>5. \/ left = {} /\ Proceeds(t, writer[t].items)
      \/ Steps(t, "queue", writer[t].items, left)
  <2>1. IF left = {} THEN Proceeds(t, writer[t].items)
        ELSE writer' = [writer EXCEPT ![t].failed = left]
    BY DEF QueueItem
  <2>2. CASE left = {}
    BY <2>1, <2>2
  <2>3. CASE left # {}
    <3>1. writer' = [writer EXCEPT ![t].failed = left]
      BY <2>1, <2>3
    <3> HIDE DEF left
    <3> QED BY <1>1, <1>4, <3>1, StepsOf
  <2> QED BY <2>2, <2>3
<1>6. /\ bypassed' \subseteq Documents /\ bypassed \subseteq bypassed'
      /\ Position(entry) = {} \/ item.doc \in bypassed'
  BY <1>3, <1>4 DEF Shape, Types
<1>7. outbox' \in Seq(OutboxRow) /\ TaskFits'
  BY <1>3, <1>4, EnqueueFacts, EnqueueOpens, TaskKeeps DEF Shape, Types
<1> HIDE DEF left, entry
<1>8. /\ writer' \in [Threads -> WriterRow]
      /\ \E row : Moved(t, row)
      /\ writer'[t].items = writer[t].items /\ writer'[t].failed = left
      /\ writer'[t].docs \subseteq writer[t].docs
      /\ writer'[t].at \in {"idle", "upsert", "queue"}
      /\ WriterFits(t)'
  <2>1. CASE left = {} /\ Proceeds(t, writer[t].items)
    BY <1>1, <1>2, <2>1, ProceedsFacts
  <2>2. CASE Steps(t, "queue", writer[t].items, left)
    <3>1. /\ writer' \in [Threads -> WriterRow]
          /\ \E row : Moved(t, row)
          /\ writer'[t].at = "queue" /\ writer'[t].docs = writer[t].docs
          /\ writer'[t].items = writer[t].items /\ writer'[t].failed = left
      BY <1>1, <2>2, RowAt
    <3>2. \A p \in writer[t].items \cup left : p.doc \in writer[t].docs
      BY <1>2 DEF left
    <3>3. WriterFits(t)'
      BY <3>1, <3>2 DEF WriterFits
    <3> QED BY <3>1, <3>3
  <2> QED BY <1>5, <2>1, <2>2
<1>9. (\A u \in Threads : WriterFits(u)') /\ \A u \in Threads \ {t} : writer'[u] = writer[u]
  BY <1>8, MovedFits DEF Shape, Moved
<1>10. Shape'
  BY <1>4, <1>6, <1>7, <1>8, <1>9 DEF Shape, Types
<1> QED BY <1>1, <1>2, <1>4, <1>6, <1>8, <1>9, <1>10 DEF left, entry

LEMMA QueueItemHolds ==
  ASSUME Shape, NEW t \in Threads, NEW item \in writer[t].failed, QueueItem(t, item),
         NEW e \in Documents \ bypassed', Holds(e)
  PROVE  Holds(e)'
<1> DEFINE entry == UpsertEntry(item)
<1>1. /\ writer[t].at = "queue" /\ item \in Points /\ item.doc \in writer[t].docs
      /\ UNCHANGED <<chunks, primary, fallback, task, behind>>
      /\ Enqueue(entry)
      /\ Position(entry) = {} \/ item.doc \in bypassed'
      /\ \A u \in Threads \ {t} : writer'[u] = writer[u]
      /\ writer'[t].items = writer[t].items
      /\ writer'[t].failed = writer[t].failed \ {item}
      /\ writer'[t].docs \subseteq writer[t].docs
      /\ writer'[t].at \in {"idle", "upsert", "queue"}
      /\ Shape'
  BY QueueItemIs
<1>2. entry \in Entries /\ entry.doc = item.doc /\ outbox \in Seq(OutboxRow)
  BY <1>1, EntryFacts DEF Shape, Types
<1>3. /\ \A n \in DOMAIN outbox : outbox'[n].entry = outbox[n].entry
      /\ \A x : x # entry => OpenAt(x)' = OpenAt(x)
      /\ OpenAt(entry)' # {}
      /\ Position(entry) = {} => \A n \in OpenAt(entry)', m \in DOMAIN outbox : m < n
  <2> HIDE DEF entry
  <2> QED BY <1>1, <1>2, EnqueueFacts
<1>4. \A x : Delivered(x)' = Delivered(x)
  BY <1>1, <1>3, DeliveredStays
<1>5. CASE e \notin writer[t].docs
  <2>1. Busy(e)' = Busy(e) /\ Deleters(e)' = Deleters(e) /\ Calling(e)' = Calling(e)
    <3>1. WriterFits(t) /\ WriterFits(t)'
      BY <1>1 DEF Shape
    <3> QED BY <1>1, <1>5, <3>1, Elsewhere
  <2>2. \A x \in Entries : x.doc = e => OpenAt(x)' = OpenAt(x)
    BY <1>1, <1>2, <1>3, <1>5
  <2> QED BY <1>1, <1>4, <2>1, <2>2, Undisturbed
<1>6. ASSUME e \in writer[t].docs
      PROVE  /\ Busy(e) = {t} /\ Busy(e)' \subseteq {t} /\ Deleters(e) = {} /\ Deleters(e)' = {}
             /\ \A p : p \in Calling(e) <=>
                  p.doc = e /\ p \in writer[t].items \cup writer[t].failed
             /\ \A p : p \in Calling(e)' <=>
                  p.doc = e /\ p \in writer'[t].items \cup writer'[t].failed
  <2>1. /\ Busy(e) = {t} /\ Busy(e)' \subseteq {t}
        /\ Deleters(e) # {} <=> writer[t].at \in {"delete", "queue_delete"}
        /\ Deleters(e)' # {} <=>
             e \in writer'[t].docs /\ writer'[t].at \in {"delete", "queue_delete"}
        /\ \A p : p \in Calling(e) <=> p.doc = e /\ p \in writer[t].items \cup writer[t].failed
        /\ \A p : p \in Calling(e)' <=>
             p.doc = e /\ p \in writer'[t].items \cup writer'[t].failed
    BY <1>1, <1>6, OneCalls DEF Holds
  <2> QED BY <1>1, <2>1
<1>7. CASE e \in writer[t].docs /\ e # item.doc
  <2>1. Busy(e)' \subseteq Busy(e) /\ Deleters(e)' = Deleters(e)
    BY <1>6, <1>7
  <2>2. Calling(e)' = Calling(e)
    BY <1>1, <1>6, <1>7
  <2>3. \A x \in Entries : x.doc = e => OpenAt(x)' = OpenAt(x)
    BY <1>2, <1>3, <1>7
  <2> QED BY <1>1, <1>4, <2>1, <2>2, <2>3, Undisturbed
<1>8. CASE e = item.doc
  <2>1. Position(entry) = {} /\ e \in writer[t].docs
    BY <1>1, <1>8
  <2>2. /\ Busy(e)' \subseteq {t} /\ Deleters(e) = {} /\ Deleters(e)' = {}
        /\ \A p : p \in Calling(e)' \cup {item} <=> p \in Calling(e)
    BY <1>1, <1>6, <1>8, <2>1
  <2>3. \A p \in Points : p # item => OpenAt(UpsertEntry(p))' = OpenAt(UpsertEntry(p))
    BY <1>1, <1>3, EntryFacts
  <2>4. \A p : p \in InOutbox(e)' <=> p \in InOutbox(e) \/ p = item
    BY <1>1, <1>3, <1>8, <2>3 DEF InOutbox
  <2>5. Pending(e)' = Pending(e)
    BY <2>2, <2>4 DEF Pending
  <2>6. OpenAt(DeleteEntry(e))' = OpenAt(DeleteEntry(e))
    BY <1>3 DEF DeleteEntry, UpsertEntry
  <2>7. Stored(e)' = Stored(e) /\ (Deleting(e)' <=> Deleting(e))
    BY <1>1, <2>2, <2>6 DEF Stored, Deleting
  <2>8. InTurn(e)'
    <3>1. Pending(e)' \subseteq Stored(e)'
      BY <2>5, <2>7 DEF Holds, InTurn
    <3>2. ASSUME NEW p \in InOutbox(e)',
                 NEW n \in OpenAt(UpsertEntry(p))', NEW m \in OpenAt(DeleteEntry(e))'
          PROVE  m < n
      <4>1. m \in OpenAt(DeleteEntry(e)) /\ m \in DOMAIN outbox
        BY <2>6 DEF OpenAt
      <4>2. CASE p = item
        BY <1>3, <2>1, <4>1, <4>2
      <4>3. CASE p # item
        <5>1. p \in InOutbox(e) /\ p \in Points
          BY <2>4, <4>3 DEF InOutbox
        <5>2. n \in OpenAt(UpsertEntry(p))
          BY <2>3, <4>3, <5>1
        <5> QED BY <4>1, <5>1, <5>2 DEF Holds, InTurn
      <4> QED BY <4>2, <4>3
    <3> QED BY <2>2, <3>1, <3>2 DEF InTurn
  <2>9. \A points : Follows(points, e) =>
          Mirrors(points, Stored(e)', Pending(e)', Deleting(e)', Delivered(e)', e)
    BY <1>4, <2>5, <2>7 DEF Follows, Mirrors
  <2> QED BY <1>1, <2>8, <2>9 DEF Follows, Holds
<1> QED BY <1>5, <1>7, <1>8

-----------------------------------------------------------------------------
(* The retry task, the clean-up and the faults.                             *)

LEMMA SameWriters ==
  ASSUME UNCHANGED writer, NEW d
  PROVE  Busy(d)' = Busy(d) /\ Deleters(d)' = Deleters(d) /\ Calling(d)' = Calling(d)
BY DEF Busy, Deleters, Calling

LEMMA SameWriterFits ==
  ASSUME UNCHANGED writer, \A t \in Threads : WriterFits(t)
  PROVE  \A t \in Threads : WriterFits(t)'
BY DEF WriterFits

\* Only states of the outbox and the place of the task change.
LEMMA OnlyStates ==
  ASSUME Shape, Shape', UNCHANGED <<chunks, primary, fallback, writer, behind>>,
         NEW d \in Documents, Holds(d),
         \A e \in Entries : e.doc = d => OpenAt(e)' = OpenAt(e),
         Delivered(d)' \subseteq Delivered(d)
  PROVE  Holds(d)'
BY SameWriters, Undisturbed

LEMMA ClaimIs ==
  ASSUME Shape, NEW expired, Claim(expired)
  PROVE  /\ UNCHANGED <<chunks, primary, fallback, writer, bypassed, behind>>
         /\ \A e : OpenAt(e)' = OpenAt(e)
         /\ task'.at = "call"
         /\ Shape'
<1> DEFINE rows == Claimable(expired)
<1>1. /\ UNCHANGED <<chunks, primary, fallback, writer, bypassed, behind, writes, faults>>
      /\ task' = [at |-> "call", rows |-> rows, row |-> 0, ok |-> FALSE]
      /\ outbox' = [n \in DOMAIN outbox |->
                      IF n \in rows THEN [outbox[n] EXCEPT !.state = "claimed"]
                      ELSE outbox[n]]
  BY DEF Claim, Claimed
<1>2. rows \subseteq DOMAIN outbox /\ (\A n \in rows : Open(n)) /\ outbox \in Seq(OutboxRow)
  BY DEF Claimable, Open, Shape, Types
<1> HIDE DEF rows
<1>3. outbox' = [n \in DOMAIN outbox |->
                   IF n \in rows THEN [entry |-> outbox[n].entry, state |-> "claimed"]
                   ELSE outbox[n]]
  <2>1. \A n \in DOMAIN outbox : outbox[n] \in OutboxRow
    BY <1>2, RowFacts
  <2>2. \A n \in DOMAIN outbox :
          [outbox[n] EXCEPT !.state = "claimed"] = [entry |-> outbox[n].entry, state |-> "claimed"]
    BY <2>1, RowWithState
  <2> QED BY <1>1, <2>2
<1>4. outbox' \in Seq(OutboxRow) /\ Restated(rows, {"claimed"})
  BY <1>2, <1>3, StateOf
<1>5. \A e : OpenAt(e)' = OpenAt(e)
  BY <1>2, <1>4, RestatedOpens
<1>6. task' \in TaskRow /\ task'.at = "call" /\ task'.rows = rows
  <2>1. rows \subseteq Nat
    BY <1>2, RowFacts
  <2> QED BY <1>1, <2>1 DEF TaskRow
<1>7. \A n \in rows : n \in DOMAIN outbox' /\ Open(n)'
  BY <1>2, <1>4 DEF Restated, Open
<1>8. TaskFits'
  BY <1>6, <1>7 DEF TaskFits
<1>9. \A t \in Threads : WriterFits(t)'
  BY <1>1, SameWriterFits DEF Shape
<1>10. Shape'
  BY <1>1, <1>4, <1>6, <1>8, <1>9 DEF Shape, Types
<1> QED BY <1>1, <1>5, <1>6, <1>10

LEMMA ClaimHolds ==
  ASSUME Shape, NEW expired, Claim(expired), NEW d \in Documents, Holds(d)
  PROVE  Holds(d)'
<1>1. /\ UNCHANGED <<chunks, primary, fallback, writer, bypassed, behind>>
      /\ \A e : OpenAt(e)' = OpenAt(e)
      /\ task'.at = "call"
      /\ Shape'
  BY ClaimIs
<1>2. Delivered(d)' = {}
  BY <1>1 DEF Delivered
<1> QED BY <1>1, <1>2, OnlyStates

LEMMA RetryCallIs ==
  ASSUME Shape, NEW n, RetryCall(n)
  PROVE  LET entry == outbox[n].entry
         IN /\ UNCHANGED <<chunks, outbox, writer, bypassed>>
            /\ task.at = "call" /\ n \in task.rows /\ n \in DOMAIN outbox /\ Open(n)
            /\ entry \in Entries
            /\ task'.at = "mark" /\ task'.row = n
            /\ behind \subseteq behind'
            /\ \/ /\ primary' = Effect(primary, entry)
                  /\ CallIs(Effect(primary, entry), Effect(fallback, entry), {entry.doc})
                  /\ task'.ok = TRUE
               \/ /\ entry.op = "delete" /\ task'.ok = FALSE
                  /\ primary' \in {primary, Effect(primary, entry)}
                  /\ UNCHANGED <<fallback, behind>>
               \/ /\ entry.op # "delete" /\ task'.ok = FALSE
                  /\ CallIs(Effect(primary, entry), Effect(fallback, entry), {entry.doc})
            /\ Shape'
<1> DEFINE entry == outbox[n].entry
           first == Effect(primary, entry)  second == Effect(fallback, entry)
           Answered(ok) == task' = [at |-> "mark", rows |-> task.rows, row |-> n, ok |-> ok]
<1>1. /\ UNCHANGED <<chunks, outbox, writer, bypassed, writes>>
      /\ task.at = "call" /\ n \in task.rows
      /\ \/ Succeeds(first, second, {entry.doc}) /\ Answered(TRUE)
         \/ entry.op = "delete" /\ DeleteFails(first) /\ Answered(FALSE)
         \/ entry.op # "delete" /\ UpsertFails(first, second, {entry.doc}) /\ Answered(FALSE)
  BY DEF RetryCall
<1>2. n \in DOMAIN outbox /\ Open(n)
  BY <1>1 DEF Shape, TaskFits
<1>3. /\ entry \in Entries /\ {entry.doc} \in SUBSET Documents /\ n \in Nat
  BY <1>2, RowFacts, EntryShape DEF Shape, Types
<1>4. first \in SUBSET Points /\ second \in SUBSET Points
  BY <1>3, CalledPoints DEF Shape, Types
<1> HIDE DEF entry, first, second
<1>5. /\ primary' \subseteq Points /\ fallback' \subseteq Points
      /\ behind' \subseteq Documents /\ behind \subseteq behind' /\ faults' \in Nat
  BY <1>1, <1>3, <1>4, CallTypes DEF Shape
<1>6. \E ok \in BOOLEAN : Answered(ok)
  BY <1>1
<1>7. task' \in TaskRow /\ task'.at = "mark" /\ task'.row = n /\ task'.rows = task.rows
  <2>1. task.rows \in SUBSET Nat
    BY DEF Shape, Types, TaskRow
  <2>2. PICK ok \in BOOLEAN : Answered(ok)
    BY <1>6
  <2> QED BY <1>3, <2>1, <2>2 DEF TaskRow
<1>8. TaskFits'
  BY <1>1, <1>7 DEF Shape, TaskFits, Open
<1>9. \A t \in Threads : WriterFits(t)'
  BY <1>1, SameWriterFits DEF Shape
<1>10. Shape'
  BY <1>1, <1>5, <1>7, <1>8, <1>9 DEF Shape, Types
<1>11. \/ /\ primary' = first /\ CallIs(first, second, {entry.doc}) /\ task'.ok = TRUE
       \/ /\ entry.op = "delete" /\ task'.ok = FALSE /\ primary' \in {primary, first}
          /\ UNCHANGED <<fallback, behind>>
       \/ /\ entry.op # "delete" /\ task'.ok = FALSE
          /\ CallIs(first, second, {entry.doc})
  <2>1. CASE Succeeds(first, second, {entry.doc}) /\ Answered(TRUE)
    BY <2>1, Calls
  <2>2. CASE entry.op = "delete" /\ DeleteFails(first) /\ Answered(FALSE)
    BY <2>2 DEF DeleteFails
  <2>3. CASE entry.op # "delete" /\ UpsertFails(first, second, {entry.doc}) /\ Answered(FALSE)
    BY <2>3, Calls
  <2> QED BY <1>1, <2>1, <2>2, <2>3
<1> QED BY <1>1, <1>2, <1>3, <1>5, <1>7, <1>10, <1>11 DEF entry, first, second

\* A call about one document does nothing to the others.
LEMMA EffectElsewhere ==
  ASSUME NEW entry \in Entries, NEW d, d # entry.doc
  PROVE  \A points, p : p.doc = d => (p \in points <=> p \in Effect(points, entry))
<1>1. CASE entry.op = "delete"
  BY <1>1 DEF Effect, Deleted
<1>2. CASE entry.op # "delete"
  <2>1. entry.item.doc = entry.doc
    BY <1>2, EntryShape
  <2> QED BY <1>2, <2>1 DEF Effect, Upserted, SameSlot
<1> QED BY <1>1, <1>2

LEMMA RetryCallHolds ==
  ASSUME Shape, NEW n, RetryCall(n), NEW d \in Documents, Holds(d)
  PROVE  Holds(d)'
<1> DEFINE entry == outbox[n].entry
<1>1. /\ UNCHANGED <<chunks, outbox, writer, bypassed>>
      /\ task.at = "call" /\ n \in DOMAIN outbox /\ Open(n) /\ entry \in Entries
      /\ task'.at = "mark" /\ task'.row = n /\ behind \subseteq behind' /\ Shape'
  BY RetryCallIs
<1>2. \/ /\ primary' = Effect(primary, entry)
         /\ CallIs(Effect(primary, entry), Effect(fallback, entry), {entry.doc})
         /\ task'.ok = TRUE
      \/ /\ entry.op = "delete" /\ task'.ok = FALSE
         /\ primary' \in {primary, Effect(primary, entry)}
         /\ UNCHANGED <<fallback, behind>>
      \/ /\ entry.op # "delete" /\ task'.ok = FALSE
         /\ CallIs(Effect(primary, entry), Effect(fallback, entry), {entry.doc})
  BY RetryCallIs
<1>3. /\ \A x : OpenAt(x)' = OpenAt(x)
      /\ Delivered(d) = {}
      /\ Delivered(d)' = IF task'.ok /\ entry.doc = d THEN {entry} ELSE {}
      /\ n \in OpenAt(entry)
  BY <1>1 DEF OpenAt, Open, Delivered
<1> HIDE DEF entry
<1>4. CASE d # entry.doc
  <2>1. \A points, p : p.doc = d => (p \in points <=> p \in Effect(points, entry))
    BY <1>1, <1>4, EffectElsewhere
  <2>2. /\ \A p : p.doc = d => (p \in primary <=> p \in primary')
        /\ \A p : p.doc = d => (p \in fallback <=> p \in fallback')
    BY <1>2, <2>1 DEF CallIs
  <2>3. Delivered(d)' = {}
    BY <1>3, <1>4
  <2> QED BY <1>1, <1>3, <2>2, <2>3, SameWriters, Undisturbed
<1>5. CASE d = entry.doc
  <2>1. /\ InTurn(d)' /\ Stored(d)' = Stored(d)
        /\ InOutbox(d)' = InOutbox(d) /\ Calling(d)' = Calling(d)
        /\ Deleters(d)' = Deleters(d)
    BY <1>1, <1>3, SameWriters, TurnStays, InOutboxSame DEF Holds
  <2>2. Pending(d)' = Pending(d) /\ (Deleting(d)' <=> Deleting(d))
    BY <1>3, <2>1 DEF Pending, Deleting
  <2>3. ASSUME NEW points, Follows(points, d)
        PROVE  Mirrors(Effect(points, entry), Stored(d)', Pending(d)', Deleting(d)',
                       Delivered(d)', d)
    <3>1. Mirrors(points, Stored(d), Pending(d), Deleting(d), {}, d)
      BY <1>3, <2>3 DEF Follows
    <3>2. CASE entry.op = "delete"
      <4>1. entry = DeleteEntry(d) /\ Effect(points, entry) = Deleted(points, d)
        BY <1>1, <1>5, <3>2, EntryShape DEF Effect
      <4>2. Deleting(d)
        BY <1>3, <4>1 DEF Deleting
      <4>3. \A p \in Stored(d) : p \in Pending(d)
        BY <3>1, <4>2 DEF Mirrors
      <4>4. Clean(Deleted(points, d), Stored(d), d)
        BY DEF Clean, Deleted
      <4>5. \A x \in Delivered(d)' : x.op = "delete"
        BY <1>3, <3>2
      <4> QED BY <2>1, <2>2, <4>1, <4>2, <4>3, <4>4, <4>5 DEF Mirrors
    <3>3. CASE entry.op # "delete"
      <4>1. /\ entry.item \in Points /\ entry = UpsertEntry(entry.item)
            /\ entry.item.doc = d /\ entry.op = "upsert"
            /\ Effect(points, entry) = Upserted(points, {entry.item})
        BY <1>1, <1>5, <3>3, EntryShape DEF Effect
      <4>2. entry.item \in InOutbox(d)
        BY <1>3, <4>1 DEF InOutbox
      <4>3. entry.item \in Stored(d)
        BY <4>2, PendingIsStored DEF Holds
      <4>4. Mirrors(Effect(points, entry), Stored(d), Pending(d), Deleting(d), {}, d)
        <5>1. /\ \A p \in Stored(d) : p.doc = d
              /\ \A p, q \in Stored(d) : SameSlot(p, q) => p = q
          BY StoredFacts DEF Shape, Types
        <5>2. \A q \in {entry.item} : q.doc = d => q \in Stored(d)
          BY <4>3
        <5>3. Deleting(d) \in BOOLEAN
          BY DEF Deleting
        <5>4. Mirrors(Upserted(points, {entry.item}), Stored(d), Pending(d), Deleting(d), {}, d)
          BY <3>1, <5>1, <5>2, <5>3, UpsertedMirrors
        <5> QED BY <4>1, <5>4
      <4>5. entry.item \in Effect(points, entry) /\ entry # DeleteEntry(d)
        BY <4>1 DEF Upserted, DeleteEntry
      <4>6. \A x \in Delivered(d)' : x = entry
        BY <1>3
      <4> QED BY <2>1, <2>2, <4>4, <4>5, <4>6 DEF Mirrors
    <3> QED BY <3>2, <3>3
  <2>4. ASSUME NEW points, Follows(points, d), task'.ok = FALSE
        PROVE  Mirrors(points, Stored(d)', Pending(d)', Deleting(d)', Delivered(d)', d)
    BY <1>3, <2>1, <2>2, <2>4 DEF Follows, Mirrors
  <2>5. Mirrors(primary', Stored(d)', Pending(d)', Deleting(d)', Delivered(d)', d)
    BY <1>2, <2>3, <2>4 DEF Holds, CallIs
  <2>6. ASSUME d \notin behind'
        PROVE  Mirrors(fallback', Stored(d)', Pending(d)', Deleting(d)', Delivered(d)', d)
    <3>1. Follows(fallback, d)
      BY <1>1, <2>6 DEF Holds
    <3>2. \/ fallback' = Effect(fallback, entry)
          \/ fallback' = fallback /\ task'.ok = FALSE
      BY <1>2, <1>5, <2>6 DEF CallIs
    <3> QED BY <2>3, <2>4, <3>1, <3>2
  <2> QED BY <2>1, <2>5, <2>6 DEF Follows, Holds
<1> QED BY <1>4, <1>5

LEMMA RetryMarkIs ==
  ASSUME Shape, RetryMark
  PROVE  LET n == task.row
             entry == outbox[n].entry
         IN /\ UNCHANGED <<chunks, primary, fallback, writer, behind>>
            /\ task.at = "mark" /\ n \in DOMAIN outbox /\ Open(n) /\ entry \in Entries
            /\ \A k \in DOMAIN outbox : outbox'[k].entry = outbox[k].entry
            /\ task'.at # "mark" /\ bypassed \subseteq bypassed'
            /\ \/ task.ok = FALSE /\ \A e : OpenAt(e)' = OpenAt(e)
               \/ /\ task.ok = TRUE /\ \A e : OpenAt(e)' = OpenAt(e) \ {n}
                  /\ \/ entry.doc \in bypassed'
                     \/ \A m \in 1..(n - 1) : outbox[m].entry.doc = entry.doc => ~Open(m)
            /\ Shape'
<1> DEFINE n == task.row
           entry == outbox[n].entry
           left == task.rows \ {n}
           mark == IF task.ok THEN "done" ELSE "pending"
<1>1. /\ UNCHANGED <<chunks, primary, fallback, writer, behind, writes, faults>>
      /\ task.at = "mark"
      /\ outbox' = [outbox EXCEPT ![n].state = mark]
      /\ task' = IF left = {} THEN Waiting
                 ELSE [at |-> "call", rows |-> left, row |-> 0, ok |-> FALSE]
      /\ bypassed' = IF task.ok /\ \E m \in 1..(n - 1) : outbox[m].entry.doc = entry.doc /\ Open(m)
                     THEN bypassed \cup {entry.doc} ELSE bypassed
  BY DEF RetryMark
<1>2. /\ n \in task.rows /\ task.rows \subseteq DOMAIN outbox
      /\ \A k \in task.rows : Open(k)
  BY <1>1 DEF Shape, TaskFits
<1>3. /\ outbox \in Seq(OutboxRow) /\ entry \in Entries /\ entry.doc \in Documents
      /\ outbox[n] \in OutboxRow
  BY <1>2, RowFacts, EntryShape DEF Shape, Types
<1>4. task.ok \in BOOLEAN /\ task.rows \subseteq Nat
  BY DEF Shape, Types, TaskRow
<1>5. mark \in {"pending", "claimed", "done", "purged"}
      /\ (task.ok => mark = "done") /\ (~task.ok => mark = "pending")
  BY <1>4
<1> HIDE DEF mark, left, n, entry
<1>6. outbox' = [outbox EXCEPT ![n] = [entry |-> outbox[n].entry, state |-> mark]]
  <2>1. outbox' = [outbox EXCEPT ![n] = [outbox[n] EXCEPT !.state = mark]]
    BY <1>1, <1>2, <1>3
  <2> QED BY <1>3, <2>1, RowWithState
<1>7. outbox' \in Seq(OutboxRow) /\ Restated({n}, {mark})
  BY <1>2, <1>3, <1>5, <1>6, StateOfOne
<1>8. \A k \in DOMAIN outbox : outbox'[k].entry = outbox[k].entry
  BY <1>7 DEF Restated
<1>9. \/ task.ok = FALSE /\ \A e : OpenAt(e)' = OpenAt(e)
      \/ task.ok = TRUE /\ \A e : OpenAt(e)' = OpenAt(e) \ {n}
  <2>1. CASE task.ok
    <3>1. Restated({n}, {"done"})
      BY <1>5, <1>7, <2>1
    <3> QED BY <1>4, <2>1, <3>1, RestatedOpens
  <2>2. CASE ~task.ok
    <3>1. Restated({n}, {"pending"}) /\ \A k \in {n} : Open(k)
      BY <1>2, <1>5, <1>7, <2>2
    <3> QED BY <1>4, <2>2, <3>1, RestatedOpens
  <2> QED BY <2>1, <2>2
<1>10. /\ bypassed' \subseteq Documents /\ bypassed \subseteq bypassed'
       /\ task.ok => \/ entry.doc \in bypassed'
                     \/ \A m \in 1..(n - 1) : outbox[m].entry.doc = entry.doc => ~Open(m)
  BY <1>1, <1>3 DEF Shape, Types
<1>11. task' \in TaskRow /\ task'.at # "mark" /\ task'.rows \subseteq left
  <2>1. left \subseteq Nat
    BY <1>4 DEF left
  <2>2. CASE left = {}
    <3>1. task' = [at |-> "idle", rows |-> {}, row |-> 0, ok |-> FALSE]
      BY <1>1, <2>2 DEF Waiting
    <3> QED BY <3>1 DEF TaskRow
  <2>3. CASE left # {}
    <3>1. task' = [at |-> "call", rows |-> left, row |-> 0, ok |-> FALSE]
      BY <1>1, <2>3
    <3> QED BY <2>1, <3>1 DEF TaskRow
  <2> QED BY <2>2, <2>3
<1>12. TaskFits'
  <2>1. \A k \in left : k \in DOMAIN outbox' /\ Open(k)'
    BY <1>2, <1>7 DEF left, Restated, Open
  <2> QED BY <1>11, <2>1 DEF TaskFits
<1>13. \A t \in Threads : WriterFits(t)'
  BY <1>1, SameWriterFits DEF Shape
<1>14. Shape'
  BY <1>1, <1>7, <1>10, <1>11, <1>12, <1>13 DEF Shape, Types
<1> QED BY <1>1, <1>2, <1>3, <1>8, <1>9, <1>10, <1>11, <1>14 DEF n, entry

\* What is marked as done is in the collections.
LEMMA RetryMarkHolds ==
  ASSUME Shape, RetryMark, NEW d \in Documents \ bypassed', Holds(d)
  PROVE  Holds(d)'
<1> DEFINE n == task.row
           entry == outbox[n].entry
<1>1. /\ UNCHANGED <<chunks, primary, fallback, writer, behind>>
      /\ task.at = "mark" /\ n \in DOMAIN outbox /\ Open(n) /\ entry \in Entries
      /\ task'.at # "mark" /\ Shape'
  BY RetryMarkIs
<1>2. \/ task.ok = FALSE /\ \A e : OpenAt(e)' = OpenAt(e)
      \/ /\ task.ok = TRUE /\ \A e : OpenAt(e)' = OpenAt(e) \ {n}
         /\ \/ entry.doc \in bypassed'
            \/ \A m \in 1..(n - 1) : outbox[m].entry.doc = entry.doc => ~Open(m)
  BY RetryMarkIs
<1>3. /\ Delivered(d)' = {}
      /\ Delivered(d) = IF task.ok /\ entry.doc = d THEN {entry} ELSE {}
      /\ n \in OpenAt(entry) /\ \A e : e # entry => n \notin OpenAt(e)
      /\ outbox \in Seq(OutboxRow)
  BY <1>1 DEF Delivered, OpenAt, Shape, Types
<1>4. CASE task.ok = FALSE \/ entry.doc # d
  <2>1. \A e \in Entries : e.doc = d => OpenAt(e)' = OpenAt(e)
    BY <1>2, <1>3, <1>4
  <2> QED BY <1>1, <1>3, <2>1, OnlyStates
<1>5. CASE task.ok = TRUE /\ entry.doc = d
  <2>1. /\ \A e : OpenAt(e)' = OpenAt(e) \ {n}
        /\ \A m \in 1..(n - 1) : outbox[m].entry.doc = d => ~Open(m)
    BY <1>2, <1>5
  <2>2. /\ InTurn(d)' /\ Stored(d)' = Stored(d)
        /\ Calling(d)' = Calling(d) /\ Deleters(d)' = Deleters(d)
    BY <1>1, <2>1, SameWriters, TurnStays DEF Holds
  <2>3. Deleters(d) = {}
    <3>1. Unfinished(d)
      BY <1>1, <1>5 DEF Unfinished
    <3> QED BY <3>1 DEF Holds, InTurn
  <2>4. CASE entry.op = "delete"
    <3>1. entry = DeleteEntry(d) /\ Deleting(d)
      BY <1>1, <1>3, <1>5, <2>4, EntryShape DEF Deleting
    <3>2. \A p \in Points : OpenAt(UpsertEntry(p))' = OpenAt(UpsertEntry(p))
      <4>1. ASSUME NEW p \in Points PROVE OpenAt(UpsertEntry(p))' = OpenAt(UpsertEntry(p))
        <5>1. UpsertEntry(p) # entry
          BY <2>4, EntryFacts
        <5> QED BY <1>3, <2>1, <5>1
      <4> QED BY <4>1
    <3>3. Pending(d)' = Pending(d)
      BY <2>2, <3>2 DEF Pending, InOutbox
    <3>4. ASSUME NEW points, Follows(points, d)
          PROVE  Mirrors(points, Stored(d)', Pending(d)', Deleting(d)', Delivered(d)', d)
      <4>1. \A p \in Stored(d) : p \in Pending(d)
        BY <3>1, <3>4 DEF Follows, Mirrors
      <4>2. Clean(points, Stored(d), d)
        BY <1>3, <1>5, <3>1, <3>4 DEF Follows, Mirrors
      <4> QED BY <1>3, <2>2, <3>3, <4>1, <4>2 DEF Mirrors
    <3> QED BY <1>1, <2>2, <3>4 DEF Follows, Holds
  <2>5. CASE entry.op # "delete"
    <3>1. /\ entry.item \in Points /\ entry = UpsertEntry(entry.item)
          /\ entry.item.doc = d /\ entry.op = "upsert"
      BY <1>1, <1>5, <2>5, EntryShape
    <3>2. entry.item \in InOutbox(d)
      BY <1>3, <3>1 DEF InOutbox
    <3>3. OpenAt(DeleteEntry(d)) = {}
      <4>1. ASSUME NEW m \in OpenAt(DeleteEntry(d)) PROVE FALSE
        <5>1. m < n
          BY <1>3, <3>1, <3>2 DEF Holds, InTurn
        <5>2. m \in DOMAIN outbox /\ Open(m) /\ outbox[m].entry.doc = d
          BY EntryFacts DEF OpenAt
        <5>3. m \in 1..(n - 1)
          BY <1>1, <1>3, <5>1, <5>2, RowFacts
        <5> QED BY <2>1, <5>2, <5>3
      <4> QED BY <4>1
    <3>4. ~Deleting(d) /\ ~Deleting(d)'
      BY <2>1, <2>2, <2>3, <3>3 DEF Deleting
    <3>5. \A p \in Pending(d) : p \in Pending(d)' \/ p = entry.item
      <4>1. ASSUME NEW p \in InOutbox(d), p # entry.item PROVE p \in InOutbox(d)'
        <5>1. p \in Points /\ p.doc = d /\ OpenAt(UpsertEntry(p)) # {}
          BY DEF InOutbox
        <5>2. UpsertEntry(p) # entry
          BY <3>1, <4>1, <5>1, EntryFacts
        <5>3. OpenAt(UpsertEntry(p))' = OpenAt(UpsertEntry(p))
          BY <1>3, <2>1, <5>2
        <5> QED BY <5>1, <5>3 DEF InOutbox
      <4> QED BY <2>2, <4>1 DEF Pending
    <3>6. ASSUME NEW points, Follows(points, d)
          PROVE  Mirrors(points, Stored(d)', Pending(d)', Deleting(d)', Delivered(d)', d)
      <4>1. entry.item \in points
        BY <1>3, <1>5, <3>1, <3>6 DEF Follows, Mirrors
      <4> QED BY <1>3, <2>2, <3>4, <3>5, <3>6, <4>1 DEF Follows, Mirrors
    <3> QED BY <1>1, <2>2, <3>6 DEF Follows, Holds
  <2> QED BY <2>4, <2>5
<1>6. task.ok \in BOOLEAN
  BY DEF Shape, Types, TaskRow
<1> QED BY <1>4, <1>5, <1>6

LEMMA PurgeIs ==
  ASSUME Shape, NEW n \in DOMAIN outbox, Purge(n)
  PROVE  /\ UNCHANGED <<chunks, primary, fallback, writer, task, bypassed, behind>>
         /\ \A k \in DOMAIN outbox : outbox'[k].entry = outbox[k].entry
         /\ \A e : OpenAt(e)' = OpenAt(e)
         /\ Shape'
<1>1. /\ UNCHANGED <<chunks, primary, fallback, writer, task, bypassed, behind, writes, faults>>
      /\ outbox[n].state = "done"
      /\ outbox' = [outbox EXCEPT ![n].state = "purged"]
  BY DEF Purge
<1>2. outbox \in Seq(OutboxRow) /\ outbox[n] \in OutboxRow
  BY RowFacts DEF Shape, Types
<1>3. outbox' = [outbox EXCEPT ![n] = [entry |-> outbox[n].entry, state |-> "purged"]]
  <2>1. outbox' = [outbox EXCEPT ![n] = [outbox[n] EXCEPT !.state = "purged"]]
    BY <1>1, <1>2
  <2> QED BY <1>2, <2>1, RowWithState
<1>4. outbox' \in Seq(OutboxRow) /\ Restated({n}, {"purged"})
  BY <1>2, <1>3, StateOfOne
<1>5. \A e : OpenAt(e)' = OpenAt(e)
  <2>1. \A e : OpenAt(e)' = OpenAt(e) \ {n}
    BY <1>4, RestatedOpens
  <2>2. \A e : n \notin OpenAt(e)
    BY <1>1 DEF OpenAt, Open
  <2> QED BY <2>1, <2>2
<1>6. TaskFits'
  <2>1. \A k \in DOMAIN outbox : k \in DOMAIN outbox' /\ (Open(k) => Open(k)')
    BY <1>1, <1>4 DEF Restated, Open
  <2> QED BY <1>1, <2>1, TaskKeeps DEF Shape
<1>7. \A t \in Threads : WriterFits(t)'
  BY <1>1, SameWriterFits DEF Shape
<1>8. Shape'
  BY <1>1, <1>4, <1>6, <1>7 DEF Shape, Types
<1> QED BY <1>1, <1>4, <1>5, <1>8 DEF Restated

LEMMA PurgeHolds ==
  ASSUME Shape, NEW n \in DOMAIN outbox, Purge(n), NEW d \in Documents, Holds(d)
  PROVE  Holds(d)'
<1>1. /\ UNCHANGED <<chunks, primary, fallback, writer, task, bypassed, behind>>
      /\ \A k \in DOMAIN outbox : outbox'[k].entry = outbox[k].entry
      /\ \A e : OpenAt(e)' = OpenAt(e)
      /\ Shape'
  BY PurgeIs
<1>2. Delivered(d)' = Delivered(d)
  BY <1>1, DeliveredStays
<1> QED BY <1>1, <1>2, OnlyStates

LEMMA TaskDiesHolds ==
  ASSUME Shape, TaskDies
  PROVE  /\ Shape'
         /\ \A d \in Documents \ bypassed' : Holds(d) => Holds(d)'
<1>1. /\ UNCHANGED <<chunks, primary, fallback, outbox, writer, bypassed, behind, writes>>
      /\ faults' = faults + 1
      /\ task' = [at |-> "dead", rows |-> {}, row |-> 0, ok |-> FALSE]
  BY DEF TaskDies, Faulty, Waiting
<1>2. task' \in TaskRow /\ TaskFits' /\ task'.at = "dead"
  BY <1>1 DEF TaskRow, TaskFits
<1>3. \A t \in Threads : WriterFits(t)'
  BY <1>1, SameWriterFits DEF Shape
<1>4. Shape'
  BY <1>1, <1>2, <1>3 DEF Shape, Types
<1>5. ASSUME NEW d \in Documents, Holds(d) PROVE Holds(d)'
  <2>1. Delivered(d)' = {} /\ \A e : OpenAt(e)' = OpenAt(e)
    BY <1>1, <1>2 DEF Delivered, OpenAt, Open
  <2> QED BY <1>1, <1>4, <1>5, <2>1, OnlyStates
<1> QED BY <1>4, <1>5

LEMMA RestartHolds ==
  ASSUME Shape, Restart
  PROVE  /\ Shape'
         /\ \A d \in Documents \ bypassed' : Holds(d) => Holds(d)'
<1>1. /\ UNCHANGED <<chunks, primary, fallback, outbox, behind, writes>>
      /\ faults' = faults + 1
      /\ writer' = [t \in Threads |-> Resting]
      /\ task' = [at |-> "idle", rows |-> {}, row |-> 0, ok |-> FALSE]
      /\ bypassed' = bypassed \cup {d \in Documents : Busy(d) # {}}
  BY DEF Restart, Faulty, Waiting
<1>2. task' \in TaskRow /\ TaskFits' /\ task'.at = "idle"
  BY <1>1 DEF TaskRow, TaskFits
<1>3. writer' \in [Threads -> WriterRow] /\ \A t \in Threads : WriterFits(t)'
  BY <1>1, RestingRow DEF WriterFits, Resting
<1>4. Shape'
  BY <1>1, <1>2, <1>3 DEF Shape, Types
<1>5. ASSUME NEW d \in Documents \ bypassed', Holds(d) PROVE Holds(d)'
  <2>1. Delivered(d)' = {} /\ \A e : OpenAt(e)' = OpenAt(e)
    BY <1>1, <1>2 DEF Delivered, OpenAt, Open
  <2>2. Busy(d) = {} /\ Busy(d)' = {}
    BY <1>1 DEF Busy, Resting
  <2>3. Deleters(d) = {} /\ Deleters(d)' = {}
    BY <2>2 DEF Deleters
  <2>4. Calling(d) = {}
    BY <2>2 DEF Calling, Shape, WriterFits, Busy
  <2>5. Calling(d)' = {}
    BY <1>1 DEF Calling, Resting
  <2> QED BY <1>1, <1>4, <1>5, <2>1, <2>2, <2>3, <2>4, <2>5, Undisturbed
<1> QED BY <1>4, <1>5

-----------------------------------------------------------------------------
(* The invariant.                                                           *)

LEMMA InvIs ==
  KnowledgeInv <=> Shape /\ \A d \in Documents \ bypassed : Holds(d)
BY DEF KnowledgeInv, Shape, Holds

LEMMA InitHolds == Init => Shape /\ \A d \in Documents : Holds(d)
<1> SUFFICES ASSUME Init PROVE Shape /\ \A d \in Documents : Holds(d)
  OBVIOUS
<1>1. /\ chunks = [d \in Documents |-> <<>>] /\ primary = {} /\ fallback = {} /\ outbox = <<>>
      /\ writer = [t \in Threads |-> Resting]
      /\ task = [at |-> "idle", rows |-> {}, row |-> 0, ok |-> FALSE]
      /\ bypassed = {} /\ behind = {} /\ writes = 0 /\ faults = 0
  BY DEF Init, Waiting
<1>2. task \in TaskRow /\ TaskFits
  BY <1>1 DEF TaskRow, TaskFits
<1>3. writer \in [Threads -> WriterRow] /\ \A t \in Threads : WriterFits(t)
  BY <1>1, RestingRow DEF WriterFits, Resting
<1>4. chunks \in [Documents -> Bodies \cup {<<>>}] /\ outbox \in Seq(OutboxRow)
  BY <1>1
<1>5. Shape
  BY <1>1, <1>2, <1>3, <1>4 DEF Shape, Types
<1>6. ASSUME NEW d \in Documents PROVE Holds(d)
  <2>1. Busy(d) = {} /\ ~Unfinished(d)
    BY <1>1 DEF Busy, Unfinished, Resting
  <2>2. Stored(d) = {}
    BY <1>1, NoItems DEF Stored
  <2>3. /\ Pending(d) = {} /\ ~Deleting(d) /\ Delivered(d) = {} /\ InOutbox(d) = {}
    BY <1>5, <2>1, QuietIsClear DEF Quiet
  <2>4. InTurn(d)
    BY <2>1, <2>2, <2>3 DEF InTurn
  <2>5. Follows(primary, d) /\ Follows(fallback, d)
    BY <1>1, <2>2, <2>3 DEF Follows, Mirrors, Clean
  <2> QED BY <2>4, <2>5 DEF Holds
<1> QED BY <1>5, <1>6

LEMMA StepHolds ==
  ASSUME Shape, [Next]_vars, \A d \in Documents \ bypassed : Holds(d)
  PROVE  Shape' /\ \A d \in Documents \ bypassed' : Holds(d)'
<1> DEFINE Kept == \A d \in Documents \ bypassed' : Holds(d) => Holds(d)'
<1> SUFFICES Shape' /\ bypassed \subseteq bypassed' /\ Kept
  OBVIOUS
<1>1. ASSUME NEW t \in Threads,
             \/ \E d \in Documents, body \in Bodies : Replace(t, d, body)
             \/ \E d \in Documents : Delete(t, d)
             \/ \E docs \in SUBSET Documents : Rebuild(t, docs)
      PROVE  Shape' /\ bypassed \subseteq bypassed' /\ Kept
  <2>1. bypassed \subseteq bypassed'
    BY <1>1 DEF Replace, Delete, Rebuild, Begins
  <2> QED BY <1>1, <2>1, RequestShape, RequestHolds
<1>2. ASSUME NEW t \in Threads, NEW d \in Documents, DeleteCall(t, d)
      PROVE  Shape' /\ bypassed \subseteq bypassed' /\ Kept
  <2>1. Shape' /\ bypassed' = bypassed
    BY <1>2, DeleteCallIs
  <2> QED BY <1>2, <2>1, DeleteCallHolds
<1>3. ASSUME NEW t \in Threads, NEW d \in Documents, QueueDelete(t, d)
      PROVE  Shape' /\ bypassed \subseteq bypassed' /\ Kept
  <2>1. Shape' /\ bypassed' = bypassed
    BY <1>3, QueueDeleteIs
  <2> QED BY <1>3, <2>1, QueueDeleteHolds
<1>4. ASSUME NEW t \in Threads, NEW batch \in Batches(writer[t].items), UpsertCall(t, batch)
      PROVE  Shape' /\ bypassed \subseteq bypassed' /\ Kept
  <2>1. Shape' /\ bypassed \subseteq bypassed'
    BY <1>4, UpsertCallIs
  <2> QED BY <1>4, <2>1, UpsertCallHolds
<1>5. ASSUME NEW t \in Threads, NEW item \in writer[t].failed, QueueItem(t, item)
      PROVE  Shape' /\ bypassed \subseteq bypassed' /\ Kept
  <2>1. Shape' /\ bypassed \subseteq bypassed'
    BY <1>5, QueueItemIs
  <2> QED BY <1>5, <2>1, QueueItemHolds
<1>6. ASSUME NEW expired \in BOOLEAN, Claim(expired)
      PROVE  Shape' /\ bypassed \subseteq bypassed' /\ Kept
  <2>1. Shape' /\ bypassed' = bypassed
    BY <1>6, ClaimIs
  <2> QED BY <1>6, <2>1, ClaimHolds
<1>7. ASSUME NEW n \in DOMAIN outbox, RetryCall(n)
      PROVE  Shape' /\ bypassed \subseteq bypassed' /\ Kept
  <2>1. Shape' /\ bypassed' = bypassed
    BY <1>7, RetryCallIs
  <2> QED BY <1>7, <2>1, RetryCallHolds
<1>8. ASSUME RetryMark
      PROVE  Shape' /\ bypassed \subseteq bypassed' /\ Kept
  <2>1. Shape' /\ bypassed \subseteq bypassed'
    BY <1>8, RetryMarkIs
  <2> QED BY <1>8, <2>1, RetryMarkHolds
<1>9. ASSUME NEW n \in DOMAIN outbox, Purge(n)
      PROVE  Shape' /\ bypassed \subseteq bypassed' /\ Kept
  <2>1. Shape' /\ bypassed' = bypassed
    BY <1>9, PurgeIs
  <2> QED BY <1>9, <2>1, PurgeHolds
<1>10. CASE TaskDies
  BY <1>10, TaskDiesHolds DEF TaskDies
<1>11. CASE Restart
  BY <1>11, RestartHolds DEF Restart
<1>12. CASE UNCHANGED vars
  <2>1. UNCHANGED <<chunks, primary, fallback, outbox, writer, task, bypassed, behind,
                    writes, faults>>
    BY <1>12 DEF vars
  <2>2. (\A t \in Threads : WriterFits(t)') /\ TaskFits'
    BY <2>1, SameWriterFits, TaskKeeps DEF Shape, Open
  <2>3. Shape'
    BY <2>1, <2>2 DEF Shape, Types
  <2>4. \A d : Delivered(d)' = Delivered(d) /\ \A e : OpenAt(e)' = OpenAt(e)
    BY <2>1 DEF Delivered, OpenAt, Open
  <2> QED BY <2>1, <2>3, <2>4, OnlyStates
<1> QED
  BY <1>1, <1>2, <1>3, <1>4, <1>5, <1>6, <1>7, <1>8, <1>9, <1>10, <1>11, <1>12
     DEF Next, RetryCalls

(***************************************************************************)
(* Whatever fails, is repeated or is lost, the collections and what is on  *)
(* its way to them make up, for every document that no call was made about *)
(* out of turn, what SQLite has.                                           *)
(***************************************************************************)
THEOREM IndexFollowsDocuments == Spec => []KnowledgeInv
<1>1. Init => KnowledgeInv
  BY InitHolds, InvIs
<1>2. KnowledgeInv /\ [Next]_vars => KnowledgeInv'
  <2> SUFFICES ASSUME KnowledgeInv, [Next]_vars PROVE KnowledgeInv'
    OBVIOUS
  <2>1. Shape' /\ \A d \in Documents \ bypassed' : Holds(d)'
    BY InvIs, StepHolds
  <2> QED BY <2>1 DEF KnowledgeInv, Shape, Holds
<1> QED BY <1>1, <1>2, PTL DEF Spec

(***************************************************************************)
(* A document about which nothing is under way has its chunks in the       *)
(* collections, with their texts, and no others, unless a call about it    *)
(* went past an entry that was open.                                       *)
(***************************************************************************)
THEOREM QuietIsMirrored == Spec => []CollectionsMirrorDocuments
<1>1. KnowledgeInv => CollectionsMirrorDocuments
  <2> SUFFICES ASSUME KnowledgeInv, NEW d \in Documents \ bypassed, Quiet(d)
               PROVE  /\ {p \in primary : p.doc = d} = Stored(d)
                      /\ d \notin behind => {p \in fallback : p.doc = d} = Stored(d)
    BY DEF CollectionsMirrorDocuments
  <2>1. Shape /\ Holds(d)
    BY InvIs
  <2>2. \A p \in Stored(d) : p.doc = d
    BY ItemFacts DEF Stored
  <2>3. \A points : Follows(points, d) => {p \in points : p.doc = d} = Stored(d)
    BY <2>1, <2>2, QuietMirrors DEF Clean
  <2> QED BY <2>1, <2>3 DEF Holds
<1> QED BY <1>1, IndexFollowsDocuments, PTL
=============================================================================

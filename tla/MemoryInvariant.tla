-------------------------- MODULE MemoryInvariant --------------------------
(***************************************************************************)
(* The inductive invariant behind the properties of MemoryWorker: what a   *)
(* revision's text rests on, what is still known of a store that was read  *)
(* some time ago, and which job accounts for a version the vector store    *)
(* and its index state disagree about.                                     *)
(***************************************************************************)
EXTENDS MemoryWorker

-----------------------------------------------------------------------------
(* Types.                                                                   *)

Links == {SourceLink(s) : s \in Sources} \cup (Episodes \X Nat)
Whys == {"written", "withdrawn", "counterexample"}

RevisionRow == [text : Texts, review : Reviews, links : SUBSET Links,
                from : SUBSET Sources, why : Whys]
MemoryRow == [status : Statuses, act : Nat, revs : Seq(RevisionRow)]
SourceRow == [access : Access, holds : Findings \cup {"nothing", "note"}]
Removed == Conversations \cup Memories

PictureRow == [memory : [Memories -> MemoryRow], source : [Sources -> SourceRow],
               tombs : SUBSET Removed]
CallRow == [kind : DOMAIN Allowed \cup {"forget", "record", "propose"}, of : Removed,
            with : Findings \cup Agents \cup {"none"}, seen : PictureRow]

Kinds == {"none", "sync", "capture", "extract", "reconcile", "revalidate", "purge"}
Ops == Findings \cup {"none", "run", "upsert", "purge", "done", "matched", "unmatched"}

\* Only lessons are reconciled with what an action that rests on them has done.
JobRow ==
  {j \in [kind : Kinds, of : Removed \cup {"none"}, rev : Nat, op : Ops, attempts : Nat] :
     j.kind = "reconcile" => j.of \in Lessons}

JobsType == [queue : Seq(SUBSET JobRow), late : SUBSET JobRow, failed : SUBSET JobRow]
Reading == {"capture", "lesson", "reconcile", "revalidate"}
WorkerRow == [at : {"idle", "index", "record", "mark", "cleanup", "model", "propose", "settle"}
                   \cup Reading,
              job : JobRow, ok : BOOLEAN, seen : PictureRow]

MemoryTypes ==
  /\ memory \in [Memories -> MemoryRow]
  /\ source \in [Sources -> SourceRow]
  /\ tombs \subseteq Removed
  /\ working \subseteq Conversations
  /\ uses \subseteq Lessons \X Nat
  /\ jobs \in JobsType
  /\ worker \in WorkerRow
  /\ open \subseteq CallRow
  /\ torn \subseteq Removed

-----------------------------------------------------------------------------
(* The store.                                                               *)

\* A row is there as soon as it has a revision.
Written(row) ==
  /\ row.status = "absent" => row = Absent
  /\ row.status # "absent" => Cur(row) > 0
  /\ row.act \in 0..Cur(row)

\* An episode says what its source says, in every revision.
SaysItsSource(e, row) ==
  \A n \in 1..Cur(row) :
    row.revs[n].links = {SourceLink(e)} /\ row.revs[n].from \subseteq {e}

\* What a lesson repeats it cites, and no revision that has kept its text has
\* evidence the newest does not have: what withdraws the one withdraws the other.
CitesWhatItSays(row) ==
  \A n \in 1..Cur(row) :
    /\ \A s \in row.revs[n].from : \E l \in row.revs[n].links : Cites(l, s)
    /\ row.revs[n].text # "blank" => row.revs[n].links \subseteq Latest(row).links

RowFits(m, row) ==
  /\ Written(row)
  /\ m \in Episodes => SaysItsSource(m, row)
  /\ m \in Lessons => CitesWhatItSays(row)

\* Evidence is never taken out of the tables.
Rests(mem, src, row) ==
  \A n \in 1..Cur(row) : \A l \in row.revs[n].links :
    /\ src[l[1]].access # "absent"
    /\ Len(l) = 2 => mem[l[1]].status # "absent"

\* The version in use is one the user has confirmed.
UsedAsReviewed(row) ==
  row.status = "active" =>
    /\ row.act # 0
    /\ row.revs[row.act].review = "confirmed"
    /\ row.revs[row.act].text \notin {"blank", "bare"}

CitesNothingForgotten(row, tmb) ==
  \A n \in 1..Cur(row) : \A l \in row.revs[n].links : ConversationOf[l[1]] \notin tmb

\* What is known of a row that was never written on the word of stale reads.
Kept(m, row, tmb) ==
  /\ m \in Lessons => UsedAsReviewed(row)
  /\ row.status # "deleted" => CitesNothingForgotten(row, tmb)

StoreStands ==
  /\ \A m \in Memories :
       /\ RowFits(m, memory[m])
       /\ Rests(memory, source, memory[m])
       /\ m \notin torn => Kept(m, memory[m], tombs)
  /\ \A e \in Episodes :
       source[e].access # "absent" /\ ConversationOf[e] \notin tombs
         => source[e].holds \in Findings
  /\ working \cap tombs \subseteq torn

-----------------------------------------------------------------------------
(* Pictures.                                                                *)

\* Rows are written over, but no revision goes, and none gets more evidence.
Grown(old, new) ==
  /\ old.status # "absent" => new.status # "absent"
  /\ Cur(old) <= Cur(new)
  /\ \A n \in 1..Cur(old) : new.revs[n].links \subseteq old.revs[n].links

\* What the store was when it was read, and what it is, given that.
Earlier(seen) ==
  /\ \A m \in Memories : Written(seen.memory[m]) /\ Grown(seen.memory[m], memory[m])
  /\ \A s \in Sources : seen.source[s].access # "absent" => source[s].access # "absent"
  /\ seen.tombs \subseteq tombs

\* What a call has checked before it writes.
CallKnows(t) ==
  /\ t.kind \in DOMAIN Allowed => t.of \in Memories /\ Admits(t.kind, Read(t))
  /\ t.kind = "forget" => t.of \in Conversations
  /\ t.kind = "record" =>
       t.of \in Episodes /\ t.with \in Findings /\ ConversationOf[t.of] \notin t.seen.tombs
  /\ t.kind = "propose" =>
       /\ t.of \in Lessons /\ t.with \in Agents
       /\ Read(t).status = "absent" /\ ConversationOf[t.with] \notin t.seen.tombs

PicturesStand ==
  /\ \A t \in open : Earlier(t.seen) /\ CallKnows(t)
  /\ worker.at \in Reading => Earlier(worker.seen)

-----------------------------------------------------------------------------
(* The worker and the vector index.                                         *)

\* What the worker has checked of an episode before it writes.
EpisodeKnown(e) ==
  LET seen == worker.seen
  IN  /\ ConversationOf[e] \notin seen.tombs
      /\ worker.at = "capture" =>
           /\ seen.memory[e].status \notin {"deleted", "archived", "rejected"}
           /\ seen.source[e].access # "absent" /\ seen.source[e].holds \in Findings
      /\ worker.at = "lesson" => seen.memory[e].status = "active"

\* Where the worker is says what its job is, and what has been done of it.
WorkerKnows ==
  /\ worker.at = "idle" => worker = Idle
  /\ worker.at \in {"index", "record", "mark", "cleanup"} =>
       worker.job.kind = "sync" /\ worker.job.op # "done"
  /\ worker.at \in {"record", "mark"} => (worker.ok <=> Point(worker.job) \in vectors)
  /\ worker.at = "cleanup" => Point(worker.job) \in vectors
  /\ worker.at \in {"model", "propose", "lesson"} => worker.job.kind = "extract"
  /\ worker.at \in {"capture", "revalidate"} => worker.job.kind = worker.at
  /\ worker.at = "reconcile" =>
       /\ worker.job.kind = "reconcile"
       /\ worker.seen.memory[worker.job.of].status \notin {"deleted", "archived", "rejected"}
  /\ worker.at \in {"capture", "lesson"} /\ worker.job.of \in Episodes =>
       EpisodeKnown(worker.job.of)
  /\ worker.at = "settle" /\ worker.ok /\ worker.job.kind = "sync" => worker.job.op = "done"

\* An entry that is done accounts for nothing any more.
IndexStands ==
  \A p \in (vectors \ indexed) \cup (indexed \ vectors) :
    \E j \in SyncJobs : Point(j) = p /\ j.op # "done"

MemoryInv == MemoryTypes /\ StoreStands /\ PicturesStand /\ WorkerKnows /\ IndexStands
=============================================================================

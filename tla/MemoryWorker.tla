---------------------------- MODULE MemoryWorker ----------------------------
(***************************************************************************)
(* The memory worker: it claims a job, does its work in one transaction    *)
(* or, for the vector index and the language model, in two transactions    *)
(* with a call in between, and settles the job in a transaction of its     *)
(* own.  Here too a transaction reads first and writes later, on the       *)
(* picture it has kept.  Requests of module MemoryStore come in between    *)
(* any two steps.                                                          *)
(*                                                                         *)
(* A process has one worker, so that a lease matters after a crash only:   *)
(* the job is claimed again when it has run out.  Jobs that have failed    *)
(* wait for a time that may be earlier or later than any other job's; the  *)
(* ones that have not are claimed in the order they were created, and      *)
(* those of one transaction in any order.                                  *)
(***************************************************************************)
EXTENDS MemoryStore

CONSTANTS
  MaxAttempts,  \* memory_job_max_attempts
  MaxFaults     \* bound: failing calls and crashes

ASSUME WorkerBounds == MaxAttempts \in Nat \ {0} /\ MaxFaults \in Nat

store == <<memory, source, tombs, working, uses>>
vars == <<store, jobs, keys, requests, open, torn, workerSide>>

NoJob == Job("none", "none", 0, "none")
NoPicture == [memory |-> [m \in Memories |-> Absent],
              source |-> [s \in Sources |-> NoSource], tombs |-> {}]
Idle == [at |-> "idle", job |-> NoJob, ok |-> TRUE, seen |-> NoPicture]
At(place) == worker.at = place
Go(place, job, ok) ==
  worker' = [at |-> place, job |-> job, ok |-> ok, seen |-> NoPicture]

\* The transaction has read and is about to write.
Holds(place, job) ==
  worker' = [at |-> place, job |-> job, ok |-> TRUE, seen |-> Picture]

\* The attempt ends in an error, or well.
Errs(job) == Go("settle", job, FALSE)
Ends(job) == Go("settle", job, TRUE)

(***************************************************************************)
(* claim: the oldest job that is due.  Nobody looks at a job between its   *)
(* claim and the first transaction of its work: they are one step.         *)
(***************************************************************************)
Due == jobs.late \cup IF jobs.queue = <<>> THEN {} ELSE Head(jobs.queue)

Unclaimed(j) ==
  IF j \in jobs.late THEN [jobs EXCEPT !.late = @ \ {j}]
  ELSE [jobs EXCEPT !.queue = Queued(Head(@) \ {j}) \o Tail(@)]

Claims(j, kind) == At("idle") /\ j \in Due /\ j.kind = kind

Attempt(j) == [j EXCEPT !.attempts = @ + 1]

\* The job is taken and nothing else is changed.
Takes(j) ==
  /\ QueueOn(Unclaimed(j), {})
  /\ UNCHANGED <<memory, torn>>

\* The transaction of a job writes rows and the jobs they call for; "tears" are
\* the rows it has written that were not as it had read them.
Saves(mem, new, tears) == memory' = mem /\ Queue(new) /\ torn' = torn \cup tears

SavesNothing == UNCHANGED <<memory, jobs, keys, torn>>

(***************************************************************************)
(* sync: the vector index.                                                 *)
(***************************************************************************)
\* The entry may have been done before the worker died.
SyncRead(j) ==
  /\ Claims(j, "sync")
  /\ Takes(j)
  /\ IF j.op = "done" THEN Ends(Attempt(j))
     ELSE Go("index", Attempt(j), j.op = "upsert" /\ Eligible(j.of, j.rev))
  /\ UNCHANGED <<source, tombs, working, uses, requests, open, vectors, indexed, faults>>

Point(j) == <<j.of, j.rev>>

Applied ==
  IF worker.ok THEN vectors \cup {Point(worker.job)} ELSE vectors \ {Point(worker.job)}

SyncCall ==
  /\ At("index")
  /\ vectors' = Applied
  /\ Go("record", worker.job, worker.ok)
  /\ SavesNothing
  /\ UNCHANGED <<source, tombs, working, uses, requests, open, indexed, faults>>

\* Mutant: a version that went out of use meanwhile is only marked.
SyncCheck_leftBehind ==
  /\ At("record")
  /\ Go("mark", worker.job, worker.ok /\ Eligible(worker.job.of, worker.job.rev))
  /\ SavesNothing
  /\ UNCHANGED <<source, tombs, working, uses, requests, open, vectors, indexed, faults>>

\* A version that is not eligible any more has just been put into the index.
SyncCheck ==
  /\ At("record")
  /\ IF worker.ok /\ ~Eligible(worker.job.of, worker.job.rev)
     THEN Go("cleanup", worker.job, TRUE)
     ELSE Go("mark", worker.job, worker.ok)
  /\ SavesNothing
  /\ UNCHANGED <<source, tombs, working, uses, requests, open, vectors, indexed, faults>>

\* It is taken out again by an entry of its own.
SyncRecord ==
  /\ worker.at \in {"mark", "cleanup"}
  /\ LET job == worker.job
         stays == At("mark") /\ worker.ok
     IN  /\ Queue(IF At("cleanup") THEN {Job("sync", job.of, job.rev, "purge")} ELSE {})
         /\ indexed' = IF stays THEN indexed \cup {Point(job)} ELSE indexed \ {Point(job)}
         /\ Ends([job EXCEPT !.op = "done"])
  /\ UNCHANGED <<store, torn, requests, open, vectors, faults>>

(***************************************************************************)
(* capture_source: an episode is what its source says, unless the source   *)
(* or the episode has been removed.                                        *)
(***************************************************************************)
Standing(e) ==
  source[e].access \notin {"absent", "forgotten"} /\ ConversationOf[e] \notin tombs

CaptureRead(j, e) ==
  /\ Claims(j, "capture") /\ j.of = e
  /\ Takes(j)
  /\ IF \/ ~Standing(e)
        \/ memory[e].status = "deleted"
        \/ memory[e].status # "absent" /\ Latest(memory[e]).text = source[e].holds
     THEN Ends(Attempt(j))
     ELSE IF memory[e].status \in {"archived", "rejected"} THEN Errs(Attempt(j))
     ELSE Holds("capture", Attempt(j))
  /\ UNCHANGED <<source, tombs, working, uses, requests, open, vectors, indexed, faults>>

\* Mutant: a late result puts a memory the user has paused back into use.
Recaptured_awake(read, row, e, finding) ==
  LET new == Edited(row, finding, {e}, "written")
  IN  [status |-> "active", act |-> Cur(new), revs |-> new.revs]

\* The status is the one that was read, or it is active.
Recaptured(read, row, e, finding) ==
  LET new == Edited(row, finding, {e}, "written")
  IN  IF read.status = "suspended" THEN [new EXCEPT !.status = "suspended"]
      ELSE [status |-> "active", act |-> Cur(new), revs |-> new.revs]

Captured(e, finding) ==
  [status |-> "active", act |-> 1,
   revs |-> <<Revision(finding, {SourceLink(e)}, {e}, "written")>>]

CaptureJobs(e, row) ==
  {SyncJob(e, row, "upsert")}
    \cup IF Latest(row).text = "pending" THEN {} ELSE {Job("extract", e, Cur(row), "none")}

\* What has changed of an episode, its source and its conversation since they
\* were read.
EpisodeMoved(seen, e) ==
  \/ e \in Moved(seen)
  \/ source[e] # seen.source[e]
  \/ {e, ConversationOf[e]} \cap tombs # {e, ConversationOf[e]} \cap seen.tombs

\* The write asks for the revision that was read, and for nothing else.
CaptureSave(e) ==
  /\ At("capture") /\ worker.job.of = e
  /\ LET seen == worker.seen
         read == seen.memory[e]
         row == IF read.status = "absent" THEN Captured(e, seen.source[e].holds)
                ELSE Recaptured(read, memory[e], e, seen.source[e].holds)
     IN  IF Cur(memory[e]) # Cur(read) THEN Errs(worker.job) /\ SavesNothing
         ELSE /\ Ends(worker.job)
              /\ Saves([memory EXCEPT ![e] = row], CaptureJobs(e, row),
                       IF EpisodeMoved(seen, e) THEN {e} ELSE {})
  /\ UNCHANGED <<source, tombs, working, uses, requests, open, vectors, indexed, faults>>

(***************************************************************************)
(* extract: a language model draws a lesson from an episode.               *)
(***************************************************************************)
ExtractRead(j) ==
  /\ Claims(j, "extract")
  /\ Takes(j)
  /\ IF Eligible(j.of, j.rev) THEN Go("model", Attempt(j), TRUE) ELSE Ends(Attempt(j))
  /\ UNCHANGED <<source, tombs, working, uses, requests, open, vectors, indexed, faults>>

ModelAnswers(useful) ==
  /\ At("model")
  /\ IF useful THEN Go("propose", worker.job, TRUE) ELSE Ends(worker.job)
  /\ SavesNothing
  /\ UNCHANGED <<source, tombs, working, uses, requests, open, vectors, indexed, faults>>

\* Mutant: the episode is not looked at again after the call.
ExtractCheck_trusting ==
  /\ At("propose")
  /\ Holds("lesson", worker.job)
  /\ SavesNothing
  /\ UNCHANGED <<source, tombs, working, uses, requests, open, vectors, indexed, faults>>

ExtractCheck ==
  /\ At("propose")
  /\ IF Eligible(worker.job.of, worker.job.rev) THEN Holds("lesson", worker.job)
     ELSE Ends(worker.job)
  /\ SavesNothing
  /\ UNCHANGED <<source, tombs, working, uses, requests, open, vectors, indexed, faults>>

\* The lesson is a candidate that cites the episode, in its newest revision.
Extracted(e, n) ==
  [status |-> "candidate", act |-> 0,
   revs |-> <<Revision("lesson", {EpisodeLink(e, n)}, {e}, "written")>>]

\* The same lesson has the same key: one that exists is left alone, one that
\* has been deleted is not made again, and of two that are made one fails.
ExtractSave(x, e) ==
  /\ At("lesson") /\ worker.job.of = e
  /\ LET seen == worker.seen
     IN  IF seen.memory[x].status # "absent" THEN Ends(worker.job) /\ SavesNothing
         ELSE IF memory[x].status # "absent" THEN Errs(worker.job) /\ SavesNothing
         ELSE /\ Ends(worker.job)
              /\ Saves([memory EXCEPT ![x] = Extracted(e, Cur(seen.memory[e]))], {},
                       IF EpisodeMoved(seen, e) THEN {x} ELSE {})
  /\ UNCHANGED <<source, tombs, working, uses, requests, open, vectors, indexed, faults>>

(***************************************************************************)
(* reconcile: a lesson an action failed with is paused, and a revision     *)
(* that says so waits for review.                                          *)
(***************************************************************************)
ReconcileApplies(j) ==
  /\ j.op = "matched"
  /\ memory[j.of].status \notin {"deleted", "archived", "rejected"}
  /\ memory[j.of].act \in {0, j.rev}

ReconcileRead(j) ==
  /\ Claims(j, "reconcile")
  /\ Takes(j)
  /\ IF ReconcileApplies(j) THEN Holds("reconcile", Attempt(j)) ELSE Ends(Attempt(j))
  /\ UNCHANGED <<source, tombs, working, uses, requests, open, vectors, indexed, faults>>

\* The version the action rested on is there, with its text, and has not been rewritten
\* for this command before; without that nothing is committed.
Rewritable(x, n) ==
  /\ n \in 1..Cur(memory[x])
  /\ memory[x].revs[n].text # "blank"
  /\ \A i \in 1..Cur(memory[x]) : memory[x].revs[i].why # "counterexample"

ReconcileSave ==
  /\ At("reconcile")
  /\ LET x == worker.job.of
         n == worker.job.rev
         read == worker.seen.memory[x]
         paused == [memory[x] EXCEPT !.status = Stored(read.status, @, "suspended")]
     IN  IF ~Rewritable(x, n) THEN Ends(worker.job) /\ SavesNothing
         ELSE IF Cur(memory[x]) # Cur(read) THEN Errs(worker.job) /\ SavesNothing
         ELSE /\ Ends(worker.job)
              /\ Saves([memory EXCEPT ![x] = Edited(paused, "lesson",
                          memory[x].revs[n].from, "counterexample")],
                       {SyncJob(x, read, "purge")}, Moved(worker.seen) \cap {x})
  /\ UNCHANGED <<source, tombs, working, uses, requests, open, vectors, indexed, faults>>

(***************************************************************************)
(* revalidate and purge_content.                                           *)
(***************************************************************************)
RevalidateRead(j) ==
  /\ Claims(j, "revalidate")
  /\ Takes(j)
  /\ Holds("revalidate", Attempt(j))
  /\ UNCHANGED <<source, tombs, working, uses, requests, open, vectors, indexed, faults>>

\* The rows are the ones that were read; what belongs to them, and the sources
\* and tombstones, are looked up later.
LoadedWith(look) ==
  [m \in Memories |-> [worker.seen.memory[m] EXCEPT !.revs = look.memory[m].revs]]

InvalidIn(mem, look, m) == Unsupported(mem, look.source, look.tombs, m)

\* The row as the worker knows it once withdraw_dependencies has returned.
Left(mem, look, m) ==
  LET read == worker.seen.memory[m]
      invalid == InvalidIn(mem, look, m)
  IN  IF ~Withdraws(read, m, invalid) THEN mem[m]
      ELSE IF Cur(read) \in Affected(invalid)
      THEN [status |-> "suspended", act |-> 0, revs |-> mem[m].revs]
      ELSE [mem[m] EXCEPT !.revs = Stripped(mem[m], invalid)]

\* An active memory whose evidence is gone is suspended; an episode that
\* waits for its outcome is not.
Lapses(mem, look, m) ==
  LET left == Left(mem, look, m)
  IN  /\ left.status = "active"
      /\ ~EligibleIn([mem EXCEPT ![m] = left], look.source, look.tombs, m, left.act)
      /\ ~(m \in Episodes /\ left.revs[Cur(worker.seen.memory[m])].text = "pending")

Revalidated(mem, look, m) ==
  LET row == AfterWithdrawal(worker.seen.memory[m], memory[m], m, InvalidIn(mem, look, m))
  IN  IF Lapses(mem, look, m) THEN [row EXCEPT !.status = "suspended"] ELSE row

RevalidationJobs(mem, look, m) ==
  WithdrawalJobs(worker.seen.memory[m], m, InvalidIn(mem, look, m))
    \cup IF Lapses(mem, look, m) THEN {SyncJob(m, worker.seen.memory[m], "purge")} ELSE {}

\* Memories come in any order: lessons are looked at before the episodes they
\* cite, or after them.  What is looked up is as it was before the first write,
\* or as it is now.
RevalidateSave ==
  /\ At("revalidate")
  /\ \E look \in {worker.seen, Picture} :
       LET loaded == LoadedWith(look)
           lapsed == [m \in Memories |->
                        IF m \in Episodes /\ Lapses(loaded, look, m)
                        THEN [loaded[m] EXCEPT !.status = "suspended"] ELSE loaded[m]]
       IN  \E mem \in {loaded, lapsed} :
             LET Basis(m) == IF m \in Episodes THEN loaded ELSE mem
                 Row(m) == Revalidated(Basis(m), look, m)
             IN  IF \E x \in Lessons : Clashes(worker.seen.memory[x], memory[x],
                                               InvalidIn(mem, look, x))
                 THEN Errs(worker.job) /\ SavesNothing
                 ELSE /\ Ends(worker.job)
                      /\ Saves([m \in Memories |-> Row(m)],
                               UNION {RevalidationJobs(Basis(m), look, m) : m \in Memories},
                               {m \in Moved(worker.seen) : Row(m) # memory[m]})
  /\ UNCHANGED <<source, tombs, working, uses, requests, open, vectors, indexed, faults>>

Purged(row) ==
  [row EXCEPT !.revs = [n \in 1..Cur(row) |->
      [row.revs[n] EXCEPT !.text = "blank", !.from = {}]]]

\* The retention period of a memory is over that is still deleted.  The hourly sweep of
\* purge_expired does the same for memories that have no such job.
PurgeContent(j) ==
  /\ Claims(j, "purge")
  /\ memory' = [memory EXCEPT ![j.of] = IF @.status = "deleted" THEN Purged(@) ELSE @]
  /\ QueueOn(Unclaimed(j), {})
  /\ Ends(Attempt(j))
  /\ UNCHANGED <<torn, source, tombs, working, uses, requests, open, vectors, indexed, faults>>

(***************************************************************************)
(* The end of an attempt, and what can go wrong.                           *)
(***************************************************************************)
Settle ==
  /\ At("settle")
  /\ jobs' = IF worker.ok THEN jobs
             ELSE IF worker.job.attempts >= MaxAttempts
             THEN [jobs EXCEPT !.failed = @ \cup {worker.job}]
             ELSE [jobs EXCEPT !.late = @ \cup {worker.job}]
  /\ worker' = Idle
  /\ UNCHANGED <<store, keys, torn, requests, open, vectors, indexed, faults>>

Faulty == faults < MaxFaults /\ faults' = faults + 1

\* The first transaction of a job fails.
FaultAtOnce(j) ==
  /\ Faulty
  /\ At("idle")
  /\ j \in Due
  /\ Takes(j)
  /\ Errs(Attempt(j))
  /\ UNCHANGED <<source, tombs, working, uses, requests, open, vectors, indexed>>

\* A call or a later transaction fails; a call to the vector store may have
\* taken effect all the same.
Fault ==
  /\ Faulty
  /\ worker.at \notin {"idle", "settle"}
  /\ vectors' \in {vectors, IF At("index") THEN Applied ELSE vectors}
  /\ Errs(worker.job)
  /\ UNCHANGED <<store, jobs, keys, torn, requests, open, indexed>>

\* The process dies, or the job cannot be settled: its lease runs out.
Crash ==
  /\ Faulty
  /\ worker.at # "idle"
  /\ jobs' = [jobs EXCEPT !.late = @ \cup {worker.job}]
  /\ worker' = Idle
  /\ UNCHANGED <<store, keys, torn, requests, open, vectors, indexed>>

(***************************************************************************)
(* The specification.                                                      *)
(***************************************************************************)
\* The database of a user who is new, of one who has confirmed a lesson the
\* agent proposed, which is in the index and on which an action rests, and of
\* one for whom an episode was captured before its outcome was known, and who has
\* maybe put it aside since.
History(mem, src, used) ==
  /\ memory = [m \in Memories |-> IF m \in DOMAIN mem THEN mem[m] ELSE Absent]
  /\ source = [s \in Sources |-> IF s \in DOMAIN src THEN src[s] ELSE NoSource]
  /\ uses = used /\ vectors = used /\ indexed = used

NewUser == History(<<>>, <<>>, {}) /\ keys = {}

LessonInUse(x, a) ==
  /\ keys = {}
  /\ History([m \in {x} |-> Confirmed([status |-> "candidate", act |-> 0,
                                       revs |-> <<Proposed(a)>>])],
             [s \in {a} |-> [access |-> "available", holds |-> "note"]], {<<x, 1>>})

CapturedEpisode(e, status) ==
  /\ keys = {Job("capture", e, 0, "pending")}
  /\ History([m \in {e} |-> [Captured(e, "pending") EXCEPT !.status = status]],
             [s \in {e} |-> [access |-> "available", holds |-> "pending"]], {})

Init ==
  /\ \/ NewUser
     \/ \E x \in Lessons, a \in Agents : LessonInUse(x, a)
     \/ \E e \in Episodes, status \in {"active", "suspended", "archived"} :
          CapturedEpisode(e, status)
  /\ tombs = {} /\ working = {} /\ open = {} /\ torn = {}
  /\ jobs = [queue |-> <<>>, late |-> {}, failed |-> {}]
  /\ worker = Idle
  /\ requests = 0 /\ faults = 0

UserStep ==
  \/ \E x \in Lessons, confirm \in BOOLEAN : Create(x, confirm)
  \/ \E m \in Memories, kind \in DOMAIN Allowed : Ask(kind, m)
  \/ \E c \in Conversations : AskForget(c) \/ KeepSources(c)
  \/ \E j \in jobs.failed : RetryJob(j)
  \/ \E t \in open :
       \/ Edit(t) \/ Confirm(t) \/ Reject(t) \/ SuspendOrArchive(t) \/ Delete(t)
       \/ ForgetSource(t)

AgentStep ==
  \/ \E e \in Episodes, f \in Findings : AskRecord(e, f)
  \/ \E e \in Episodes : RunFinished(e)
  \/ \E x \in Lessons, a \in Agents : AskPropose(x, a)
  \/ \E x \in Lessons : Adopt(x)
  \/ \E use \in uses, matched \in BOOLEAN : CounterExample(use[1], use[2], matched)
  \/ \E t \in open : RecordTool(t) \/ Propose(t)

\* The steps that carry a job to its end.
WorkerStep ==
  \/ \E j \in Due : SyncRead(j)
  \/ \E j \in Due, e \in Episodes : CaptureRead(j, e)
  \/ \E j \in Due : ExtractRead(j)
  \/ \E j \in Due : ReconcileRead(j)
  \/ \E j \in Due : RevalidateRead(j)
  \/ \E j \in Due : PurgeContent(j)
  \/ SyncCall \/ SyncCheck \/ SyncRecord
  \/ \E e \in Episodes : CaptureSave(e)
  \/ \E useful \in BOOLEAN : ModelAnswers(useful)
  \/ ExtractCheck
  \/ \E x \in Lessons, e \in Episodes : ExtractSave(x, e)
  \/ ReconcileSave \/ RevalidateSave
  \/ Settle

Next ==
  \/ UserStep
  \/ AgentStep
  \/ WorkerStep
  \/ \E t \in open : GivesUp(t)
  \/ \E j \in Due : FaultAtOnce(j)
  \/ Fault
  \/ Crash

Fairness == WF_vars(WorkerStep)

Spec == Init /\ [][Next]_vars /\ Fairness

(***************************************************************************)
(* Properties.                                                             *)
(***************************************************************************)
\* Whatever transactions overtake each other: what is recalled repeats nothing
\* a source of a forgotten conversation has said, however the text came about.
ForgottenIsNotRecalled ==
  \A m \in Recalled : \A s \in memory[m].revs[memory[m].act].from :
    ConversationOf[s] \notin tombs

\* Once the user has had a conversation forgotten, no memory that is left
\* repeats what its sources said: neither a version in use nor an older one,
\* neither a lesson drawn from an episode nor the conversation's working
\* memory, and no job that was under way brings it back; unless what was
\* written had been read before another transaction changed it.
ForgottenTextIsErased ==
  /\ \A m \in Memories \ torn : memory[m].status # "deleted" =>
       \A n \in 1..Cur(memory[m]) : \A s \in memory[m].revs[n].from :
         ConversationOf[s] \notin tombs
  /\ working \cap tombs \subseteq torn

\* A lesson is recalled in a version the user has confirmed and not withdrawn,
\* and with its text.
RecalledIsReviewed ==
  \A x \in (Recalled \cap Lessons) \ torn :
    LET rev == memory[x].revs[memory[x].act]
    IN  rev.review = "confirmed" /\ rev.text \notin {"blank", "bare"}

SyncJobs ==
  {j \in (UNION {jobs.queue[i] : i \in DOMAIN jobs.queue})
           \cup jobs.late \cup jobs.failed \cup {worker.job} :
     j.kind = "sync"}

\* When no entry about a version is left, its index state says whether it is
\* in the vector store, whatever failed or was done twice on the way.
IndexTellsTruth ==
  \A p \in (vectors \ indexed) \cup (indexed \ vectors) :
    \E j \in SyncJobs : Point(j) = p

\* The user confirms the newest revision of a memory, or one he has just written.
ConfirmedNow(m) ==
  \E t \in open \ open' : t.of = m /\ t.kind \in {"confirm", "amend"}

\* A memory that was paused is used again only in a version the user confirms
\* after that, and one that was deleted is not made again, whatever results, jobs
\* and requests come later; unless the transaction that does it had read the
\* memory before it was set aside.
SetAsideStays ==
  [][\A m \in Memories \ torn' :
       /\ memory[m].status = "suspended" /\ memory'[m].status = "active" => ConfirmedNow(m)
       /\ memory[m].status = "deleted" => memory'[m].status = "deleted"]_vars

\* A version that has gone out of use leaves the vector store, unless it comes
\* back into use, another version takes its place, or the job that is to take
\* it out has failed for good and waits for the user to retry it.
PausedLeavesIndex ==
  \A m \in Memories :
    LET p == <<m, Indexable(memory[m])>>
        Stale == p \in vectors /\ memory[m].status # "active"
        GivenUp == \E j \in jobs.failed : j.kind = "sync" /\ Point(j) = p
    IN  Stale ~> (~Stale \/ GivenUp \/ m \in torn)

\* What docs/memory-replacement-spec.md says of a deleted memory: the copies of
\* its history in the index are cleaned up as well.
DeletedLeavesNoVector ==
  \A m \in Memories :
    memory[m].status = "deleted" /\ (\A j \in SyncJobs : j.of # m)
      => \A p \in vectors : p[1] # m

\* What it says of a paused memory, and what a test asks for: a late result
\* leaves it paused, and a review by the user ends the pause.
PauseSurvivesLateResult ==
  [][\A m \in Memories :
       memory[m].status = "suspended" /\ memory'[m].status = "active" => ConfirmedNow(m)]_vars
=============================================================================

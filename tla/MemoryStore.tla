---------------------------- MODULE MemoryStore ----------------------------
(***************************************************************************)
(* The long-term memory of the backend, in SQL: memories with their        *)
(* revisions, the evidence each revision rests on, the sources of that     *)
(* evidence, the tombstones of what the user has had removed, and the jobs *)
(* that requests leave to the worker (module MemoryWorker).                *)
(*                                                                         *)
(* There is one owner: every query of the code filters by owner.  Episodes *)
(* are captured from results of tools; an episode and the source it is     *)
(* captured from share their key, and here their name.  Lessons are the    *)
(* memories of kind "experience".                                          *)
(*                                                                         *)
(* Nothing opens a transaction before its first write: every read up to    *)
(* then stands for itself, and the rows it has loaded are not loaded again *)
(* when another transaction changes them.  From its first write to its     *)
(* commit it is alone.  A request that reads before it writes is therefore *)
(* two steps: a call, which keeps a picture of the store as it was read,   *)
(* and the writes, which come later, or never.                             *)
(***************************************************************************)
EXTENDS Naturals, Sequences, FiniteSets

CONSTANTS
  Episodes,        \* results of tools, and the episodes captured from them
  Lessons,         \* keys of memories of kind experience
  Agents,          \* sources of the lessons the agent proposes
  Conversations,
  ConversationOf,  \* the conversation a source belongs to
  MaxRequests,     \* bound: requests of users and of the agent
  MaxOpen,         \* bound: calls that have read and not written yet
  MaxEdits         \* bound: a memory is edited while it has fewer revisions

Memories == Episodes \cup Lessons
Sources == Episodes \cup Agents

ASSUME KindsAreDisjoint ==
  Episodes \cap Lessons = {} /\ Sources \cap Lessons = {}
    /\ Episodes \cap Agents = {} /\ Conversations \cap Memories = {}
ASSUME SourcesHaveConversations == ConversationOf \in [Sources -> Conversations]
ASSUME MemoryBounds == MaxRequests \in Nat /\ MaxOpen \in Nat /\ MaxEdits \in Nat

VARIABLES
  memory,     \* memories, with their revisions
  source,     \* memory_sources: access_state and the finding in the excerpt
  tombs,      \* memory_tombstones of conversations and memories
  working,    \* conversations whose working memory holds facts
  uses,       \* versions of lessons that actions rest on, by outcome
  jobs,       \* memory_jobs that are waiting: a queue, and the backed off
  keys,       \* job_key of every job that has one worth checking
  worker,     \* where the worker is, and the job it has claimed
  vectors,    \* points in the collection of the vector store
  indexed,    \* memory_index_state: the versions marked "indexed"
  open,       \* the calls that have read and not written yet
  torn,       \* history: what was written on the word of reads that were stale by then
  requests, faults

workerSide == <<worker, vectors, indexed, faults>>

(***************************************************************************)
(* Rows.  A revision keeps its text, its review_state, its evidence links  *)
(* and why it was written; "from" is a history variable: the sources whose *)
(* content its text repeats.                                               *)
(***************************************************************************)
Findings == {"pending", "final"}
Texts == Findings \cup {"lesson", "retained", "bare", "blank"}
Reviews == {"candidate", "confirmed", "rejected", "withdrawn"}
Statuses == {"absent", "candidate", "active", "suspended", "archived",
             "rejected", "deleted"}

Access == {"absent", "available", "conversation_deleted", "forgotten"}
NoSource == [access |-> "absent", holds |-> "nothing"]

\* memory_evidence_links: a source, or a revision of an episode.
SourceLink(s) == <<s>>
EpisodeLink(e, n) == <<e, n>>
Cites(link, e) == link[1] = e

Revision(text, links, from, why) ==
  [text |-> text, review |-> "candidate", links |-> links, from |-> from,
   why |-> why]

Absent == [status |-> "absent", act |-> 0, revs |-> <<>>]
Cur(row) == Len(row.revs)
Latest(row) == row.revs[Cur(row)]

\* index_change: the revision an outbox entry is about.
Indexable(row) == IF row.act # 0 THEN row.act ELSE Cur(row)

(***************************************************************************)
(* Jobs.  "of" is what a job is about; an outbox entry and the sync_vector *)
(* job made for it are one record.                                         *)
(***************************************************************************)
Job(kind, of, rev, op) ==
  [kind |-> kind, of |-> of, rev |-> rev, op |-> op, attempts |-> 0]

SyncJob(m, row, op) == Job("sync", m, Indexable(row), op)

\* A queue of batches: the jobs of one transaction, that are due at one time.
Queued(batch) == IF batch = {} THEN <<>> ELSE <<batch>>

\* enqueue: an existing job with the same key is left alone.  Outbox entries
\* have keys of their own.
QueueOn(waiting, new) ==
  LET fresh == {j \in new : j.kind = "sync" \/ j \notin keys}
      due == {j \in fresh : j.kind # "purge"}
  IN  /\ jobs' = [queue |-> waiting.queue \o Queued(due),
                  late |-> waiting.late \cup (fresh \ due),
                  failed |-> waiting.failed]
      /\ keys' = keys \cup {j \in fresh : j.kind # "sync"}

Queue(new) == QueueOn(jobs, new)
KeepJobs == UNCHANGED <<jobs, keys>>

(***************************************************************************)
(* Evidence.  Episodes rest on sources only, so that the recursion of      *)
(* eligible() ends one level down.                                         *)
(***************************************************************************)
\* Mutant: what a source is marked with is enough.
SourceHolds_asMarked(src, tmb, s) == src[s].access # "forgotten"

SourceHolds(src, tmb, s) ==
  src[s].access # "forgotten" /\ ConversationOf[s] \notin tmb

\* What eligible() checks of a memory before it looks at its evidence.
Sound(mem, tmb, m, n) ==
  /\ mem[m].status = "active"
  /\ mem[m].act = n
  /\ n # 0
  /\ m \notin tmb
  /\ ~(m \in Episodes /\ mem[m].revs[n].text = "pending")

RestsOnSources(mem, src, tmb, m, n) ==
  \A link \in mem[m].revs[n].links :
    Len(link) = 1 => SourceHolds(src, tmb, link[1])

EpisodeHolds(mem, src, tmb, e, n) ==
  Sound(mem, tmb, e, n) /\ RestsOnSources(mem, src, tmb, e, n)

EvidenceHolds(mem, src, tmb, link) ==
  IF Len(link) = 1 THEN SourceHolds(src, tmb, link[1])
  ELSE EpisodeHolds(mem, src, tmb, link[1], link[2])

EligibleIn(mem, src, tmb, m, n) ==
  /\ Sound(mem, tmb, m, n)
  /\ \A link \in mem[m].revs[n].links : EvidenceHolds(mem, src, tmb, link)

Eligible(m, n) == EligibleIn(memory, source, tombs, m, n)

\* retrieval.search, keyword rows and vector hits alike: what may be recalled.
Recalled == {m \in Memories : Eligible(m, memory[m].act)}

(***************************************************************************)
(* Reads and writes of a transaction.                                      *)
(***************************************************************************)
Picture == [memory |-> memory, source |-> source, tombs |-> tombs]

\* The memories that were written since the picture was taken.
Moved(seen) == {m \in Memories : memory[m] # seen.memory[m]}

\* A column is written only if the value it is given differs from the loaded one.
Stored(loaded, now, value) == IF loaded = value THEN now ELSE value

(***************************************************************************)
(* withdraw_dependencies, of a row that was read some time ago.            *)
(***************************************************************************)
Unsupported(mem, src, tmb, x) ==
  UNION {{<<n, link>> : link \in {l \in mem[x].revs[n].links :
                                   ~EvidenceHolds(mem, src, tmb, l)}}
         : n \in 1..Cur(mem[x])}

Withdraws(read, x, invalid) ==
  /\ x \in Lessons
  /\ read.status \notin {"absent", "deleted"}
  /\ invalid # {}

Affected(invalid) == {p[1] : p \in invalid}

Blank(rev) ==
  [rev EXCEPT !.text = "blank", !.review = "withdrawn", !.from = {}]

\* The affected revisions lose their text and their invalid links.
Stripped(row, invalid) ==
  [n \in 1..Cur(row) |->
     LET rev == [row.revs[n] EXCEPT !.links = {l \in @ : <<n, l>> \notin invalid}]
     IN  IF n \in Affected(invalid) THEN Blank(rev) ELSE rev]

\* When the newest is among them, one that rests on what is left takes its place.
Withdrawn(read, row, invalid) ==
  LET retained == {l \in row.revs[Cur(read)].links : <<Cur(read), l>> \notin invalid}
  IN  IF Cur(read) \notin Affected(invalid)
      THEN [row EXCEPT !.revs = Stripped(row, invalid)]
      ELSE [status |-> Stored(read.status, row.status, "suspended"),
            act |-> Stored(read.act, row.act, 0),
            revs |-> Append(Stripped(row, invalid),
                       Revision(IF retained = {} THEN "bare" ELSE "retained",
                                retained, {l[1] : l \in retained}, "withdrawn"))]

\* The number of the new revision has been taken meanwhile: nothing is written.
Clashes(read, row, invalid) ==
  Cur(read) \in Affected(invalid) /\ Cur(row) # Cur(read)

AfterWithdrawal(read, row, x, invalid) ==
  IF Withdraws(read, x, invalid) THEN Withdrawn(read, row, invalid) ELSE row

WithdrawalJobs(read, x, invalid) ==
  IF Withdraws(read, x, invalid) THEN {SyncJob(x, read, "purge")} ELSE {}

(***************************************************************************)
(* Requests.                                                               *)
(***************************************************************************)
Request ==
  /\ requests < MaxRequests
  /\ requests' = requests + 1
  /\ UNCHANGED workerSide

AtOnce == Request /\ UNCHANGED <<open, torn>>

Begins(kind, of, with) ==
  /\ Request
  /\ Cardinality(open) < MaxOpen
  /\ open' = open \cup {[kind |-> kind, of |-> of, with |-> with, seen |-> Picture]}
  /\ UNCHANGED <<memory, source, tombs, working, uses, jobs, keys, torn>>

Commits(t, tears) ==
  /\ t \in open
  /\ open' = open \ {t}
  /\ torn' = torn \cup tears
  /\ UNCHANGED <<requests, workerSide>>

\* A call is refused, fails, or dies with its process: nothing is written.
GivesUp(t) ==
  /\ Commits(t, {})
  /\ UNCHANGED <<memory, source, tombs, working, uses, jobs, keys>>

Put(m, row) == memory' = [memory EXCEPT ![m] = row]

(***************************************************************************)
(* Requests of the user: create, edit and the transitions.                 *)
(***************************************************************************)
Confirmed(row) ==
  [status |-> "active", act |-> Cur(row),
   revs |-> [row.revs EXCEPT ![Cur(row)].review = "confirmed"]]

\* POST /memories: a lesson in the user's own words, to be used at once or not.
Create(x, confirm) ==
  /\ AtOnce
  /\ memory[x].status = "absent"
  /\ LET row == [status |-> "candidate", act |-> 0,
                 revs |-> <<Revision("lesson", {}, {}, "written")>>]
     IN  /\ Put(x, IF confirm THEN Confirmed(row) ELSE row)
         /\ Queue(IF confirm THEN {SyncJob(x, Confirmed(row), "upsert")} ELSE {})
  /\ UNCHANGED <<source, tombs, working, uses>>

\* The statuses an action starts from.  To amend is to edit and confirm in one.
Allowed ==
  [edit |-> {"candidate", "active", "suspended"},
   amend |-> {"candidate", "active", "suspended"},
   confirm |-> {"candidate", "active", "suspended"},
   reject |-> {"candidate", "active", "suspended"},
   suspend |-> {"active"},
   archive |-> {"active", "candidate", "suspended", "rejected"},
   delete |-> {"candidate", "active", "suspended", "rejected", "archived"}]

Confirmable(row) ==
  /\ row.status \in Allowed["confirm"]
  /\ Latest(row).review # "rejected"
  /\ Latest(row).text \notin {"blank", "bare"}

\* Mutant: the version in use can be rejected and stays in use.
Admits_activeToo(kind, row) ==
  /\ row.status \in Allowed[kind]
  /\ kind = "confirm" => Confirmable(row)
  /\ kind \in {"edit", "amend"} => Cur(row) < MaxEdits

\* What the code checks on the row it has read.
Admits(kind, row) ==
  /\ row.status \in Allowed[kind]
  /\ kind = "confirm" => Confirmable(row)
  /\ kind = "reject" => row.act # Cur(row)
  /\ kind \in {"edit", "amend"} => Cur(row) < MaxEdits

\* The user asks for it on the newest revision.
Ask(kind, m) == Admits(kind, memory[m]) /\ Begins(kind, m, "none")

Read(t) == t.seen.memory[t.of]
CommitsRow(t) == Commits(t, Moved(t.seen) \cap {t.of})

\* Sources that are forgotten, and episodes that are not eligible, cannot
\* carry a confirmation.
EvidenceForReview(row) ==
  \A link \in Latest(row).links :
    IF Len(link) = 1 THEN source[link[1]].access # "forgotten"
    ELSE EpisodeHolds(memory, source, tombs, link[1], link[2])

Edited(row, text, from, why) ==
  [row EXCEPT !.revs = Append(@, Revision(text, Latest(row).links, from, why))]

\* PATCH /memories/{id}: the write asks for the revision that was read, and the
\* confirmation in it reads the row again.
Edit(t) ==
  /\ t.kind \in {"edit", "amend"}
  /\ CommitsRow(t)
  /\ Cur(memory[t.of]) = Cur(Read(t))
  /\ LET old == memory[t.of]
         row == Edited(old, IF t.of \in Lessons THEN "lesson" ELSE Latest(old).text,
                       Latest(old).from, "written")
     IN  IF t.kind = "amend"
         THEN /\ Confirmable(row)
              /\ EvidenceForReview(row)
              /\ Put(t.of, Confirmed(row))
              /\ Queue({SyncJob(t.of, Confirmed(row), "upsert")})
         ELSE Put(t.of, row) /\ KeepJobs
  /\ UNCHANGED <<source, tombs, working, uses>>

\* The write of a transition asks for the revision and the status that were read.
Unmoved(seen, m) ==
  /\ Cur(memory[m]) = Cur(seen.memory[m])
  /\ memory[m].status = seen.memory[m].status

\* Mutant: a memory that goes out of use stays in the index.
Transition_leaveIndexed(t, row, said) ==
  /\ CommitsRow(t)
  /\ Unmoved(t.seen, t.of)
  /\ Put(t.of, row)
  /\ Queue(IF said.status = "active" THEN {SyncJob(t.of, said, "upsert")} ELSE {})

\* Every transition ends by putting the memory into the index or out of it, in
\* the version that is in use as far as the request knows: "said".
Transition(t, row, said) ==
  /\ CommitsRow(t)
  /\ Unmoved(t.seen, t.of)
  /\ Put(t.of, row)
  /\ Queue({SyncJob(t.of, said, IF said.status = "active" THEN "upsert" ELSE "purge")})

Reviewed(read, row, review) ==
  [row.revs EXCEPT ![Cur(row)].review = Stored(Latest(read).review, @, review)]

Confirm(t) ==
  /\ t.kind = "confirm"
  /\ EvidenceForReview(memory[t.of])
  /\ LET row == [status |-> "active", act |-> Cur(memory[t.of]),
                 revs |-> Reviewed(Read(t), memory[t.of], "confirmed")]
     IN  Transition(t, row, row)
  /\ UNCHANGED <<source, tombs, working, uses>>

\* Without a version in use the memory is rejected with its newest.
Reject(t) ==
  /\ t.kind = "reject"
  /\ LET status == IF Read(t).act = 0 THEN "rejected" ELSE Read(t).status
         row == [status |-> status, act |-> memory[t.of].act,
                 revs |-> Reviewed(Read(t), memory[t.of], "rejected")]
     IN  Transition(t, row, [Read(t) EXCEPT !.status = status])
  /\ UNCHANGED <<source, tombs, working, uses>>

PutAside == [suspend |-> "suspended", archive |-> "archived"]

SuspendOrArchive(t) ==
  /\ t.kind \in DOMAIN PutAside
  /\ Transition(t, [memory[t.of] EXCEPT !.status = PutAside[t.kind]],
                   [Read(t) EXCEPT !.status = PutAside[t.kind]])
  /\ UNCHANGED <<source, tombs, working, uses>>

DeletionJobs(m, row) ==
  {Job("revalidate", m, 0, "none"), Job("purge", m, 0, "none"),
   SyncJob(m, row, "purge")}

Delete(t) ==
  /\ t.kind = "delete"
  /\ CommitsRow(t)
  /\ Unmoved(t.seen, t.of)
  /\ Put(t.of, [memory[t.of] EXCEPT !.status = "deleted"])
  /\ tombs' = tombs \cup {t.of}
  /\ Queue(DeletionJobs(t.of, Read(t)))
  /\ UNCHANGED <<source, working, uses>>

(***************************************************************************)
(* POST /memories/forget-source, and the deletion of a conversation with   *)
(* memory_policy=forget.                                                   *)
(***************************************************************************)
SourcesOf(src, c) ==
  {s \in Sources : ConversationOf[s] = c /\ src[s].access # "absent"}

AskForget(c) == SourcesOf(source, c) # {} /\ Begins("forget", c, "none")

\* source_impact: everything that cites a source of the conversation, in any
\* of its revisions, directly or through an episode.
Citing(mem, targets) ==
  {m \in Memories : \E n \in 1..Cur(mem[m]), t \in targets :
      \E link \in mem[m].revs[n].links : Cites(link, t)}

Impact(mem, src, c) ==
  LET direct == {m \in Memories : \E n \in 1..Cur(mem[m]), s \in SourcesOf(src, c) :
                   SourceLink(s) \in mem[m].revs[n].links}
  IN  {m \in direct \cup Citing(mem, direct \cap Episodes) : mem[m].status # "deleted"}

\* The rows after the first pass: the sources and the memories that are marked.
ForgottenSources(seen, c) ==
  [s \in Sources |->
     IF s \in SourcesOf(seen.source, c)
     THEN [access |-> Stored(seen.source[s].access, source[s].access, "forgotten"),
           holds |-> Stored(seen.source[s].holds, source[s].holds, "nothing")]
     ELSE source[s]]

Marked(seen, items) ==
  [m \in Memories |->
     IF m \notin items THEN memory[m]
     ELSE [memory[m] EXCEPT !.status =
             IF m \in Episodes THEN "deleted"
             ELSE Stored(seen.memory[m].status, @, "suspended")]]

ForgetJobs(seen, items) ==
  UNION {IF m \in Episodes THEN DeletionJobs(m, seen.memory[m])
         ELSE {SyncJob(m, seen.memory[m], "purge")} : m \in items}

\* It acts on what it found when it looked: what cites the conversation since is
\* missed, and an episode that has changed makes it fail.
ForgetSource(t) ==
  /\ t.kind = "forget"
  /\ LET c == t.of
         items == Impact(t.seen.memory, t.seen.source, c)
         src == ForgottenSources(t.seen, c)
         tmb == tombs \cup {c} \cup (items \cap Episodes)
         marked == Marked(t.seen, items)
         Invalid(m) == Unsupported(marked, src, tmb, m)
     IN  /\ Commits(t, (items \cap Moved(t.seen)) \cup (Impact(memory, source, c) \ items))
         /\ \A m \in items :
              IF m \in Episodes THEN Unmoved(t.seen, m)
              ELSE ~Clashes(t.seen.memory[m], memory[m], Invalid(m))
         /\ source' = src
         /\ tombs' = tmb
         /\ memory' = [m \in Memories |->
                         IF m \in items
                         THEN AfterWithdrawal(t.seen.memory[m], marked[m], m, Invalid(m))
                         ELSE memory[m]]
         /\ Queue(ForgetJobs(t.seen, items) \cup {Job("revalidate", c, 0, "none")})
         /\ working' = working \ {c}
  /\ UNCHANGED uses

\* The deletion of a conversation with memory_policy=keep.  It also marks the
\* sources that have been forgotten before.
KeepSources(c) ==
  /\ AtOnce
  /\ source' = [s \in Sources |->
                  IF s \in SourcesOf(source, c)
                  THEN [source[s] EXCEPT !.access = "conversation_deleted"]
                  ELSE source[s]]
  /\ working' = working \ {c}
  /\ KeepJobs
  /\ UNCHANGED <<memory, tombs, uses>>

(***************************************************************************)
(* What runs of the agent leave behind.                                    *)
(***************************************************************************)
\* record_tool: a result updates its source, the working memory of the
\* conversation, and queues the capture of what it says.  Results only get
\* more definite.
AskRecord(e, finding) ==
  /\ ConversationOf[e] \notin tombs
  /\ source[e].holds = "final" => finding = "final"
  /\ Begins("record", e, finding)

\* A source that was not there is inserted, unless somebody else has done so.
RecordTool(t) ==
  LET e == t.of
      was == t.seen.source[e]
  IN  /\ t.kind = "record"
      /\ Commits(t, {ConversationOf[e]} \cap (tombs \ t.seen.tombs))
      /\ was.access = "absent" => source[e].access = "absent"
      /\ source' = [source EXCEPT ![e] =
                      IF was.access = "absent" THEN [access |-> "available", holds |-> t.with]
                      ELSE [@ EXCEPT !.holds = Stored(was.holds, source[e].holds, t.with)]]
      /\ working' = working \cup {ConversationOf[e]}
      /\ Queue({Job("capture", e, 0, t.with)})
      /\ UNCHANGED <<memory, tombs, uses>>

\* run_finished: the sources of the run are captured once more.
RunFinished(e) ==
  /\ AtOnce
  /\ source[e].access # "absent"
  /\ Queue({Job("capture", e, 0, "run")})
  /\ UNCHANGED <<memory, source, tombs, working, uses>>

Proposed(a) == Revision("lesson", {SourceLink(a)}, {a}, "written")

\* _propose: a candidate that cites the agent's own source.
AskPropose(x, a) ==
  /\ ConversationOf[a] \notin tombs
  /\ memory[x].status = "absent"
  /\ Begins("propose", x, a)

\* The first proposal of a run writes the source, and what it reads after that
\* is as it is now; a later one has read everything before its first write.
Propose(t) ==
  LET x == t.of
      a == t.with
      known == t.seen.source[a].access # "absent"
      fresh == memory[x].status = "absent"
  IN  /\ t.kind = "propose"
      /\ IF known THEN fresh ELSE source[a].access = "absent"
      /\ Commits(t, IF known /\ ConversationOf[a] \in tombs \ t.seen.tombs THEN {x} ELSE {})
      /\ source' = IF known THEN source
                   ELSE [source EXCEPT ![a] = [access |-> "available", holds |-> "note"]]
      /\ IF fresh /\ (known \/ ConversationOf[a] \notin tombs)
         THEN Put(x, [status |-> "candidate", act |-> 0, revs |-> <<Proposed(a)>>])
         ELSE UNCHANGED memory
      /\ KeepJobs
      /\ UNCHANGED <<tombs, working, uses>>

\* reserve() and the command it leads to: an action rests on a version that
\* can be recalled.
Adopt(x) ==
  /\ AtOnce
  /\ x \in Recalled
  /\ uses' = uses \cup {<<x, memory[x].act>>}
  /\ KeepJobs
  /\ UNCHANGED <<memory, source, tombs, working>>

\* record_feedback: the command that rests on the version has failed.
CounterExample(x, n, matched) ==
  /\ AtOnce
  /\ <<x, n>> \in uses
  /\ uses' = uses \ {<<x, n>>}
  /\ LET suspends == matched /\ memory[x].status = "active" /\ memory[x].act = n
         row == [memory[x] EXCEPT !.status = "suspended"]
         report == Job("reconcile", x, n, IF matched THEN "matched" ELSE "unmatched")
     IN  /\ IF suspends THEN Put(x, row) ELSE UNCHANGED memory
         /\ Queue(IF suspends THEN {SyncJob(x, row, "purge"), report} ELSE {report})
  /\ UNCHANGED <<source, tombs, working>>

\* POST /memories/jobs/{id}/retry
RetryJob(j) ==
  /\ AtOnce
  /\ j \in jobs.failed
  /\ jobs' = [jobs EXCEPT !.failed = @ \ {j},
                          !.queue = Append(@, {[j EXCEPT !.attempts = 0]})]
  /\ UNCHANGED <<memory, source, tombs, working, uses, keys>>
=============================================================================

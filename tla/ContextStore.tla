---------------------------- MODULE ContextStore ----------------------------
(***************************************************************************)
(* What the language model is given of a conversation, and where the rest  *)
(* of it is kept: the choice of the earlier turns that fit                 *)
(* (services/context_builder.py), the snapshot that stands for the turns   *)
(* left out (services/context_compactor.py), the files a run writes        *)
(* (services/artifacts.py), the attachments of the messages                *)
(* (api/attachments.py, api/messages.py), the deletion of runs             *)
(* (api/runs.py) and the background clean-up (services/retention.py).      *)
(*                                                                         *)
(* One conversation.  A message is known by its position; the run that     *)
(* answers a user message is kept with it.  An artifact is a row and a     *)
(* file: the file is written before the row is committed, and a clean-up   *)
(* removes one before the other.  The executor of the backend runs one     *)
(* run at a time, the one queued first.                                    *)
(***************************************************************************)
EXTENDS Integers, Sequences, FiniteSets, SequencesExt, FiniteSetsExt

CONSTANTS
    Sizes,          \* bound: sizes of a user message, in tokens
    Answers,        \* bound: sizes of an answer
    FileSize,       \* size of the text of an attachment
    Budget,         \* tokens of input a run may use
    Attachments,    \* bound: attachments
    Setups          \* how many messages before its own a run looks at, and
                    \*   bounds: the user messages, the attachments uploaded,
                    \*   the artifacts written, the crashes of the backend

ASSUME ContextAssumption ==
    /\ Sizes \cup Answers \subseteq Nat \ {0}
    /\ {FileSize, Budget} \subseteq Nat
    /\ Setups \subseteq [history : Nat, requests : Nat, uploads : SUBSET Attachments,
                         artifacts : Nat, crashes : Nat]

VARIABLES
    conv,       \* the messages, oldest first: role, size, and its run
    holder,     \* attachment -> the message that has it, or Absent, Unbound, Gone
    aged,       \* attachments uploaded longer ago than unbound ones are kept
    picked,     \* deleter of attachments -> those it is about to delete
    late,       \* attachments sent after a deleter had picked them
    rows,       \* committed artifact rows: [id, run]
    files,      \* artifacts whose file is on disk
    made,       \* artifacts made so far
    expired,    \* artifacts older than artifacts are kept
    leaving,    \* artifacts of a deleted run whose files are still to be removed
    batch,      \* what the clean-up is about to delete: picked, then unlinked
    snap,       \* the snapshot: the messages it covers and its source
    task,       \* the run that is executed
    setup       \* the configuration, and what is left of the bounds

vars == <<conv, holder, aged, picked, late, rows, files, made, expired, leaving,
          batch, snap, task, setup>>

uploads == <<holder, aged, picked, late>>
artifacts == <<rows, files, made, expired>>
cleaners == <<leaving, batch>>

Absent == -2
Gone == -1
Unbound == 0
Statuses == {"none", "queued", "running", "completed", "failed", "refused", "deleted"}
Messages == 1..Len(conv)
Requests == {k \in Messages : conv[k].role = "user"}
Running(k) == conv[k].run = "running"

NoSnapshot == [upto |-> 0, source |-> 0]
NoBatch == [pc |-> "idle", ids |-> {}]
Idle == [pc |-> "idle", run |-> 0, current |-> 0, input |-> {}, full |-> FALSE,
         cited |-> 0, upto |-> 0, saved |-> {}, file |-> 0, tool |-> FALSE]

Ids == {r.id : r \in rows}
FreshId == made + 1

-----------------------------------------------------------------------------
(***************************************************************************)
(* The choice of the turns.                                                *)
(***************************************************************************)

\* The newest messages, as many as a run looks at, its own included.
Window == {k \in Messages : k > Len(conv) - (setup.history + 1)}

\* A user message of the history h and what follows it before the next one.
Turn(h, u) ==
    {k \in h : k >= u /\ \A v \in Requests \cap h : v > u => k < v}

Text(S) == MapThenSumSet(LAMBDA k : conv[k].size, S)
Bodies(u) == FileSize * Cardinality({a \in Attachments : holder[a] = u})

\* From the newest turn to the oldest: with its attachments if that fits,
\* without their text if that does, else not at all.
Take(h, acc, u) ==
    LET slim == acc.used + Text(Turn(h, u))
        whole == slim + Bodies(u)
    IN IF slim > Budget THEN acc
       ELSE [used |-> IF whole <= Budget THEN whole ELSE slim,
             kept |-> acc.kept \cup Turn(h, u)]

\* The messages of the history h that go along with the current one.
Chosen(h, current) ==
    FoldLeft(LAMBDA acc, u : Take(h, acc, u),
             [used |-> conv[current].size + Bodies(current), kept |-> {}],
             SetToSortSeq(Requests \cap h, >)).kept

-----------------------------------------------------------------------------
Init ==
    /\ conv = <<>>
    /\ holder = [a \in Attachments |-> Absent]
    /\ aged = {}
    /\ picked = [d \in {"retention", "request"} |-> {}]
    /\ late = {}
    /\ rows = {} /\ files = {} /\ made = 0 /\ expired = {}
    /\ leaving = {}
    /\ batch = NoBatch
    /\ snap = NoSnapshot
    /\ task = Idle
    /\ setup \in Setups

(***************************************************************************)
(* Requests.                                                               *)
(***************************************************************************)
Upload(a) ==
    /\ holder[a] = Absent /\ a \in setup.uploads
    /\ holder' = [holder EXCEPT ![a] = Unbound]
    /\ UNCHANGED <<conv, aged, picked, late, artifacts, cleaners, snap, task, setup>>

\* A message with attachments: all of them must still be there and unbound.
Submit(size, as) ==
    /\ Cardinality(Requests) < setup.requests
    /\ \A a \in as : holder[a] = Unbound
    /\ conv' = Append(conv, [role |-> "user", size |-> size, run |-> "queued"])
    /\ holder' = [a \in Attachments |-> IF a \in as THEN Len(conv) + 1 ELSE holder[a]]
    /\ late' = late \cup (as \cap UNION {picked[d] : d \in DOMAIN picked})
    /\ UNCHANGED <<aged, picked, artifacts, cleaners, snap, task, setup>>

\* A retry sends the text of the message again, without its attachments.
Retry(k) ==
    /\ Cardinality(Requests) < setup.requests
    /\ conv[k].run = "failed"
    /\ conv' = Append(conv, [conv[k] EXCEPT !.run = "queued"])
    /\ UNCHANGED <<uploads, artifacts, cleaners, snap, task, setup>>

\* delete_unbound_attachment finds the attachment unbound ...
WantDelete(a) ==
    /\ picked["request"] = {}
    /\ holder[a] = Unbound
    /\ picked' = [picked EXCEPT !["request"] = {a}]
    /\ UNCHANGED <<conv, holder, aged, late, artifacts, cleaners, snap, task, setup>>

\* ... and deletes it by its id, like the clean-up.
DropPicked(d) ==
    /\ picked[d] # {}
    /\ holder' = [a \in Attachments |-> IF a \in picked[d] THEN Gone ELSE holder[a]]
    /\ picked' = [picked EXCEPT ![d] = {}]
    /\ UNCHANGED <<conv, aged, late, artifacts, cleaners, snap, task, setup>>

\* A finished run is deleted, with its artifacts and the snapshot made from
\* one of them; its files are removed afterwards.
DeleteRun(k) ==
    LET own == {r \in rows : r.run = k}
    IN /\ conv[k].run \in {"completed", "failed", "refused"}
       /\ conv' = [conv EXCEPT ![k].run = "deleted"]
       /\ rows' = rows \ own
       /\ leaving' = leaving \cup {r.id : r \in own}
       /\ snap' = IF \E r \in own : r.id = snap.source THEN NoSnapshot ELSE snap
       /\ UNCHANGED <<uploads, files, made, expired, batch, task, setup>>

\* A file that cannot be removed stays.
RemoveFile(n) ==
    /\ n \in leaving
    /\ leaving' = leaving \ {n}
    /\ files' \in {files, files \ {n}}
    /\ UNCHANGED <<conv, uploads, rows, made, expired, batch, snap, task, setup>>

(***************************************************************************)
(* Clean-up: attachments that were never sent, artifacts that expired.     *)
(***************************************************************************)
Age(a) ==
    /\ holder[a] = Unbound /\ a \notin aged
    /\ aged' = aged \cup {a}
    /\ UNCHANGED <<conv, holder, picked, late, artifacts, cleaners, snap, task, setup>>

PickAttachments_bound ==
    LET old == {a \in aged : holder[a] >= Unbound}
    IN /\ picked["retention"] = {} /\ old # {}
       /\ picked' = [picked EXCEPT !["retention"] = old]
       /\ UNCHANGED <<conv, holder, aged, late, artifacts, cleaners, snap, task, setup>>

PickAttachments ==
    LET old == {a \in aged : holder[a] = Unbound}
    IN /\ picked["retention"] = {} /\ old # {}
       /\ picked' = [picked EXCEPT !["retention"] = old]
       /\ UNCHANGED <<conv, holder, aged, late, artifacts, cleaners, snap, task, setup>>

\* Artifacts are kept for hours, longer than any run lasts.
Expire(r) ==
    /\ ~Running(r.run) /\ r.id \notin expired
    /\ expired' = expired \cup {r.id}
    /\ UNCHANGED <<conv, uploads, rows, files, made, cleaners, snap, task, setup>>

PickArtifacts_all ==
    /\ batch.pc = "idle" /\ Ids \cap expired # {}
    /\ batch' = [pc |-> "picked", ids |-> Ids \cap expired]
    /\ UNCHANGED <<conv, uploads, artifacts, leaving, snap, task, setup>>

PickArtifacts ==
    LET old == (Ids \cap expired) \ {snap.source}
    IN /\ batch.pc = "idle" /\ old # {}
       /\ batch' = [pc |-> "picked", ids |-> old]
       /\ UNCHANGED <<conv, uploads, artifacts, leaving, snap, task, setup>>

\* Files that cannot be removed stay, and so do their rows.
Unlink(removed) ==
    /\ batch.pc = "picked"
    /\ files' = files \ removed
    /\ batch' = [pc |-> "unlinked", ids |-> removed]
    /\ UNCHANGED <<conv, uploads, rows, made, expired, leaving, snap, task, setup>>

DeleteRows ==
    /\ batch.pc = "unlinked"
    /\ rows' = {r \in rows : r.id \notin batch.ids}
    /\ batch' = NoBatch
    /\ UNCHANGED <<conv, uploads, files, made, expired, leaving, snap, task, setup>>

(***************************************************************************)
(* The executor.                                                           *)
(***************************************************************************)
Set(k, status) == conv' = [conv EXCEPT ![k].run = status]

\* The oldest queued run is claimed and its input chosen from the newest
\* messages; a run that is not among them answers the newest one.
Begin(k) ==
    LET current == IF k \in Window THEN k ELSE Len(conv)
        history == Window \ {current}
        kept == Chosen(history, current)
    IN /\ task = Idle
       /\ conv[k].run = "queued" /\ \A j \in Requests : conv[j].run = "queued" => k <= j
       /\ IF conv[current].size + Bodies(current) > Budget
          THEN Set(k, "refused") /\ UNCHANGED task
          ELSE /\ Set(k, "running")
               /\ task' = [Idle EXCEPT !.pc = "history", !.run = k, !.current = current,
                                       !.input = kept,
                                       !.full = \/ history # kept
                                                \/ Cardinality(Window) = setup.history + 1]
       /\ UNCHANGED <<uploads, artifacts, cleaners, snap, setup>>

\* The earlier messages that the input leaves out.
Omitted == 1..(task.current - 1) \ task.input

Resume_any ==
    /\ task.pc = "history"
    /\ \/ (~task.full \/ Omitted = {}) /\ task' = [task EXCEPT !.pc = "stream"]
       \/ /\ task.full /\ snap # NoSnapshot
          /\ task' = [task EXCEPT !.pc = "stream", !.cited = snap.upto]
    /\ UNCHANGED <<conv, uploads, artifacts, cleaners, snap, setup>>

\* Nothing is left out, or a snapshot that covers as much is there already.
Resume ==
    /\ task.pc = "history"
    /\ \/ (~task.full \/ Omitted = {}) /\ task' = [task EXCEPT !.pc = "stream"]
       \/ /\ task.full /\ Omitted # {} /\ snap.upto >= Max(Omitted)
          /\ task' = [task EXCEPT !.pc = "stream", !.cited = snap.upto]
    /\ UNCHANGED <<conv, uploads, artifacts, cleaners, snap, setup>>

\* A file is written; the row follows in a transaction of its own.
WriteFile(pc) ==
    /\ made < setup.artifacts
    /\ made' = FreshId
    /\ files' = files \cup {FreshId}
    /\ task' = [task EXCEPT !.pc = pc, !.file = FreshId,
                            !.upto = IF pc = "snapshot" THEN Max(Omitted) ELSE 0]
    /\ UNCHANGED <<conv, uploads, rows, expired, cleaners, snap, setup>>

WriteTranscript ==
    /\ task.pc = "history" /\ task.full
    /\ Omitted # {} /\ snap.upto < Max(Omitted)
    /\ WriteFile("snapshot")

WriteRow == rows' = rows \cup {[id |-> task.file, run |-> task.run]}

\* The snapshot replaces the one that was there.
SaveSnapshot ==
    /\ task.pc = "snapshot"
    /\ WriteRow
    /\ snap' = [upto |-> task.upto, source |-> task.file]
    /\ task' = [task EXCEPT !.pc = "stream", !.cited = task.upto]
    /\ UNCHANGED <<conv, uploads, files, made, expired, cleaners, setup>>

\* A tool is called; an output too large for an event becomes an artifact.
StartTool ==
    /\ task.pc = "stream" /\ ~task.tool
    /\ task' = [task EXCEPT !.tool = TRUE]
    /\ UNCHANGED <<conv, uploads, artifacts, cleaners, snap, setup>>

WriteOutput == task.pc = "stream" /\ task.tool /\ WriteFile("output")

FlushOutput ==
    /\ task.pc = "output"
    /\ WriteRow
    /\ task' = [task EXCEPT !.pc = "stream"]
    /\ UNCHANGED <<conv, uploads, files, made, expired, cleaners, snap, setup>>

\* The input of the second attempt: the current message, and the turn before
\* it unless that one is long.
Shorter ==
    LET asked == Requests \cap task.input
    IN IF asked = {} THEN {{}} ELSE {{}, Turn(task.input, Max(asked))}

\* The model finds the input too long.  What it was given is saved and the
\* model is asked once more, if no tool was called.  (What comes from memory is
\* part of the input too and is always left out the second time.)
TooLong ==
    /\ task.pc = "stream" /\ ~task.tool /\ task.saved = {}
    /\ WriteFile("compact")

SaveInput(less) ==
    /\ task.pc = "compact"
    /\ WriteRow
    /\ task' = [task EXCEPT !.pc = "stream", !.input = less, !.cited = 0,
                            !.saved = {task.current} \cup task.input \cup 1..task.cited]
    /\ UNCHANGED <<conv, uploads, files, made, expired, cleaners, snap, setup>>

Complete(size) ==
    /\ task.pc = "stream"
    /\ conv' = Append([conv EXCEPT ![task.run].run = "completed"],
                      [role |-> "assistant", size |-> size, run |-> "none"])
    /\ task' = Idle
    /\ UNCHANGED <<uploads, artifacts, cleaners, snap, setup>>

\* Any step of the execution may fail or be cancelled.
Fail ==
    /\ task # Idle
    /\ Set(task.run, "failed")
    /\ task' = Idle
    /\ UNCHANGED <<uploads, artifacts, cleaners, snap, setup>>

\* The backend is killed and started again.
Crash ==
    /\ setup.crashes > 0
    /\ setup' = [setup EXCEPT !.crashes = @ - 1]
    /\ conv' = [k \in Messages |->
                    IF Running(k) THEN [conv[k] EXCEPT !.run = "failed"] ELSE conv[k]]
    /\ task' = Idle
    /\ picked' = [d \in DOMAIN picked |-> {}]
    /\ leaving' = {} /\ batch' = NoBatch
    /\ UNCHANGED <<holder, aged, late, artifacts, snap>>

Next ==
    \/ \E a \in Attachments : Upload(a) \/ WantDelete(a) \/ Age(a)
    \/ \E size \in Sizes, as \in SUBSET Attachments : Submit(size, as)
    \/ \E k \in Requests : Retry(k) \/ DeleteRun(k) \/ Begin(k)
    \/ \E d \in DOMAIN picked : DropPicked(d)
    \/ \E n \in leaving : RemoveFile(n)
    \/ PickAttachments \/ PickArtifacts \/ DeleteRows
    \/ \E r \in rows : Expire(r)
    \/ \E removed \in SUBSET batch.ids : Unlink(removed)
    \/ Resume \/ WriteTranscript \/ SaveSnapshot
    \/ StartTool \/ WriteOutput \/ FlushOutput
    \/ TooLong
    \/ \E less \in Shorter : SaveInput(less)
    \/ \E size \in Answers : Complete(size)
    \/ Fail \/ Crash

Spec == Init /\ [][Next]_vars

-----------------------------------------------------------------------------
\* The types of the variables.
TypeOK ==
    /\ \A k \in Messages :
          /\ conv[k].role \in {"user", "assistant"} /\ conv[k].size \in Sizes \cup Answers
          /\ conv[k].run \in Statuses
          /\ conv[k].run = "none" <=> conv[k].role = "assistant"
    /\ \A a \in Attachments : holder[a] \in {Absent, Gone, Unbound} \cup Requests
    /\ Ids \cup files \cup expired \cup leaving \cup batch.ids \subseteq 1..made
    /\ snap.upto \in {0} \cup Messages /\ snap.source \in 0..made
    /\ task.input \cup {task.cited} \subseteq {0} \cup Messages

\* While the model answers, every message before the current one is before
\* it, stands in the snapshot it was given, or is in the transcript that was
\* saved when its input was shortened - whose row and file exist.
NothingIsLost ==
    task.pc \in {"stream", "output", "compact"} =>
        \A k \in 1..(task.current - 1) :
            \/ k \in task.input
            \/ k <= task.cited
            \/ k \in task.saved

\* The transcript behind a snapshot can be read: its row and its file are
\* there, whatever was deleted, cleaned up or killed meanwhile.  A row without
\* a file is that of an expired artifact.
ContextIsRecoverable ==
    /\ snap # NoSnapshot => snap.source \in Ids \cap files
    /\ Ids \subseteq files \cup expired

\* An attachment that was sent stays with its message.  Excepted: one that a
\* deleter had found unbound just before it was sent.
SentAttachmentsStay ==
    [][\A a \in Attachments : holder[a] > 0 /\ a \notin late => holder'[a] = holder[a]]_vars
=============================================================================

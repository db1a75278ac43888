---------------------------- MODULE RepairLedger ----------------------------
(***************************************************************************)
(* The repairs of one run.  The tool calls of a run are made one at a time *)
(* (boundary_lock): a repair needs a diagnosis the run has made of the     *)
(* device, reserves one of a limited number of attempts in                 *)
(* memory_action_links and carries a correlation key to the control        *)
(* service.  The run and the memory worker ask the service what has become *)
(* of the action and save its answers; a failure the run hears of is       *)
(* diagnosed again before the device is acted on once more.                *)
(*                                                                         *)
(* The service is module CommandControl; here it is the state of the       *)
(* action under each correlation key.  An answer is what the action was    *)
(* when the service was asked, and it may be saved after a later one.      *)
(*                                                                         *)
(* Every action adopts an experience, whose feedback it then is.           *)
(***************************************************************************)
EXTENDS ToolCatalogue, Sequences, FiniteSets

CONSTANTS
  Devices,
  NoDevice,      \* a call that is not about a device
  ActTool,       \* execute_device_action
  ProposeTool,   \* create_remediation_proposal
  DecideTool,    \* decide_remediation_proposal
  MaxReads,      \* read calls of the new diagnoses of a run: 14
  MaxAttempts,   \* memory_job_max_attempts
  MaxTraces,     \* bound: diagnoses
  Mixes          \* agent_repair_max_attempts when the run was created, as limit, the
                 \* devices the run is about, and bounds: how many steps of each kind
                 \* are explored with them

ASSUME LimitsArePositive == \A mix \in Mixes : mix.limit \in Nat \ {0}
ASSUME AttemptsArePositive == MaxAttempts \in Nat \ {0}
ASSUME LedgerBounds == MaxReads \in Nat /\ MaxTraces \in Nat

VARIABLES
  run,      \* agent_runs: its status, is its deadline over, its pinned limit, its
            \* read calls and the tools it was given
  trusted,  \* RemediationCorrelationState: the diagnosis of each device, or 0
  call,     \* the tool call under way
  ledger,   \* memory_action_links of the run, by time of creation
  action,   \* external: the control service's record of each of them
  traces,   \* external: the devices of the diagnoses that were stored
  job,      \* track_action of each link
  tracker,  \* the memory worker
  age       \* how old the links are

ledgerVars == <<run, trusted, call, ledger, action, traces, job, tracker, age>>
vars == <<catalogue, ledgerVars, quota>>

ActionTools == {ActTool, ProposeTool}
Links == DOMAIN ledger

\* Commands of the service and proposals that have none.
HasCommand(state) == state \in {"queued", "succeeded", "failed", "unclear"}
Final(state) == state \in {"succeeded", "failed", "rejected"}

\* An answer: the state it tells and the id it was asked by, which decides how
\* the result looks and so its hash.  "key": the correlation key, also for the
\* response of the request itself.
Answer(state, by) == [state |-> state, by |-> by]
NoAnswer == Answer("absent", "key")

NoRedo == [of |-> NoAnswer, id |-> 0, fresh |-> FALSE]

Reserved(s, t, d) ==
  [server |-> s, tool |-> t, device |-> d, diagnosis |-> trusted[d],
   reservation |-> "reserved", outcome |-> "pending", saved |-> NoAnswer,
   command |-> FALSE, proposal |-> FALSE, redo |-> NoRedo,
   feedback |-> "none", followup |-> FALSE, overtaken |-> FALSE]

Requested == [state |-> "absent", flying |-> TRUE, failedAt |-> 0]

NoCall == [at |-> "none", of |-> 0, device |-> NoDevice, answer |-> NoAnswer, step |-> 0]
Asking == [at |-> "idle", of |-> 0, answer |-> NoAnswer]

\* prepare_arguments: an action goes by the diagnosis of its device.
Trusts(d) == trusted[d] # 0

Live == run.status = "running"
CanCall == Live /\ call.at = "none"

(***************************************************************************)
(* Diagnosis by the agent.                                                 *)
(***************************************************************************)
\* begin_tool_call: what the run knew of the device does not count any more.
Diagnose(d) ==
  /\ CanCall /\ d \in quota.devices
  /\ trusted' = [trusted EXCEPT ![d] = 0]
  /\ call' = [NoCall EXCEPT !.at = "diagnosing", !.device = d]
  /\ UNCHANGED <<catalogue, run, ledger, action, traces, job, tracker, age, quota>>

DiagnosisReturns ==
  /\ call.at = "diagnosing" /\ Len(traces) < MaxTraces
  /\ traces' = Append(traces, call.device)
  /\ trusted' = [trusted EXCEPT ![call.device] = Len(traces')]
  /\ call' = NoCall
  /\ UNCHANGED <<catalogue, run, ledger, action, job, tracker, age, quota>>

(***************************************************************************)
(* reserve: the checks before an action, and its row.                      *)
(***************************************************************************)
OfDevice(s, d) == {i \in Links : ledger[i].server = s /\ ledger[i].device = d}

Held == {i \in Links : ledger[i].reservation # "released"}

Recovered(s, d) == \E i \in OfDevice(s, d) : ledger[i].outcome = "succeeded"

Unresolved(s, d) ==
  \E i \in OfDevice(s, d) \cap Held : ledger[i].outcome \in {"pending", "inconclusive"}

FailedLinks(s, d) == {i \in OfDevice(s, d) \cap Held : ledger[i].outcome = "failed"}

\* Mutant: any diagnosis of the device will do.
DiagnosedAgain_anyhow(s, d) ==
  \A i \in FailedLinks(s, d) : trusted[d] # 0

\* The latest failure has been diagnosed again, with new evidence, and the
\* action goes by that diagnosis.
DiagnosedAgain(s, d) ==
  \A i \in FailedLinks(s, d) :
    (\A j \in FailedLinks(s, d) : j <= i) =>
      /\ ledger[i].redo.id # 0
      /\ ledger[i].redo.id = trusted[d]
      /\ ledger[i].redo.fresh

\* Mutant: only the attempts whose commands are known count.
Room_usedOnly == Cardinality({i \in Held : ledger[i].reservation = "used"}) < run.limit

Room == Cardinality(Held) < run.limit

\* The row is committed with its tracking job before the request is sent.
Reserve(s, t, d) ==
  /\ CanCall /\ <<s, t>> \in run.offered /\ t \in ActionTools
  /\ Trusts(d) /\ ~run.late
  /\ ~Recovered(s, d) /\ ~Unresolved(s, d)
  /\ Room /\ DiagnosedAgain(s, d)
  /\ Spend(IF t = ActTool THEN "acts" ELSE "proposals")
  /\ ledger' = Append(ledger, Reserved(s, t, d))
  /\ action' = Append(action, Requested)
  /\ job' = Append(job, [state |-> "due", attempts |-> 0])
  /\ call' = [NoCall EXCEPT !.at = "acting", !.of = Len(ledger')]
  /\ UNCHANGED <<catalogue, run, trusted, traces, tracker, age>>

(***************************************************************************)
(* External: the request reaches the control service, or is lost.  The     *)
(* caller may have given up by then.                                       *)
(***************************************************************************)
Created(t) == IF t = ActTool THEN "queued" ELSE "proposed"

\* refused: a validation error of the list in save_result; error: any other.
Arrive(i, reply) ==
  /\ action[i].flying
  /\ action' = [action EXCEPT ![i] =
       [@ EXCEPT !.flying = FALSE,
                 !.state = IF reply = "created" THEN Created(ledger[i].tool) ELSE "absent"]]
  /\ call' = IF call.at = "acting" /\ call.of = i
             THEN [call EXCEPT !.at = "answered",
                     !.answer = Answer(IF reply = "created" THEN Created(ledger[i].tool)
                                       ELSE reply, "key")]
             ELSE call
  /\ UNCHANGED <<catalogue, run, trusted, ledger, traces, job, tracker, age, quota>>

RequestLost(i) ==
  /\ action[i].flying /\ Spend("faults")
  /\ action' = [action EXCEPT ![i].flying = FALSE]
  /\ UNCHANGED <<catalogue, run, trusted, call, ledger, traces, job, tracker, age>>

Becomes(i, state) ==
  action' = [action EXCEPT ![i] =
    [@ EXCEPT !.state = state, !.failedAt = IF state = "failed" THEN Len(traces) ELSE 0]]

Service(i, from, state) ==
  /\ action[i].state = from
  /\ Becomes(i, state)
  /\ UNCHANGED <<catalogue, run, trusted, call, ledger, traces, job, tracker, age, quota>>

\* decide_proposal of the backend: the administrator's decision is passed to
\* the one server that takes decisions.
Decider(s) == Resolves(s, DecideTool, "approval_required")

Decide(i, decision) ==
  /\ Decider(ledger[i].server)
  /\ Service(i, "proposed", IF decision = "approved" THEN "queued" ELSE "rejected")

Expire(i) == Service(i, "proposed", "rejected")

Settle(i, state) == Service(i, "queued", state)
(***************************************************************************)
(* save_result: an answer is written into the row of its action.           *)
(***************************************************************************)
\* normalize_result, for what the service reports.
Outcome(state) ==
  CASE state = "succeeded" -> "succeeded"
    [] state = "failed"    -> "failed"
    [] state = "unclear"   -> "inconclusive"
    [] state = "rejected"  -> "not_executed"
    [] OTHER -> IF age = "new" THEN "pending" ELSE "inconclusive"

\* Mutant: the last outcome counts, whatever was known before.
Feedback_latest(row, outcome) ==
  IF outcome \in {"succeeded", "failed", "inconclusive"} THEN outcome ELSE row.feedback

\* record_feedback: only an inconclusive one may still change, to a final one.
Feedback(row, outcome) ==
  IF \/ row.feedback = "none" /\ outcome \in {"succeeded", "failed", "inconclusive"}
     \/ row.feedback = "inconclusive" /\ outcome \in {"succeeded", "failed"}
  THEN outcome ELSE row.feedback

\* What an answer tells at any rate: the ids of the command and the proposal.
Identified(row, answer) ==
  [row EXCEPT
     !.command = @ \/ HasCommand(answer.state),
     !.reservation = IF HasCommand(answer.state) THEN "used" ELSE @,
     !.proposal = @ \/ (row.tool = ProposeTool /\ answer.by # "command")]

Resolved(row, answer) ==
  LET outcome == Outcome(answer.state)
      known == Identified(row, answer)
  IN  [known EXCEPT
         !.reservation = IF outcome = "not_executed" THEN "released" ELSE @,
         !.saved = answer, !.outcome = outcome,
         !.feedback = IF known.command THEN Feedback(row, outcome) ELSE @,
         !.followup = @ \/ (outcome = "failed" /\ ~Live),
         !.overtaken = Final(row.saved.state) /\ ~Final(answer.state)]

\* Only a definite refusal gives the attempt back; an answer whose hash is
\* known changes nothing else.
Saved(row, answer) ==
  CASE answer.state = "refused" ->
         [row EXCEPT !.reservation = "released", !.outcome = "not_executed"]
    [] answer.state = "error"   -> row
    [] answer = row.saved       -> Identified(row, answer)
    [] OTHER -> Resolved(row, answer)

Write(i, row) == ledger' = [ledger EXCEPT ![i] = row]

(***************************************************************************)
(* The end of a call, and the new diagnosis of a failure.                  *)
(***************************************************************************)
\* The agent asks for the result of an action it knows of.
AskResult(i, by) ==
  /\ CanCall /\ action[i].state # "absent"
  /\ by = "command" => HasCommand(action[i].state)
  /\ by = "proposal" => ledger[i].tool = ProposeTool
  /\ call' = [NoCall EXCEPT !.at = "answered", !.of = i, !.answer = Answer(action[i].state, by)]
  /\ UNCHANGED <<catalogue, run, trusted, ledger, action, traces, job, tracker, age, quota>>

\* finish finds the row by the id the agent has asked for.
Finds(row, answer) ==
  CASE answer.by = "key"      -> TRUE
    [] answer.by = "command"  -> row.command
    [] answer.by = "proposal" -> row.proposal

\* rediagnose: the diagnosis there is is taken; a new one that is begun drops it.
Redone(row) == row.redo.id # 0 /\ row.redo.of = row.saved

AfterSave(i, row) ==
  IF row.outcome # "failed" \/ run.late
  THEN Write(i, row) /\ call' = NoCall /\ UNCHANGED trusted
  ELSE IF Redone(row)
  THEN /\ Write(i, row) /\ call' = NoCall
       /\ trusted' = [trusted EXCEPT ![row.device] = row.redo.id]
  ELSE /\ Write(i, [row EXCEPT !.redo = NoRedo])
       /\ call' = [call EXCEPT !.at = "redoing", !.answer = row.saved]
       /\ UNCHANGED trusted

Finish ==
  /\ call.at = "answered"
  /\ IF Finds(ledger[call.of], call.answer)
     THEN AfterSave(call.of, Saved(ledger[call.of], call.answer))
     ELSE call' = NoCall /\ UNCHANGED <<ledger, trusted>>
  /\ UNCHANGED <<catalogue, run, action, traces, job, tracker, age, quota>>

\* bounded_call: status, then logs, then the diagnosis itself.
CanRead == call.at = "redoing" /\ ~run.late /\ run.reads < MaxReads

RedoRead ==
  /\ CanRead /\ call.step < 2
  /\ run' = [run EXCEPT !.reads = @ + 1]
  /\ call' = [call EXCEPT !.step = @ + 1]
  /\ UNCHANGED <<catalogue, trusted, ledger, action, traces, job, tracker, age, quota>>

RedoDiagnose ==
  /\ CanRead /\ call.step = 2 /\ Len(traces) < MaxTraces
  /\ run' = [run EXCEPT !.reads = @ + 1]
  /\ traces' = Append(traces, ledger[call.of].device)
  /\ call' = [call EXCEPT !.at = "redone", !.step = Len(traces')]
  /\ UNCHANGED <<catalogue, trusted, ledger, action, job, tracker, age, quota>>

\* The failure must still be the one that was diagnosed.
RedoStore(fresh) ==
  /\ call.at = "redone"
  /\ LET i == call.of
     IN  IF ledger[i].saved = call.answer /\ ~run.late
         THEN /\ ledger' = [ledger EXCEPT ![i].redo =
                              [of |-> call.answer, id |-> call.step, fresh |-> fresh]]
              /\ trusted' = [trusted EXCEPT ![ledger[i].device] = call.step]
         ELSE UNCHANGED <<ledger, trusted>>
  /\ call' = NoCall
  /\ UNCHANGED <<catalogue, run, action, traces, job, tracker, age, quota>>

\* The remote call raises, times out or may not be made any more: what has
\* been begun is dropped, and a request that was sent may still arrive.
CallFails ==
  /\ call.at \in {"diagnosing", "acting", "answered", "redoing"}
  /\ Spend("faults")
  /\ call' = NoCall
  /\ UNCHANGED <<catalogue, run, trusted, ledger, action, traces, job, tracker, age>>

RedoRefused ==
  /\ call.at = "redoing" /\ (run.late \/ run.reads = MaxReads)
  /\ call' = NoCall
  /\ UNCHANGED <<catalogue, run, trusted, ledger, action, traces, job, tracker, age, quota>>

(***************************************************************************)
(* The run begins with the tools the catalogue offers; it ends by itself,  *)
(* is stopped or dies with its process, wherever its call is.              *)
(***************************************************************************)
Begin ==
  /\ run.status = "queued" /\ Spend("runs")
  /\ run' = [run EXCEPT !.status = "running", !.offered = Offered]
  /\ UNCHANGED <<catalogue, trusted, call, ledger, action, traces, job, tracker, age>>

RunCompletes ==
  /\ CanCall
  /\ run' = [run EXCEPT !.status = "completed"]
  /\ UNCHANGED <<catalogue, trusted, call, ledger, action, traces, job, tracker, age, quota>>

RunStops ==
  /\ Live
  /\ run' = [run EXCEPT !.status = "failed"]
  /\ call' = NoCall
  /\ UNCHANGED <<catalogue, trusted, ledger, action, traces, job, tracker, age, quota>>

DeadlinePasses ==
  /\ Live /\ ~run.late
  /\ run' = [run EXCEPT !.late = TRUE]
  /\ UNCHANGED <<catalogue, trusted, call, ledger, action, traces, job, tracker, age, quota>>

\* new: less than a day (tracking_until); old: less than seven.
LinksAge ==
  /\ ledger # <<>> /\ ~Live
  /\ \/ age = "new" /\ age' = "old"
     \/ age = "old" /\ age' = "past"
  /\ UNCHANGED <<catalogue, run, trusted, call, ledger, action, traces, job, tracker, quota>>

(***************************************************************************)
(* track, in the memory worker.                                            *)
(***************************************************************************)
Attempted(i) == job[i].attempts + 1

FailedAttempt(i) ==
  job' = [job EXCEPT ![i] =
    [state |-> IF Attempted(i) >= MaxAttempts THEN "failed" ELSE "due",
     attempts |-> Attempted(i)]]

Done(i) == job' = [job EXCEPT ![i] = [@ EXCEPT !.state = "done"]]

\* The ids the row has when the job is claimed say what is asked.
QueryBy(i) ==
  IF ledger[i].command THEN "command" ELSE IF ledger[i].proposal THEN "proposal" ELSE "key"

CanTrack(i) == tracker.at = "idle" /\ job[i].state = "due"

TrackReleased(i) ==
  /\ CanTrack(i) /\ ledger[i].reservation = "released"
  /\ Done(i)
  /\ UNCHANGED <<catalogue, run, trusted, call, ledger, action, traces, tracker, age, quota>>

TrackAsk(i) ==
  /\ CanTrack(i) /\ ledger[i].reservation # "released"
  /\ IF Active(ledger[i].server) /\ server[ledger[i].server].enabled /\ action[i].state # "absent"
     THEN /\ tracker' = [at |-> "saving", of |-> i, answer |-> Answer(action[i].state, QueryBy(i))]
          /\ UNCHANGED job
     ELSE FailedAttempt(i) /\ UNCHANGED tracker
  /\ UNCHANGED <<catalogue, run, trusted, call, ledger, action, traces, age, quota>>

TrackFails(i) ==
  /\ CanTrack(i) /\ ledger[i].reservation # "released" /\ Spend("faults")
  /\ FailedAttempt(i)
  /\ UNCHANGED <<catalogue, run, trusted, call, ledger, action, traces, tracker, age>>

\* Mutant: an inconclusive result is not asked for again.
TrackSave_pendingOnly ==
  /\ tracker.at = "saving"
  /\ LET i == tracker.of
     IN  /\ Write(i, Saved(ledger[i], tracker.answer))
         /\ IF ledger'[i].outcome = "pending" /\ age # "past"
            THEN job' = [job EXCEPT ![i] = [state |-> "due", attempts |-> 0]]
            ELSE Done(i)
  /\ tracker' = Asking
  /\ UNCHANGED <<catalogue, run, trusted, call, action, traces, age, quota>>

\* A result that is open is asked for again, by a new job, for seven days.
TrackSave ==
  /\ tracker.at = "saving"
  /\ LET i == tracker.of
     IN  /\ Write(i, Saved(ledger[i], tracker.answer))
         /\ IF ledger'[i].outcome \in {"pending", "inconclusive"} /\ age # "past"
            THEN job' = [job EXCEPT ![i] = [state |-> "due", attempts |-> 0]]
            ELSE Done(i)
  /\ tracker' = Asking
  /\ UNCHANGED <<catalogue, run, trusted, call, action, traces, age, quota>>

\* The process dies with the run and the job; the job is claimed again.
Crash ==
  /\ Spend("faults") /\ tracker.at = "saving"
  /\ tracker' = Asking
  /\ job' = [job EXCEPT ![tracker.of] = [state |-> "due", attempts |-> Attempted(tracker.of)]]
  /\ run' = [run EXCEPT !.status = IF Live THEN "failed" ELSE @]
  /\ call' = NoCall
  /\ UNCHANGED <<catalogue, trusted, ledger, action, traces, age>>

(***************************************************************************)
(* The specification.                                                      *)
(***************************************************************************)
\* The policy each tool is registered with.
Usual(t) == IF t = DecideTool THEN "approval_required" ELSE "proposal_only"

Registered == [state |-> "active", enabled |-> TRUE, status |-> "connected"]

Init ==
  /\ quota \in Mixes
  /\ server \in [Servers -> {AbsentServer, Registered}]
  /\ tool = [s \in Servers |-> [t \in Tools |->
       IF Active(s) THEN [policy |-> Usual(t), schema |-> 1]
       ELSE [policy |-> "disabled", schema |-> 0]]]
  /\ remote = [s \in Servers |-> [t \in Tools |-> 1]]
  /\ refresh = [of |-> NoServer, told |-> remote[CHOOSE s \in Servers : TRUE],
                rows |-> tool[CHOOSE s \in Servers : TRUE]]
  /\ vetted = [s \in Servers |-> [t \in Tools |-> tool[s][t].schema]]
  /\ raced = {}
  /\ run = [status |-> "queued", late |-> FALSE, limit |-> quota.limit, reads |-> 0, offered |-> {}]
  /\ trusted = [d \in Devices |-> 0]
  /\ call = NoCall
  /\ ledger = <<>> /\ action = <<>> /\ traces = <<>> /\ job = <<>>
  /\ tracker = Asking
  /\ age = "new"

Next ==
  \/ Administration /\ UNCHANGED ledgerVars
  \/ Begin
  \/ \E d \in Devices : Diagnose(d)
  \/ DiagnosisReturns
  \/ \E s \in Servers, t \in Tools, d \in Devices : Reserve(s, t, d)
  \/ \E i \in Links, reply \in {"created", "refused", "error"} : Arrive(i, reply)
  \/ \E i \in Links : RequestLost(i)
  \/ \E i \in Links, decision \in {"approved", "rejected"} : Decide(i, decision)
  \/ \E i \in Links : Expire(i)
  \/ \E i \in Links, state \in {"succeeded", "failed", "unclear"} : Settle(i, state)
  \/ \E i \in Links, by \in {"command", "proposal"} : AskResult(i, by)
  \/ Finish
  \/ RedoRead
  \/ RedoDiagnose
  \/ \E fresh \in BOOLEAN : RedoStore(fresh)
  \/ CallFails
  \/ RedoRefused
  \/ RunCompletes
  \/ RunStops
  \/ DeadlinePasses
  \/ LinksAge
  \/ \E i \in Links : TrackReleased(i)
  \/ \E i \in Links : TrackAsk(i)
  \/ \E i \in Links : TrackFails(i)
  \/ TrackSave
  \/ Crash

Spec == Init /\ [][Next]_vars

(***************************************************************************)
(* Properties.                                                             *)
(***************************************************************************)
Same(i, j) == ledger[i].server = ledger[j].server /\ ledger[i].device = ledger[j].device

\* The request may have acted on the device, or may do so yet.
MayAct(i) == action[i].flying \/ action[i].state \notin {"absent", "rejected"}

\* The actions of a run that may reach a device are never more than its
\* limit, whatever requests are lost or late, proposals are decided after the
\* run, and answers are errors or overtake one another.
ActionsWithinLimit == Cardinality({i \in Links : MayAct(i)}) <= run.limit

\* A repair goes by a diagnosis of its device.  A device is acted on again only
\* when nothing of the run can still act on it: all before was refused,
\* rejected or has failed, and a repair after a failure goes by a diagnosis
\* that was made after that failure.
RepairsFollowFailures ==
  \A j \in Links :
    /\ ledger[j].diagnosis \in DOMAIN traces
    /\ traces[ledger[j].diagnosis] = ledger[j].device
    /\ \A i \in 1..(j - 1) : Same(i, j) =>
         /\ ~action[i].flying /\ action[i].state \in {"absent", "rejected", "failed"}
         /\ action[i].state = "failed" => ledger[j].diagnosis > action[i].failedAt

\* Credit or blame that an adopted experience got for an action stands, and
\* is what became of the action, though late and expired answers follow.
FeedbackStands ==
  [][\A i \in Links : ledger[i].feedback \in {"succeeded", "failed"} =>
       ledger'[i].feedback = ledger[i].feedback /\ action[i].state = ledger[i].feedback]_vars

\* The tracking has been given up: after too many failures in a row, after
\* seven days, or because an older answer was saved over the last one.
GivenUp(i) == job[i].state = "failed" \/ age = "past" \/ ledger[i].overtaken

\* Nobody forgets an action: until its end has been learned, it is tracked,
\* though the run is over, the response was lost or the process has died.
NoActionIsForgotten ==
  \A i \in Links :
    \/ Final(action[i].state) /\ ledger[i].outcome = Outcome(action[i].state)
    \/ job[i].state = "due"
    \/ ledger[i].reservation = "released" /\ ~MayAct(i)
    \/ GivenUp(i)
=============================================================================

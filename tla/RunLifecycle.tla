---------------------------- MODULE RunLifecycle ----------------------------
(***************************************************************************)
(* Runs of the backend: the queue, the dispatcher that executes one run at *)
(* a time, the stop button, shutdown, the recovery scan at startup and the *)
(* rows of run_events that tell a reader how a run ended.                  *)
(*                                                                         *)
(* One action is one database transaction or one step of a coroutine from  *)
(* one await to the next.  A cancellation or a database error strikes a    *)
(* coroutine at the await it is in, before the transaction it waits for    *)
(* has taken effect; after that, the coroutine is at the next place.       *)
(***************************************************************************)
EXTENDS Naturals, Sequences

CONSTANTS
  Runs,         \* identifiers of agent runs
  NoRun,        \* the null identifier
  MaxStops,     \* bound: stop requests for the current run
  MaxRestarts,  \* bound: crashes and shutdowns
  MaxFaults,    \* bound: database calls that fail
  MaxOutputs    \* bound: events the agent produces in a run

ASSUME NoRunIsNoRun == NoRun \notin Runs
ASSUME BoundsAreNaturals ==
  {MaxStops, MaxRestarts, MaxFaults, MaxOutputs} \subseteq Nat

VARIABLES
  run,      \* table agent_runs
  rows,     \* table run_events, by run, in the order of their ids
  phase,    \* the process: down, recovering, up, stopping or cancelling
  current,  \* _current_run_id, or the run the worker has picked
  at,       \* where the worker and the task it runs are
  code,     \* the error code each of them is handling
  held,     \* the batch of the event buffer
  flight,   \* the events of the flush that is being written
  made,     \* events the agent has produced
  todo,     \* recovery: runs still to be interrupted
  half,     \* recovery: the run whose event is written and status is not
  clock,    \* the created_at of the youngest run
  stops, restarts, faults

tables == <<run, rows>>
dispatcher == <<phase, current, at, code>>
buffer == <<held, flight, made>>
recovery == <<todo, half>>
counts == <<stops, restarts, faults>>
vars == <<tables, dispatcher, buffer, recovery, clock, counts>>

(***************************************************************************)
(* Rows.                                                                   *)
(***************************************************************************)
Terminal == {"completed", "failed"}
Statuses == {"absent", "queued", "running", "deleted"} \cup Terminal

\* RUN_STOPPED and RUN_INTERRUPTED may be retried.
Retryable == {"stopped", "interrupted"}
Codes == Retryable \cup {"none", "error", "toolarge", "old"}

\* An event row is a piece of output or says how the run ended; run.failed
\* rows carry the error code, except the ones the recovery scan repairs.
Failures == Retryable \cup {"error", "toolarge", "repaired"}
Outcomes == Failures \cup {"completed"}
Kinds == Outcomes \cup {"output"}

RunRow(status, c, answer, attempts, born) ==
  [status |-> status, code |-> c, answer |-> answer,
   attempts |-> attempts, born |-> born]

AbsentRun == RunRow("absent", "none", FALSE, 0, 0)

\* Rows an earlier release may have left: ended, and never announced.
OldRuns == {RunRow("failed", "old", FALSE, 1, 0),
            RunRow("completed", "none", TRUE, 1, 0),
            RunRow("completed", "none", FALSE, 1, 0)}

Existing(r) == run[r].status \notin {"absent", "deleted"}
Ended(r) == run[r].status \in Terminal

Write(r, kind) == rows' = [rows EXCEPT ![r] = Append(@, kind)]

\* mark_finished, which finds no row once the run is deleted.
Finish(r, status, c) ==
  run' = [run EXCEPT ![r] =
            IF @.status = "deleted" THEN @
            ELSE [@ EXCEPT !.status = status, !.code = c]]

Fail(r, c) == Finish(r, "failed", c)

Move(actor, place) == at' = [at EXCEPT ![actor] = place]

(***************************************************************************)
(* Requests.  The API is served while the process is up.                   *)
(***************************************************************************)
Enqueue(r) ==
  /\ phase = "up"
  /\ run[r].status = "absent"
  /\ clock' = clock + 1
  /\ run' = [run EXCEPT ![r] = RunRow("queued", "none", FALSE, 0, clock')]
  /\ UNCHANGED <<rows, dispatcher, buffer, recovery, counts>>

SubmitMessage(r) == Enqueue(r)

RetryRun(old, r) ==
  /\ run[old].status = "failed"
  /\ run[old].code \in Retryable
  /\ Enqueue(r)

DeleteRun(r) ==
  /\ phase = "up"
  /\ Ended(r)
  /\ run' = [run EXCEPT ![r].status = "deleted"]
  /\ rows' = [rows EXCEPT ![r] = <<>>]
  /\ UNCHANGED <<dispatcher, buffer, recovery, clock, counts>>

StopQueued(r) ==
  /\ phase = "up"
  /\ run[r].status = "queued"
  /\ Fail(r, "stopped")
  /\ Write(r, "stopped")
  /\ UNCHANGED <<dispatcher, buffer, recovery, clock, counts>>

(***************************************************************************)
(* Cancellation of the task, at the await where it is.                     *)
(***************************************************************************)
TaskAlive == at["task"] \notin {"none", "finished", "cancelled"}

\* The try statements of execute_claimed_run and of _execute.
InOrchestrator == {"prepare", "work", "flushing", "budgeted", "ending"}
InHandlers == {"onCancel", "settleCancel", "onError", "settleError", "settled"}

CancelTask(c) ==
  /\ TaskAlive
  /\ Move("task", IF at["task"] \in InOrchestrator THEN "onCancel"
                  ELSE IF at["task"] \in InHandlers THEN "finRead"
                  ELSE "cancelled")
  /\ code' = [code EXCEPT !["task"] = c]
  /\ flight' = 0
  /\ held' = IF at["task"] \in InOrchestrator THEN held ELSE 0

StopCurrent(r) ==
  /\ phase = "up"
  /\ current = r /\ at["worker"] # "picked"
  /\ Existing(r) /\ run[r].status # "queued"
  /\ stops < MaxStops
  /\ stops' = stops + 1
  /\ CancelTask("stopped")
  /\ UNCHANGED <<tables, phase, current, made, recovery, clock, restarts, faults>>

(***************************************************************************)
(* The worker: pick the oldest queued run, launch its task, wait for it.   *)
(***************************************************************************)
Oldest(r) ==
  /\ run[r].status = "queued"
  /\ \A q \in Runs : run[q].status = "queued" => run[r].born <= run[q].born

\* A notification only wakes the worker earlier.
Pick ==
  /\ phase = "up"
  /\ at["worker"] = "idle"
  /\ \E r \in Runs : Oldest(r) /\ current' = r
  /\ Move("worker", "picked")
  /\ UNCHANGED <<tables, phase, code, buffer, recovery, clock, counts>>

\* The run may have been stopped, or shutdown begun, since it was picked.
Launch ==
  /\ at["worker"] = "picked"
  /\ at' = [worker |-> "waiting", task |-> "claim"]
  /\ UNCHANGED <<tables, phase, current, code, buffer, recovery, clock, counts>>

\* Mutant: a cancelled task is like any other.
Collect_withoutFinalizing ==
  /\ at["worker"] = "waiting"
  /\ at["task"] \in {"finished", "cancelled"}
  /\ at' = [worker |-> "idle", task |-> "none"]
  /\ current' = NoRun
  /\ UNCHANGED <<tables, phase, code, buffer, recovery, clock, counts>>

\* The task is over.  A cancelled one is looked after unless shutting down.
Collect ==
  /\ at["worker"] = "waiting"
  /\ at["task"] \in {"finished", "cancelled"}
  /\ IF at["task"] = "cancelled" /\ phase = "up"
     THEN /\ at' = [worker |-> "finRead", task |-> "none"]
          /\ code' = [code EXCEPT !["worker"] = "stopped"]
          /\ UNCHANGED current
     ELSE /\ at' = [worker |-> "idle", task |-> "none"]
          /\ current' = NoRun
          /\ UNCHANGED code
  /\ UNCHANGED <<tables, phase, buffer, recovery, clock, counts>>

(***************************************************************************)
(* The task: claim, prepare the context, let the agent work, complete.     *)
(***************************************************************************)
\* Mutant: the claim does not look at the status.
Claim_unconditional ==
  /\ at["task"] = "claim"
  /\ run' = [run EXCEPT ![current] =
                [@ EXCEPT !.status = "running", !.attempts = run[current].attempts + 1]]
  /\ Move("task", "claimed")
  /\ UNCHANGED <<rows, phase, current, code, buffer, recovery, clock, counts>>

Claim ==
  /\ at["task"] = "claim"
  /\ IF run[current].status = "queued"
     THEN /\ run' = [run EXCEPT ![current] =
                       [@ EXCEPT !.status = "running", !.attempts = run[current].attempts + 1]]
          /\ Move("task", "claimed")
     ELSE Move("task", "finished") /\ UNCHANGED run
  /\ UNCHANGED <<rows, phase, current, code, buffer, recovery, clock, counts>>

Step(from, to) ==
  /\ at["task"] = from
  /\ Move("task", to)
  /\ UNCHANGED <<phase, current, code, recovery, clock, counts>>

Begin ==
  /\ Step("claimed", "prepare") \/ Step("prepare", "work")
  /\ UNCHANGED <<tables, buffer>>

\* ContextBudgetExceeded: the event and the status are two transactions.
AnnounceTooLarge ==
  /\ Step("prepare", "budgeted")
  /\ Write(current, "toolarge")
  /\ UNCHANGED <<run, buffer>>

FailTooLarge ==
  /\ Step("budgeted", "ending")
  /\ Fail(current, "toolarge")
  /\ UNCHANGED <<rows, buffer>>

Produce ==
  /\ Step("work", "work")
  /\ made[current] < MaxOutputs
  /\ made' = [made EXCEPT ![current] = @ + 1]
  /\ held' = held + 1
  /\ UNCHANGED <<tables, flight>>

\* flush empties the batch before it waits for the transaction.
StartFlush ==
  /\ Step("work", "flushing")
  /\ held > 0
  /\ flight' = held
  /\ held' = 0
  /\ UNCHANGED <<tables, made>>

Batch(n) == [i \in 1..n |-> "output"]

FinishFlush ==
  /\ Step("flushing", "work")
  /\ rows' = [rows EXCEPT ![current] = @ \o Batch(flight)]
  /\ flight' = 0
  /\ UNCHANGED <<run, held, made>>

\* The model or a tool fails.
AgentFails ==
  /\ Step("prepare", "onError") \/ Step("work", "onError")
  /\ UNCHANGED <<tables, buffer>>

\* Mutant: no flush before the completion.
Complete_unflushed ==
  /\ Step("work", "ending")
  /\ run' = [run EXCEPT ![current] =
               [@ EXCEPT !.status = "completed", !.code = "none", !.answer = TRUE]]
  /\ Write(current, "completed")
  /\ UNCHANGED buffer

Complete ==
  /\ Step("work", "ending")
  /\ held = 0
  /\ run' = [run EXCEPT ![current] =
               [@ EXCEPT !.status = "completed", !.code = "none", !.answer = TRUE]]
  /\ Write(current, "completed")
  /\ UNCHANGED buffer

\* After its last transaction the task still closes its session and tells its
\* hooks; cancelled there it finds nothing to do any more.
End ==
  /\ Step("ending", "finished") \/ Step("settled", "finished")
  /\ UNCHANGED <<tables, buffer>>

(***************************************************************************)
(* The exception handlers of execute_claimed_run, and of _execute.         *)
(***************************************************************************)
Rescue ==
  /\ Step("onCancel", "settleCancel") \/ Step("onError", "settleError")
  /\ rows' = [rows EXCEPT ![current] = @ \o Batch(held)]
  /\ held' = 0
  /\ UNCHANGED <<run, flight, made>>

\* Mutant: the handler does not look at the status.
SettleCancel_anyStatus ==
  /\ Step("settleCancel", "finRead")
  /\ Fail(current, code["task"]) /\ Write(current, code["task"])
  /\ UNCHANGED buffer

SettleCancel ==
  /\ Step("settleCancel", "finRead")
  /\ IF run[current].status = "running"
     THEN Fail(current, code["task"]) /\ Write(current, code["task"])
     ELSE UNCHANGED tables
  /\ UNCHANGED buffer

SettleError ==
  /\ Step("settleError", "settled")
  /\ Fail(current, "error")
  /\ Write(current, "error")
  /\ UNCHANGED buffer

\* _execute saw an exception that execute_claimed_run did not handle.
AnnounceFault ==
  /\ Step("faultEvent", "faultMark")
  /\ Write(current, "error")
  /\ UNCHANGED <<run, buffer>>

FailFault ==
  /\ Step("faultMark", "finished")
  /\ Fail(current, "error")
  /\ UNCHANGED <<rows, buffer>>

(***************************************************************************)
(* _finalize_cancelled, called by the task and by the worker: read the     *)
(* status, write the event, write the status.                              *)
(***************************************************************************)
Actors == {"worker", "task"}

Finalized(a) ==
  IF a = "task"
  THEN Move("task", "cancelled") /\ UNCHANGED current
  ELSE Move("worker", "idle") /\ current' = NoRun

\* Mutant: the status is not read.
FinalizeRead_blind(a) ==
  /\ at[a] = "finRead"
  /\ Move(a, "finEvent")
  /\ UNCHANGED <<tables, phase, current, code, buffer, recovery, clock, counts>>

FinalizeRead(a) ==
  /\ at[a] = "finRead"
  /\ IF Ended(current) THEN Finalized(a)
     ELSE Move(a, "finEvent") /\ UNCHANGED current
  /\ UNCHANGED <<tables, phase, code, buffer, recovery, clock, counts>>

FinalizeEvent(a) ==
  /\ at[a] = "finEvent"
  /\ Write(current, code[a])
  /\ Move(a, "finMark")
  /\ UNCHANGED <<run, phase, current, code, buffer, recovery, clock, counts>>

FinalizeMark(a) ==
  /\ at[a] = "finMark"
  /\ Fail(current, code[a])
  /\ Finalized(a)
  /\ UNCHANGED <<rows, phase, code, buffer, recovery, clock, counts>>

(***************************************************************************)
(* A database call fails.                                                  *)
(***************************************************************************)
InFinalize == {"finRead", "finEvent", "finMark"}

\* Where the exception takes the task.  A flush puts its batch back; the
\* flush of a handler is given up.
Raised ==
  CASE at["task"] \in {"prepare", "work", "flushing", "budgeted"} -> "onError"
    [] at["task"] = "onCancel" -> "settleCancel"
    [] at["task"] = "onError" -> "settleError"
    [] at["task"] \in {"settleCancel", "settleError"} -> "faultEvent"
    [] OTHER -> "finished"

TaskFault ==
  /\ faults < MaxFaults
  /\ faults' = faults + 1
  /\ TaskAlive /\ at["task"] \notin {"claimed", "ending", "settled"}
  /\ Move("task", Raised)
  /\ held' = IF at["task"] \in {"onCancel", "onError"} THEN 0 ELSE held + flight
  /\ flight' = 0
  /\ UNCHANGED <<tables, phase, current, code, made, recovery, clock, stops, restarts>>

\* Nothing catches what _execute_next raises and the worker is over, unless
\* _wait_for_work called it, for a notification that came too late.
WorkerFault ==
  /\ faults < MaxFaults
  /\ faults' = faults + 1
  /\ at["worker"] \in InFinalize \cup {"idle"}
  /\ at["worker"] = "idle" => phase = "up"
  /\ Move("worker", "dead") \/ Move("worker", "idle")
  /\ UNCHANGED <<tables, phase, current, code, buffer, recovery, clock, stops, restarts>>

(***************************************************************************)
(* Shutdown, crash, and the recovery scan of the next start.               *)
(***************************************************************************)
Shutdown ==
  /\ phase = "up"
  /\ restarts < MaxRestarts
  /\ restarts' = restarts + 1
  /\ phase' = "stopping"
  /\ UNCHANGED <<tables, current, at, code, buffer, recovery, clock, stops, faults>>

\* The grace period of the task is over.
GraceTimeout ==
  /\ phase = "stopping"
  /\ phase' = "cancelling"
  /\ CancelTask("interrupted")
  /\ UNCHANGED <<tables, current, made, recovery, clock, counts>>

Halted ==
  /\ phase' = "down"
  /\ current' = NoRun
  /\ at' = [worker |-> "idle", task |-> "none"]
  /\ code' = [worker |-> "none", task |-> "none"]
  /\ held' = 0 /\ flight' = 0
  /\ todo' = {} /\ half' = NoRun
  /\ UNCHANGED <<tables, made, clock, stops, faults>>

\* A worker that does not end within two seconds is cancelled.
Exit ==
  /\ phase \in {"stopping", "cancelling"}
  /\ at["task"] = "none"
  /\ Halted
  /\ UNCHANGED restarts

Crash ==
  /\ phase # "down"
  /\ restarts < MaxRestarts
  /\ restarts' = restarts + 1
  /\ Halted

\* Mutant: running runs are left alone.
Restart_forgetsRunning ==
  /\ phase = "down"
  /\ phase' = "recovering"
  /\ todo' = {}
  /\ UNCHANGED <<tables, current, at, code, buffer, half, clock, counts>>

Restart ==
  /\ phase = "down"
  /\ phase' = "recovering"
  /\ todo' = {r \in Runs : run[r].status = "running"}
  /\ UNCHANGED <<tables, current, at, code, buffer, half, clock, counts>>

RecoverEvent(r) ==
  /\ half = NoRun /\ r \in todo
  /\ Write(r, "interrupted")
  /\ half' = r
  /\ UNCHANGED <<run, dispatcher, buffer, todo, clock, counts>>

\* Mutant: interrupted runs go back to the queue.
RecoverMark_requeues ==
  /\ half # NoRun
  /\ run' = [run EXCEPT ![half].status = "queued"]
  /\ todo' = todo \ {half}
  /\ half' = NoRun
  /\ UNCHANGED <<rows, dispatcher, buffer, clock, counts>>

RecoverMark ==
  /\ half # NoRun
  /\ Fail(half, "interrupted")
  /\ todo' = todo \ {half}
  /\ half' = NoRun
  /\ UNCHANGED <<rows, dispatcher, buffer, clock, counts>>

\* An ended run without an outcome gets one, unless it lacks its answer.
Unannounced(r) == \A i \in DOMAIN rows[r] : rows[r][i] \notin Outcomes

\* Mutant: only completed runs are repaired.
Repaired_completedOnly(r) ==
  IF Unannounced(r) /\ run[r].status = "completed" /\ run[r].answer
  THEN Append(rows[r], "completed")
  ELSE rows[r]

Repaired(r) ==
  IF ~Unannounced(r) THEN rows[r]
  ELSE CASE run[r].status = "failed" -> Append(rows[r], "repaired")
         [] run[r].status = "completed" /\ run[r].answer -> Append(rows[r], "completed")
         [] OTHER -> rows[r]

FinishRecovery ==
  /\ phase = "recovering" /\ todo = {}
  /\ rows' = [r \in Runs |-> Repaired(r)]
  /\ phase' = "up"
  /\ UNCHANGED <<run, current, at, code, buffer, recovery, clock, counts>>

(***************************************************************************)
(* The specification.                                                      *)
(***************************************************************************)
Init ==
  /\ run \in [Runs -> OldRuns \cup {AbsentRun}]
  /\ rows = [r \in Runs |-> <<>>]
  /\ phase = "down"
  /\ current = NoRun
  /\ at = [worker |-> "idle", task |-> "none"]
  /\ code = [worker |-> "none", task |-> "none"]
  /\ held = 0 /\ flight = 0
  /\ made = [r \in Runs |-> 0]
  /\ todo = {} /\ half = NoRun
  /\ clock = 0 /\ stops = 0 /\ restarts = 0 /\ faults = 0

Requests ==
  \/ \E r \in Runs : SubmitMessage(r) \/ DeleteRun(r) \/ StopQueued(r) \/ StopCurrent(r)
  \/ \E old, r \in Runs : RetryRun(old, r)

Worker == Pick \/ Launch \/ Collect

Task ==
  \/ Claim \/ Begin \/ AnnounceTooLarge \/ FailTooLarge
  \/ Produce \/ StartFlush \/ FinishFlush \/ AgentFails \/ Complete \/ End
  \/ Rescue \/ SettleCancel \/ SettleError \/ AnnounceFault \/ FailFault

Finalize == \E a \in Actors : FinalizeRead(a) \/ FinalizeEvent(a) \/ FinalizeMark(a)

Recovery == Restart \/ (\E r \in Runs : RecoverEvent(r)) \/ RecoverMark \/ FinishRecovery

Environment == TaskFault \/ WorkerFault \/ Shutdown \/ GraceTimeout \/ Exit \/ Crash

Next == Requests \/ Worker \/ Task \/ Finalize \/ Recovery \/ Environment

Spec == Init /\ [][Next]_vars

\* The event loop runs every coroutine that can go on, an agent run is bounded
\* by its turns and the timeouts of its tools, and a supervisor restarts the
\* process.  Nothing is assumed of requests, failures or shutdowns.
Fairness ==
  /\ WF_vars(Worker)
  /\ WF_vars(Task)
  /\ WF_vars(Finalize)
  /\ WF_vars(Recovery)
  /\ WF_vars(Exit)

FairSpec == Spec /\ Fairness

(***************************************************************************)
(* Types.                                                                  *)
(***************************************************************************)
WorkerPlaces == {"idle", "picked", "waiting", "dead"} \cup InFinalize

TaskPlaces ==
  {"none", "claim", "claimed", "faultEvent", "faultMark", "finished", "cancelled"}
    \cup InOrchestrator \cup InHandlers \cup InFinalize

RunRows ==
  [status : Statuses, code : Codes, answer : BOOLEAN, attempts : Nat, born : Nat]

TypeOK ==
  /\ run \in [Runs -> RunRows]
  /\ rows \in [Runs -> Seq(Kinds)]
  /\ phase \in {"down", "recovering", "up", "stopping", "cancelling"}
  /\ current \in Runs \cup {NoRun}
  /\ at \in [worker : WorkerPlaces, task : TaskPlaces]
  /\ code \in [worker : Retryable \cup {"none"}, task : Retryable \cup {"none"}]
  /\ held \in Nat /\ flight \in Nat /\ made \in [Runs -> Nat]
  /\ todo \in SUBSET Runs /\ half \in Runs \cup {NoRun}
  /\ clock \in Nat /\ stops \in Nat /\ restarts \in Nat /\ faults \in Nat

(***************************************************************************)
(* Safety.                                                                 *)
(***************************************************************************)
Serving == phase \notin {"down", "recovering"}

Says(r, kind) == rows[r] # <<>> /\ rows[r][Len(rows[r])] = kind

\* The row that tells a reader how an ended run ended.
Told(r) ==
  IF run[r].status = "completed" THEN "completed"
  ELSE IF run[r].code = "old" THEN "repaired"
  ELSE run[r].code

\* While the service serves and the database accepts writes, the last event of
\* an ended run tells the outcome and the error code its row in agent_runs
\* shows, whatever was written before it; only a completed run that lost its
\* answer has none (run_recovery.py).
OutcomeIsTold ==
  Serving /\ faults = 0 =>
    \A r \in Runs :
      Ended(r) /\ (run[r].status = "completed" => run[r].answer) => Says(r, Told(r))

Has(r, kinds) == \E i \in DOMAIN rows[r] : rows[r][i] \in kinds

\* A run of which a run.failed event was written does not complete, and one
\* with a run.completed event does not fail: completion, cancellation, the
\* error handlers and recovery never both take effect, as long as the database
\* accepts writes.
OutcomesDoNotMix ==
  faults = 0 =>
    \A r \in Runs :
      /\ Has(r, Failures) => run[r].status \in {"running", "failed", "deleted"}
      /\ Has(r, {"completed"}) => run[r].status = "completed"

\* A run that has been running is not started again, by no interleaving of
\* claims, stops and restarts: its tools may have acted on devices.
NeverStartedAgain == \A r \in Runs : run[r].attempts <= 1

\* As long as the database accepts writes, a running run is the one the
\* dispatcher executes or looks after: none is left behind by a crash, a
\* shutdown or a cancellation.
NoRunIsForgotten ==
  phase = "up" /\ faults = 0 =>
    \A r \in Runs :
      run[r].status = "running" =>
        r = current /\ at["worker"] \in {"waiting"} \cup InFinalize

\* A run that completed has all the events its agent produced in run_events,
\* before the run.completed event.
Outputs(r) == {i \in DOMAIN rows[r] : rows[r][i] = "output"}

CompletedIsWhole ==
  \A r \in Runs :
    run[r].status = "completed" /\ run[r].attempts = 1 /\ run[r].born > 0 =>
      Outputs(r) = 1..made[r]

(***************************************************************************)
(* Action properties.                                                      *)
(***************************************************************************)
\* The row of an ended run never changes again until the run is deleted: not
\* by a stop that comes too late, a second handler, or recovery.  The one
\* exception is the last resort of _execute, after a failed database call.
EndedForGood ==
  [][\A r \in Runs :
       Ended(r) =>
         \/ run'[r] = run[r]
         \/ run'[r].status = "deleted"
         \/ faults > 0 /\ r = current /\ at["task"] = "faultMark"]_vars

\* Runs are started in the order in which they were created, although the
\* dispatcher claims a run some time after it has chosen it.
StartedInOrder ==
  [][\A r \in Runs :
       run[r].status = "queued" /\ run'[r].status = "running" =>
         \A q \in Runs : run[q].status = "queued" => run[r].born <= run[q].born]_vars

(***************************************************************************)
(* Liveness.                                                               *)
(***************************************************************************)
\* Every accepted run ends (or is deleted by its user after it ended), over
\* crashes, shutdowns and stops, as long as the database accepts writes.
EveryRunEnds ==
  \A r \in Runs :
    run[r].status \in {"queued", "running"}
      ~> run[r].status \in Terminal \cup {"deleted"} \/ faults > 0

(***************************************************************************)
(* What the source says and the code does not do.                          *)
(***************************************************************************)
\* A queued run is executed: the periodic scan makes up for everything the
\* notification misses.
QueuedIsPickedUp ==
  \A r \in Runs : run[r].status = "queued" ~> run[r].status # "queued"
=============================================================================

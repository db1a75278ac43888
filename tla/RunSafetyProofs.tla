--------------------------- MODULE RunSafetyProofs ---------------------------
(***************************************************************************)
(* Type correctness of RunLifecycle, that no run is started twice, and the *)
(* inductive invariant of RunLifecycle with what follows from it.          *)
(***************************************************************************)
EXTENDS RunInvariant, RunRefinement, TLAPS

(***************************************************************************)
(* What the operators that write a row or move a coroutine do.             *)
(***************************************************************************)
LEMMA WriteKeepsType ==
  ASSUME rows \in [Runs -> Seq(Kinds)], NEW r, NEW kind \in Kinds, Write(r, kind)
  PROVE  rows' \in [Runs -> Seq(Kinds)]
<1>1. \A q \in Runs : Append(rows[q], kind) \in Seq(Kinds)
  OBVIOUS
<1> QED BY <1>1 DEF Write

LEMMA FinishKeepsType ==
  ASSUME run \in [Runs -> RunRows], NEW r, NEW status \in Statuses, NEW c \in Codes,
         Finish(r, status, c)
  PROVE  run' \in [Runs -> RunRows]
<1>1. \A q \in Runs : [run[q] EXCEPT !.status = status, !.code = c] \in RunRows
  BY DEF RunRows
<1> QED BY <1>1 DEF Finish

LEMMA FailKeepsType ==
  ASSUME run \in [Runs -> RunRows], NEW r, NEW c \in Codes, Fail(r, c)
  PROVE  run' \in [Runs -> RunRows]
BY FinishKeepsType DEF Fail, Statuses, Terminal

LEMMA RetryableIsLegal == Retryable \subseteq Codes \cap Kinds
BY DEF Retryable, Codes, Kinds, Outcomes, Failures

LEMMA Moved ==
  ASSUME at \in [worker : WorkerPlaces, task : TaskPlaces],
         NEW a \in Actors, NEW place, Move(a, place)
  PROVE  /\ at'[a] = place
         /\ \A b \in Actors \ {a} : at'[b] = at[b]
         /\ place \in (IF a = "task" THEN TaskPlaces ELSE WorkerPlaces)
              => at' \in [worker : WorkerPlaces, task : TaskPlaces]
BY DEF Move, Actors

LEMMA BatchType ==
  ASSUME NEW n \in Nat PROVE Batch(n) \in Seq(Kinds)
BY DEF Batch, Kinds

LEMMA TypeInit == Init => TypeOK /\ CodesInv
<1> SUFFICES ASSUME Init PROVE TypeOK /\ CodesInv
  OBVIOUS
<1>1. OldRuns \cup {AbsentRun} \subseteq RunRows
  BY DEF OldRuns, AbsentRun, RunRow, RunRows, Statuses, Terminal, Codes, Retryable
<1>2. run \in [Runs -> RunRows]
  BY <1>1 DEF Init
<1>3. rows \in [Runs -> Seq(Kinds)]
  <2>1. <<>> \in Seq(Kinds)
    OBVIOUS
  <2> QED BY <2>1 DEF Init
<1> QED
  BY <1>2, <1>3 DEF Init, TypeOK, CodesInv, WorkerPlaces, TaskPlaces, InFinalize

(***************************************************************************)
(* Type correctness, with CodesInv: whoever handles a cancellation has a   *)
(* code to write.                                                          *)
(***************************************************************************)
TypeInv == TypeOK /\ CodesInv

\* Places at which the task has the code of a cancellation.
Cancelling == {"onCancel", "settleCancel"} \cup InFinalize

LEMMA CancelKeepsTypes ==
  ASSUME TypeInv, NEW c \in Retryable, CancelTask(c)
  PROVE  /\ at' \in [worker : WorkerPlaces, task : TaskPlaces]
         /\ code' \in [worker : Retryable \cup {"none"}, task : Retryable \cup {"none"}]
         /\ held' \in Nat /\ flight' \in Nat
         /\ CodesInv'
<1>1. PICK place \in {"onCancel", "finRead", "cancelled"} : Move("task", place)
  BY DEF CancelTask
<1>2. place \in TaskPlaces
  BY DEF TaskPlaces, InHandlers, InOrchestrator, InFinalize
<1>3. /\ at' \in [worker : WorkerPlaces, task : TaskPlaces]
      /\ at'["worker"] = at["worker"] /\ at'["task"] = place
  BY <1>1, <1>2, Moved DEF TypeInv, TypeOK, Actors
<1>4. /\ code' \in [worker : Retryable \cup {"none"}, task : Retryable \cup {"none"}]
      /\ code'["worker"] = code["worker"] /\ code'["task"] = c
  BY DEF CancelTask, TypeInv, TypeOK
<1>5. CodesInv'
  BY <1>3, <1>4 DEF CodesInv, TypeInv
<1> QED BY <1>3, <1>4, <1>5 DEF CancelTask, TypeInv, TypeOK

LEMMA RequestsKeepTypes ==
  ASSUME TypeInv, Requests
  PROVE  TypeInv'
<1> USE DEF TypeInv
<1>1. ASSUME NEW r \in Runs, Enqueue(r) PROVE TypeInv'
  <2>1. clock' \in Nat
    BY <1>1 DEF Enqueue, TypeOK
  <2>2. RunRow("queued", "none", FALSE, 0, clock') \in RunRows
    BY <2>1 DEF RunRow, RunRows, Statuses, Codes
  <2>3. run' \in [Runs -> RunRows]
    BY <1>1, <2>2 DEF Enqueue, TypeOK
  <2> QED
    BY <1>1, <2>1, <2>3 DEF Enqueue, TypeOK, CodesInv, dispatcher, buffer, recovery, counts
<1>2. ASSUME NEW r \in Runs, DeleteRun(r) PROVE TypeInv'
  <2>1. [run[r] EXCEPT !.status = "deleted"] \in RunRows
    BY DEF TypeOK, RunRows, Statuses
  <2>2. run' \in [Runs -> RunRows]
    BY <1>2, <2>1 DEF DeleteRun, TypeOK
  <2>3. <<>> \in Seq(Kinds)
    OBVIOUS
  <2>4. rows' \in [Runs -> Seq(Kinds)]
    BY <1>2, <2>3 DEF DeleteRun, TypeOK
  <2> QED
    BY <1>2, <2>2, <2>4 DEF DeleteRun, TypeOK, CodesInv, dispatcher, buffer, recovery, counts
<1>3. ASSUME NEW r \in Runs, StopQueued(r) PROVE TypeInv'
  <2>1. "stopped" \in Codes \cap Kinds
    BY RetryableIsLegal DEF Retryable
  <2>2. run' \in [Runs -> RunRows] /\ rows' \in [Runs -> Seq(Kinds)]
    BY <1>3, <2>1, FailKeepsType, WriteKeepsType DEF StopQueued, TypeOK
  <2> QED
    BY <1>3, <2>2 DEF StopQueued, TypeOK, CodesInv, dispatcher, buffer, recovery, counts
<1>4. ASSUME NEW r \in Runs, StopCurrent(r) PROVE TypeInv'
  <2>1. /\ UNCHANGED <<run, rows, phase, current, made, todo, half, clock, restarts, faults>>
        /\ stops' = stops + 1
    BY <1>4 DEF StopCurrent, tables, recovery
  <2>2. CancelTask("stopped") /\ "stopped" \in Retryable
    BY <1>4 DEF StopCurrent, Retryable
  <2> QED BY <2>1, <2>2, CancelKeepsTypes DEF TypeOK
<1> QED
  BY <1>1, <1>2, <1>3, <1>4 DEF Requests, SubmitMessage, RetryRun

LEMMA WorkerKeepsTypes ==
  ASSUME TypeInv, Worker
  PROVE  TypeInv'
<1> USE DEF TypeInv
<1>1. CASE Pick
  <2>1. /\ current' \in Runs
        /\ at' \in [worker : WorkerPlaces, task : TaskPlaces]
        /\ at'["worker"] = "picked" /\ at'["task"] = at["task"]
    BY <1>1, Moved DEF Pick, Oldest, TypeOK, Actors, WorkerPlaces
  <2> QED
    BY <1>1, <2>1 DEF Pick, TypeOK, CodesInv, InFinalize, tables, buffer, recovery, counts
<1>2. CASE Launch
  <2>1. at' \in [worker : WorkerPlaces, task : TaskPlaces]
    BY <1>2 DEF Launch, WorkerPlaces, TaskPlaces
  <2> QED
    BY <1>2, <2>1 DEF Launch, TypeOK, CodesInv, InFinalize, tables, buffer, recovery, counts
<1>3. CASE Collect
  <2>1. at' = [worker |-> "idle", task |-> "none"] \/ at' = [worker |-> "finRead", task |-> "none"]
    BY <1>3 DEF Collect
  <2>2. at' \in [worker : WorkerPlaces, task : TaskPlaces]
    BY <2>1 DEF WorkerPlaces, TaskPlaces, InFinalize
  <2>3. /\ code' \in [worker : Retryable \cup {"none"}, task : Retryable \cup {"none"}]
        /\ at'["worker"] = "finRead" => code'["worker"] \in Retryable
    BY <1>3 DEF Collect, TypeOK, Retryable
  <2>4. CodesInv'
    BY <2>1, <2>3 DEF CodesInv, InFinalize
  <2> QED
    BY <1>3, <2>2, <2>3, <2>4 DEF Collect, TypeOK, tables, buffer, recovery, counts
<1> QED BY <1>1, <1>2, <1>3 DEF Worker

\* A step of the task keeps the types if it writes legal rows and does not
\* enter the handling of a cancellation without a code.
LEMMA StepKeepsTypes ==
  ASSUME TypeInv,
         NEW from, NEW to \in TaskPlaces, Step(from, to),
         to \in Cancelling => from \in Cancelling,
         run' \in [Runs -> RunRows], rows' \in [Runs -> Seq(Kinds)],
         held' \in Nat, flight' \in Nat, made' \in [Runs -> Nat]
  PROVE  TypeInv'
<1>1. /\ at' \in [worker : WorkerPlaces, task : TaskPlaces]
      /\ at'["worker"] = at["worker"] /\ at'["task"] = to
  BY Moved DEF Step, TypeInv, TypeOK, Actors
<1>2. CodesInv'
  BY <1>1 DEF Step, CodesInv, Cancelling, TypeInv
<1> QED
  BY <1>1, <1>2 DEF TypeInv, TypeOK, Step, recovery, counts

LEMMA AgentKeepsTypes ==
  ASSUME TypeInv,
         \/ Begin \/ AnnounceTooLarge \/ FailTooLarge \/ Produce \/ StartFlush
         \/ FinishFlush \/ AgentFails \/ Complete \/ End
  PROVE  TypeInv'
<1> DEFINE Places == {"prepare", "work", "flushing", "budgeted", "ending", "finished", "onError"}
<1>1. Places \subseteq TaskPlaces /\ Places \cap Cancelling = {}
  BY DEF TaskPlaces, InOrchestrator, InHandlers, Cancelling, InFinalize
<1>2. PICK from \in TaskPlaces \cup {"none"}, to \in Places : Step(from, to)
  BY DEF Begin, AnnounceTooLarge, FailTooLarge, Produce, StartFlush, FinishFlush, AgentFails,
         Complete, End, TaskPlaces, InOrchestrator, InHandlers
<1>3. "toolarge" \in Codes \cap Kinds /\ "completed" \in Kinds /\ "completed" \in Statuses
  BY DEF Codes, Kinds, Outcomes, Failures, Statuses, Terminal
<1>4. run' \in [Runs -> RunRows]
  <2>1. CASE FailTooLarge
    BY <2>1, <1>3, FailKeepsType DEF FailTooLarge, TypeInv, TypeOK
  <2>2. CASE Complete
    <3>1. \A r \in Runs : [run[r] EXCEPT !.status = "completed", !.code = "none", !.answer = TRUE]
                            \in RunRows
      BY <1>3 DEF TypeInv, TypeOK, RunRows, Codes
    <3> QED BY <2>2, <3>1 DEF Complete, TypeInv, TypeOK
  <2> QED
    BY <2>1, <2>2 DEF TypeInv, TypeOK, Begin, AnnounceTooLarge, Produce, StartFlush,
                      FinishFlush, AgentFails, End, tables
<1>5. rows' \in [Runs -> Seq(Kinds)]
  <2>1. CASE AnnounceTooLarge \/ Complete
    BY <2>1, <1>3, WriteKeepsType DEF AnnounceTooLarge, Complete, TypeInv, TypeOK
  <2>2. CASE FinishFlush
    <3>1. \A r \in Runs : rows[r] \o Batch(flight) \in Seq(Kinds)
      BY BatchType DEF TypeInv, TypeOK
    <3> QED BY <2>2, <3>1 DEF FinishFlush, TypeInv, TypeOK
  <2> QED
    BY <2>1, <2>2 DEF TypeInv, TypeOK, Begin, FailTooLarge, Produce, StartFlush,
                      AgentFails, End, tables
<1>6. held' \in Nat /\ flight' \in Nat /\ made' \in [Runs -> Nat]
  <2>1. CASE Produce
    <3>1. \A r \in Runs : made[r] + 1 \in Nat
      BY DEF TypeInv, TypeOK
    <3>2. made' = [made EXCEPT ![current] = made[current] + 1]
      BY <2>1 DEF Produce
    <3>3. made' \in [Runs -> Nat]
      BY <3>1, <3>2 DEF TypeInv, TypeOK
    <3> QED BY <2>1, <3>3 DEF Produce, TypeInv, TypeOK
  <2>2. CASE StartFlush \/ FinishFlush
    BY <2>2 DEF StartFlush, FinishFlush, TypeInv, TypeOK
  <2> QED
    BY <2>1, <2>2 DEF TypeInv, TypeOK, Begin, AnnounceTooLarge, FailTooLarge, AgentFails, Complete,
                      End, buffer
<1> QED BY <1>1, <1>2, <1>4, <1>5, <1>6, StepKeepsTypes

LEMMA ClaimKeepsTypes ==
  ASSUME TypeInv, Claim
  PROVE  TypeInv'
<1>1. \A r \in Runs : \A n \in Nat :
        [run[r] EXCEPT !.status = "running", !.attempts = n] \in RunRows
  BY DEF TypeInv, TypeOK, RunRows, Statuses
<1>2. run' \in [Runs -> RunRows]
  <2>1. \A r \in Runs : run[r].attempts + 1 \in Nat
    BY DEF TypeInv, TypeOK, RunRows
  <2>2. current \in Runs => [run[current] EXCEPT !.status = "running",
                                                !.attempts = run[current].attempts + 1] \in RunRows
    BY <1>1, <2>1
  <2>3. PICK row : /\ current \in Runs => row \in RunRows
                   /\ run' = [run EXCEPT ![current] = row] \/ run' = run
    BY <2>2, Zenon DEF Claim
  <2> QED BY <2>3 DEF TypeInv, TypeOK
<1>3. PICK to \in {"claimed", "finished"} : Move("task", to)
  BY DEF Claim
<1>4. /\ at' \in [worker : WorkerPlaces, task : TaskPlaces]
      /\ at'["worker"] = at["worker"] /\ at'["task"] \in {"claimed", "finished"}
  BY <1>3, Moved DEF TypeInv, TypeOK, Actors, TaskPlaces
<1>5. CodesInv'
  BY <1>4 DEF Claim, CodesInv, TypeInv, InFinalize
<1> QED
  BY <1>2, <1>4, <1>5 DEF Claim, TypeInv, TypeOK, buffer, recovery, counts

LEMMA HandlersKeepTypes ==
  ASSUME TypeInv, Rescue \/ SettleCancel \/ SettleError \/ AnnounceFault \/ FailFault
  PROVE  TypeInv'
<1>1. {"onCancel", "onError", "settleCancel", "settleError", "settled", "finRead", "faultEvent",
       "faultMark", "finished"} \subseteq TaskPlaces
  BY DEF TaskPlaces, InHandlers, InFinalize
<1>2. PICK from, to \in TaskPlaces :
        Step(from, to) /\ (to \in Cancelling => from \in Cancelling)
  BY <1>1 DEF Rescue, SettleCancel, SettleError, AnnounceFault, FailFault, Cancelling, InFinalize
<1>3. "error" \in Codes \cap Kinds
  BY DEF Codes, Kinds, Outcomes, Failures
<1>4. SettleCancel => code["task"] \in Codes \cap Kinds
  BY RetryableIsLegal DEF SettleCancel, Step, TypeInv, CodesInv
<1>5. run' \in [Runs -> RunRows]
  BY <1>3, <1>4, FailKeepsType DEF Rescue, SettleCancel, SettleError, AnnounceFault, FailFault,
                                   TypeInv, TypeOK, tables
<1>6. rows' \in [Runs -> Seq(Kinds)]
  <2>1. CASE Rescue
    <3>1. \A r \in Runs : rows[r] \o Batch(held) \in Seq(Kinds)
      BY BatchType DEF TypeInv, TypeOK
    <3> QED BY <2>1, <3>1 DEF Rescue, TypeInv, TypeOK
  <2> QED
    BY <2>1, <1>3, <1>4, WriteKeepsType DEF SettleCancel, SettleError, AnnounceFault, FailFault,
                                            TypeInv, TypeOK, tables
<1>7. held' \in Nat /\ flight' \in Nat /\ made' \in [Runs -> Nat]
  BY DEF TypeInv, TypeOK, Rescue, SettleCancel, SettleError, AnnounceFault, FailFault, buffer
<1> QED BY <1>2, <1>5, <1>6, <1>7, StepKeepsTypes

LEMMA FinalizeKeepsTypes ==
  ASSUME TypeInv, Finalize
  PROVE  TypeInv'
<1> USE DEF TypeInv
<1>1. PICK a \in Actors : FinalizeRead(a) \/ FinalizeEvent(a) \/ FinalizeMark(a)
  BY DEF Finalize
<1>2. at[a] \in InFinalize /\ code[a] \in Retryable
  BY <1>1 DEF FinalizeRead, FinalizeEvent, FinalizeMark, InFinalize, Actors, CodesInv
<1>3. PICK place \in (IF a = "task" THEN TaskPlaces ELSE WorkerPlaces) : Move(a, place)
  <2>1. "cancelled" \in TaskPlaces /\ "idle" \in WorkerPlaces
    BY DEF TaskPlaces, WorkerPlaces
  <2>2. {"finEvent", "finMark"} \subseteq TaskPlaces \cap WorkerPlaces
    BY DEF TaskPlaces, WorkerPlaces, InFinalize
  <2> QED
    BY <1>1, <2>1, <2>2 DEF FinalizeRead, FinalizeEvent, FinalizeMark, Finalized, Actors
<1>4. /\ at' \in [worker : WorkerPlaces, task : TaskPlaces]
      /\ \A b \in Actors \ {a} : at'[b] = at[b]
  BY <1>3, Moved DEF TypeOK
<1>5. CodesInv'
  BY <1>1, <1>2, <1>4 DEF FinalizeRead, FinalizeEvent, FinalizeMark, CodesInv, Actors, InFinalize
<1>6. run' \in [Runs -> RunRows] /\ rows' \in [Runs -> Seq(Kinds)]
  BY <1>1, <1>2, RetryableIsLegal, FailKeepsType, WriteKeepsType
     DEF FinalizeRead, FinalizeEvent, FinalizeMark, TypeOK, tables
<1>7. /\ current' \in Runs \cup {NoRun}
      /\ UNCHANGED <<phase, code, held, flight, made, todo, half, clock, stops, restarts, faults>>
  BY <1>1 DEF FinalizeRead, FinalizeEvent, FinalizeMark, Finalized, buffer, recovery, counts, TypeOK
<1> QED BY <1>4, <1>5, <1>6, <1>7 DEF TypeOK

LEMMA RecoveryKeepsTypes ==
  ASSUME TypeInv, Recovery
  PROVE  TypeInv'
<1> USE DEF TypeInv
<1>1. "interrupted" \in Codes \cap Kinds
  BY RetryableIsLegal DEF Retryable
<1>2. CASE Restart
  BY <1>2 DEF Restart, TypeOK, CodesInv, tables, buffer, counts
<1>3. ASSUME NEW r \in Runs, RecoverEvent(r) PROVE TypeInv'
  BY <1>1, <1>3, WriteKeepsType DEF RecoverEvent, TypeOK, CodesInv, dispatcher, buffer, counts
<1>4. CASE RecoverMark
  BY <1>1, <1>4, FailKeepsType DEF RecoverMark, TypeOK, CodesInv, dispatcher, buffer, counts
<1>5. CASE FinishRecovery
  <2>1. \A r \in Runs : Repaired(r) \in Seq(Kinds)
    BY DEF Repaired, TypeOK, Kinds, Outcomes, Failures
  <2> QED BY <1>5, <2>1 DEF FinishRecovery, TypeOK, CodesInv, buffer, recovery, counts
<1> QED BY <1>2, <1>3, <1>4, <1>5 DEF Recovery

LEMMA EnvironmentKeepsTypes ==
  ASSUME TypeInv, Environment
  PROVE  TypeInv'
<1> USE DEF TypeInv
<1>1. CASE TaskFault
  <2>1. /\ Raised \in TaskPlaces
        /\ Raised \in Cancelling => at["task"] \in Cancelling
    BY DEF Raised, TaskPlaces, InHandlers, InOrchestrator, InFinalize, Cancelling
  <2>2. /\ at' \in [worker : WorkerPlaces, task : TaskPlaces]
        /\ at'["worker"] = at["worker"] /\ at'["task"] = Raised
    BY <1>1, <2>1, Moved DEF TaskFault, TypeOK, Actors
  <2>3. CodesInv'
    BY <1>1, <2>1, <2>2 DEF TaskFault, CodesInv, Cancelling
  <2> QED BY <1>1, <2>2, <2>3 DEF TaskFault, TypeOK, tables, recovery
<1>2. CASE WorkerFault
  <2>1. /\ at' \in [worker : WorkerPlaces, task : TaskPlaces]
        /\ at'["worker"] \in {"dead", "idle"} /\ at'["task"] = at["task"]
    BY <1>2, Moved DEF WorkerFault, TypeOK, Actors, WorkerPlaces
  <2>2. CodesInv'
    BY <1>2, <2>1 DEF WorkerFault, CodesInv, InFinalize
  <2> QED BY <1>2, <2>1, <2>2 DEF WorkerFault, TypeOK, tables, buffer, recovery
<1>3. CASE Shutdown
  BY <1>3 DEF Shutdown, TypeOK, CodesInv, tables, buffer, recovery
<1>4. CASE GraceTimeout
  <2>1. CancelTask("interrupted") /\ "interrupted" \in Retryable
    BY <1>4 DEF GraceTimeout, Retryable
  <2> QED BY <1>4, <2>1, CancelKeepsTypes DEF GraceTimeout, TypeOK, tables, recovery, counts
<1>5. CASE Exit \/ Crash
  <2>1. Halted /\ restarts' \in Nat
    BY <1>5 DEF Exit, Crash, TypeOK
  <2>2. at' \in [worker : WorkerPlaces, task : TaskPlaces]
    BY <2>1 DEF Halted, WorkerPlaces, TaskPlaces
  <2>3. CodesInv'
    BY <2>1 DEF Halted, CodesInv, InFinalize
  <2> QED BY <2>1, <2>2, <2>3 DEF Halted, TypeOK, tables
<1> QED BY <1>1, <1>2, <1>3, <1>4, <1>5 DEF Environment

LEMMA TypeStep == TypeInv /\ [Next]_vars => TypeInv'
<1> SUFFICES ASSUME TypeInv, [Next]_vars PROVE TypeInv'
  OBVIOUS
<1>1. CASE Task
  BY <1>1, AgentKeepsTypes, HandlersKeepTypes, ClaimKeepsTypes DEF Task
<1>2. CASE UNCHANGED vars
  BY <1>2 DEF TypeInv, TypeOK, CodesInv, vars, tables, dispatcher, buffer, recovery, counts
<1> QED
  BY <1>1, <1>2, RequestsKeepTypes, WorkerKeepsTypes, FinalizeKeepsTypes, RecoveryKeepsTypes,
     EnvironmentKeepsTypes DEF Next

(***************************************************************************)
(* Every row that requests, the dispatcher, the exception handlers and the *)
(* recovery scan write has a legal status, error code and event, and every *)
(* coroutine is at a place of its own.                                     *)
(***************************************************************************)
THEOREM TypeCorrect == Spec => []TypeOK
<1>1. Init => TypeInv
  BY TypeInit DEF TypeInv
<1>2. TypeInv /\ [Next]_vars => TypeInv'
  BY TypeStep
<1>3. TypeInv => TypeOK
  BY DEF TypeInv
<1> QED BY <1>1, <1>2, <1>3, PTL DEF Spec

(***************************************************************************)
(* What a step may do to a run: create it, start it from the queue, end or *)
(* delete it.                                                              *)
(***************************************************************************)
Created(r) ==
  /\ run[r].status = "absent"
  /\ run'[r].status = "queued" /\ run'[r].attempts = 0
  /\ run'[r].born = clock' /\ clock' = clock + 1

Started(r) ==
  /\ run[r].status = "queued" /\ r = current /\ at["task"] = "claim"
  /\ run'[r].status = "running" /\ run'[r].attempts = run[r].attempts + 1

Over(r) ==
  /\ run'[r].status \in {"completed", "failed", "deleted"}
  /\ run'[r].attempts = run[r].attempts

Moves(r) == run'[r] = run[r] \/ Created(r) \/ Started(r) \/ Over(r)

LEMMA FailMoves ==
  ASSUME TypeOK, NEW r, NEW c \in Codes, Fail(r, c)
  PROVE  \A q \in Runs : Moves(q)
<1>1. \A q \in Runs : /\ [run[q] EXCEPT !.status = "failed", !.code = c].status = "failed"
                      /\ [run[q] EXCEPT !.status = "failed", !.code = c].attempts = run[q].attempts
  BY DEF TypeOK, RunRows
<1> QED BY <1>1 DEF Fail, Finish, TypeOK, Moves, Over

LEMMA RequestsMove ==
  ASSUME TypeOK, Requests
  PROVE  \A q \in Runs : Moves(q)
<1>1. ASSUME NEW r \in Runs, Enqueue(r) PROVE \A q \in Runs : Moves(q)
  BY <1>1 DEF Enqueue, RunRow, TypeOK, Moves, Created
<1>2. ASSUME NEW r \in Runs, DeleteRun(r) PROVE \A q \in Runs : Moves(q)
  <2>1. /\ [run[r] EXCEPT !.status = "deleted"].status = "deleted"
        /\ [run[r] EXCEPT !.status = "deleted"].attempts = run[r].attempts
    BY DEF TypeOK, RunRows
  <2>2. run' = [run EXCEPT ![r] = [run[r] EXCEPT !.status = "deleted"]]
    BY <1>2 DEF DeleteRun
  <2> QED BY <2>1, <2>2 DEF TypeOK, Moves, Over
<1>3. ASSUME NEW r \in Runs, StopQueued(r) PROVE \A q \in Runs : Moves(q)
  BY <1>3, FailMoves, RetryableIsLegal DEF StopQueued, Retryable
<1>4. ASSUME NEW r \in Runs, StopCurrent(r) PROVE \A q \in Runs : Moves(q)
  BY <1>4 DEF StopCurrent, tables, Moves
<1> QED
  BY <1>1, <1>2, <1>3, <1>4 DEF Requests, SubmitMessage, RetryRun

LEMMA ClaimMoves ==
  ASSUME TypeOK, Claim
  PROVE  \A q \in Runs : Moves(q)
<1>1. CASE run[current].status = "queued" /\ current \in Runs
  <2>1. PICK row : /\ row = [run[current] EXCEPT !.status = "running",
                                                 !.attempts = run[current].attempts + 1]
                   /\ run' = [run EXCEPT ![current] = row]
    BY <1>1, Zenon DEF Claim
  <2>2. row.status = "running" /\ row.attempts = run[current].attempts + 1
    BY <1>1, <2>1 DEF TypeOK, RunRows
  <2>3. at["task"] = "claim"
    BY DEF Claim
  <2> QED BY <1>1, <2>1, <2>2, <2>3 DEF TypeOK, Moves, Started
<1>2. CASE current \notin Runs
  <2>1. PICK row : run' = [run EXCEPT ![current] = row] \/ run' = run
    BY Zenon DEF Claim
  <2> QED BY <1>2, <2>1 DEF TypeOK, Moves
<1> QED BY <1>1, <1>2 DEF Claim, Moves

LEMMA TaskMoves ==
  ASSUME TypeInv, Task
  PROVE  \A q \in Runs : Moves(q)
<1>1. CASE Complete
  <2>1. \A q \in Runs :
          LET row == [run[q] EXCEPT !.status = "completed", !.code = "none", !.answer = TRUE]
          IN  row.status = "completed" /\ row.attempts = run[q].attempts
    BY DEF TypeInv, TypeOK, RunRows
  <2> QED BY <1>1, <2>1 DEF Complete, TypeInv, TypeOK, Moves, Over
<1>2. CASE FailTooLarge \/ SettleError \/ FailFault
  BY <1>2, FailMoves DEF FailTooLarge, SettleError, FailFault, Codes, TypeInv
<1>3. CASE SettleCancel
  BY <1>3, FailMoves, RetryableIsLegal DEF SettleCancel, Step, TypeInv, CodesInv, tables, Moves
<1>4. CASE Begin \/ AnnounceTooLarge \/ Produce \/ StartFlush \/ FinishFlush \/ AgentFails \/ End
           \/ Rescue \/ AnnounceFault
  BY <1>4 DEF Begin, AnnounceTooLarge, Produce, StartFlush, FinishFlush, AgentFails, End, Rescue,
              AnnounceFault, tables, Moves
<1> QED
  BY <1>1, <1>2, <1>3, <1>4, ClaimMoves DEF Task, TypeInv

LEMMA StepMovesRuns ==
  ASSUME TypeInv, [Next]_vars
  PROVE  \A q \in Runs : Moves(q)
<1>1. CASE Finalize
  <2>1. PICK a \in Actors : FinalizeRead(a) \/ FinalizeEvent(a) \/ FinalizeMark(a)
    BY <1>1 DEF Finalize
  <2>2. FinalizeMark(a) => code[a] \in Codes
    BY RetryableIsLegal DEF FinalizeMark, Actors, TypeInv, CodesInv, InFinalize
  <2> QED
    BY <2>1, <2>2, FailMoves DEF FinalizeRead, FinalizeEvent, FinalizeMark, tables, Moves, TypeInv
<1>2. CASE Recovery
  <2>1. CASE RecoverMark
    BY <2>1, FailMoves, RetryableIsLegal DEF RecoverMark, Retryable, TypeInv
  <2> QED
    BY <1>2, <2>1 DEF Recovery, Restart, RecoverEvent, FinishRecovery, tables, Moves
<1>3. CASE Environment \/ Worker \/ UNCHANGED vars
  BY <1>3 DEF Environment, TaskFault, WorkerFault, Shutdown, GraceTimeout, Exit, Crash, Halted,
              Worker, Pick, Launch, Collect, vars, tables, Moves
<1> QED
  BY <1>1, <1>2, <1>3, RequestsMove, TaskMoves DEF Next, TypeInv

(***************************************************************************)
(* No interleaving of claims, stops, failures and restarts starts a run a  *)
(* second time: only the queue starts runs, and nothing returns to it.     *)
(***************************************************************************)
THEOREM StartedOnce == Spec => []NeverStartedAgain
<1>1. Init => TypeInv /\ StartsInv
  BY TypeInit DEF TypeInv, Init, OldRuns, AbsentRun, RunRow, StartsInv
<1>2. TypeInv /\ StartsInv /\ [Next]_vars => TypeInv' /\ StartsInv'
  <2> SUFFICES ASSUME TypeInv, StartsInv, [Next]_vars PROVE StartsInv'
    BY TypeStep
  <2>1. ASSUME NEW r \in Runs
        PROVE  /\ run'[r].attempts <= 1
               /\ run'[r].status \in {"absent", "queued"} => run'[r].attempts = 0
    BY StepMovesRuns DEF Moves, Created, Started, Over, StartsInv
  <2> QED BY <2>1 DEF StartsInv
<1>3. StartsInv => NeverStartedAgain
  BY DEF StartsInv, NeverStartedAgain
<1> QED BY <1>1, <1>2, <1>3, PTL DEF Spec

(***************************************************************************)
(* Where the dispatcher goes.                                              *)
(***************************************************************************)
LEMMA StepMoves ==
  ASSUME TypeOK, NEW from, NEW to, Step(from, to)
  PROVE  /\ at["task"] = from /\ at'["task"] = to /\ at'["worker"] = at["worker"]
         /\ UNCHANGED <<phase, current, code, todo, half, clock, stops, restarts, faults>>
BY Moved DEF Step, TypeOK, Actors, recovery, counts

\* A step of the task happens while the worker waits for it, and leaves it
\* there, inside the service.
LEMMA TaskAtWork ==
  ASSUME TypeInv, PlacesInv, Task
  PROVE  /\ at["worker"] = "waiting" /\ at'["worker"] = "waiting"
         /\ at["task"] # "none" /\ at'["task"] # "none"
         /\ current \in Runs /\ Serving
         /\ UNCHANGED <<phase, current, code, todo, half, clock, stops, restarts, faults>>
<1> USE DEF TypeInv
<1>1. CASE Claim
  <2>1. /\ at'["worker"] = at["worker"] /\ at["task"] = "claim"
        /\ at'["task"] \in {"claimed", "finished"}
    BY <1>1, Moved DEF Claim, TypeOK, Actors
  <2> QED
    BY <1>1, <2>1 DEF Claim, PlacesInv, recovery, counts
<1>2. CASE ~Claim
  <2>1. PICK from, to : Step(from, to) /\ from # "none" /\ to # "none"
    BY <1>2 DEF Task, Begin, AnnounceTooLarge, FailTooLarge, Produce, StartFlush, FinishFlush,
                AgentFails, Complete, End, Rescue, SettleCancel, SettleError, AnnounceFault, FailFault
  <2>2. at["task"] = from /\ at'["task"] = to /\ at'["worker"] = at["worker"]
    BY <2>1, StepMoves
  <2>3. UNCHANGED <<phase, current, code, todo, half, clock, stops, restarts, faults>>
    BY <2>1 DEF Step, recovery, counts
  <2> QED
    BY <2>1, <2>2, <2>3 DEF PlacesInv
<1> QED BY <1>1, <1>2

LEMMA CancelMoves ==
  ASSUME TypeOK, NEW c, CancelTask(c)
  PROVE  /\ TaskAlive /\ at["task"] # "none"
         /\ at'["worker"] = at["worker"]
         /\ at'["task"] = IF at["task"] \in InOrchestrator THEN "onCancel"
                          ELSE IF at["task"] \in InHandlers THEN "finRead"
                          ELSE "cancelled"
         /\ at'["task"] # "none"
         /\ code'["task"] = c /\ code'["worker"] = code["worker"]
BY Moved DEF CancelTask, TaskAlive, TypeOK, Actors

LEMMA FinalizeMoves ==
  ASSUME TypeOK, NEW a \in Actors, FinalizeRead(a) \/ FinalizeEvent(a) \/ FinalizeMark(a)
  PROVE  /\ at[a] \in InFinalize
         /\ \A b \in Actors \ {a} : at'[b] = at[b]
         /\ \/ at'[a] \in {"finEvent", "finMark"} /\ current' = current
            \/ a = "task" /\ at'[a] = "cancelled" /\ current' = current
            \/ a = "worker" /\ at'[a] = "idle" /\ current' = NoRun
         /\ UNCHANGED <<phase, code, held, flight, made, todo, half, clock, stops, restarts, faults>>
BY Moved DEF FinalizeRead, FinalizeEvent, FinalizeMark, Finalized, InFinalize, TypeOK, Actors,
             buffer, recovery, counts

LEMMA PlacesStep ==
  ASSUME TypeInv, PlacesInv, [Next]_vars
  PROVE  PlacesInv'
<1> USE DEF TypeInv
<1>1. CASE Requests
  <2>1. /\ at'["worker"] = at["worker"] /\ (at'["task"] = "none" <=> at["task"] = "none")
        /\ UNCHANGED <<phase, current, todo, half>>
    <3>1. ASSUME NEW r \in Runs, StopCurrent(r)
          PROVE  /\ at'["worker"] = at["worker"] /\ (at'["task"] = "none" <=> at["task"] = "none")
                 /\ UNCHANGED <<phase, current, todo, half>>
      BY <3>1, CancelMoves DEF StopCurrent, recovery
    <3> QED
      BY <1>1, <3>1 DEF Requests, SubmitMessage, RetryRun, Enqueue, DeleteRun, StopQueued,
                        dispatcher, recovery
  <2> QED BY <2>1 DEF PlacesInv, Serving
<1>2. CASE Worker
  <2>1. CASE Pick
    <3>1. at'["worker"] = "picked" /\ at'["task"] = at["task"] /\ current' \in Runs
      BY <2>1, Moved DEF Pick, Oldest, TypeOK, Actors
    <3> QED BY <2>1, <3>1 DEF Pick, PlacesInv, Serving, recovery
  <2>2. CASE Launch
    BY <2>2 DEF Launch, PlacesInv, Serving, recovery
  <2>3. CASE Collect
    BY <2>3 DEF Collect, PlacesInv, Serving, recovery
  <2> QED BY <1>2, <2>1, <2>2, <2>3 DEF Worker
<1>3. CASE Task
  BY <1>3, TaskAtWork DEF PlacesInv, Serving
<1>4. CASE Finalize
  <2>1. PICK a \in Actors : FinalizeRead(a) \/ FinalizeEvent(a) \/ FinalizeMark(a)
    BY <1>4 DEF Finalize
  <2> QED BY <2>1, FinalizeMoves DEF PlacesInv, Serving, Actors, InFinalize
<1>5. CASE Recovery
  <2>1. half # NoRun => phase = "recovering"
    BY DEF PlacesInv
  <2> QED
    BY <1>5, <2>1, NoRunIsNoRun DEF Recovery, Restart, RecoverEvent, RecoverMark, FinishRecovery, PlacesInv,
       Serving, dispatcher, recovery, TypeOK
<1>6. CASE Environment
  <2>1. CASE TaskFault
    <3>1. at'["worker"] = at["worker"] /\ at'["task"] # "none" /\ at["task"] # "none"
      BY <2>1, Moved DEF TaskFault, TaskAlive, Raised, TypeOK, Actors
    <3> QED BY <2>1, <3>1 DEF TaskFault, PlacesInv, Serving, recovery
  <2>2. CASE WorkerFault
    <3>1. at'["worker"] \in {"dead", "idle"} /\ at'["task"] = at["task"]
      BY <2>2, Moved DEF WorkerFault, TypeOK, Actors
    <3> QED BY <2>2, <3>1 DEF WorkerFault, PlacesInv, Serving, recovery, InFinalize
  <2>3. CASE Shutdown
    BY <2>3 DEF Shutdown, PlacesInv, Serving, recovery
  <2>4. CASE GraceTimeout
    BY <2>4, CancelMoves DEF GraceTimeout, PlacesInv, Serving, recovery
  <2>5. CASE Exit \/ Crash
    BY <2>5 DEF Exit, Crash, Halted, PlacesInv, Serving
  <2> QED BY <1>6, <2>1, <2>2, <2>3, <2>4, <2>5 DEF Environment
<1>7. CASE UNCHANGED vars
  BY <1>7 DEF vars, dispatcher, recovery, PlacesInv, Serving
<1> QED BY <1>1, <1>2, <1>3, <1>4, <1>5, <1>6, <1>7 DEF Next

(***************************************************************************)
(* What a failure, an event and a request do to the tables.                *)
(***************************************************************************)
LEMMA FailFacts ==
  ASSUME TypeOK, NEW r \in Runs, NEW c \in Codes, Fail(r, c)
  PROVE  /\ \A q \in Runs \ {r} : run'[q] = run[q]
         /\ run[r].status = "deleted" => run'[r] = run[r]
         /\ run[r].status # "deleted" => run'[r].status = "failed" /\ run'[r].code = c
<1>1. /\ [run[r] EXCEPT !.status = "failed", !.code = c].status = "failed"
      /\ [run[r] EXCEPT !.status = "failed", !.code = c].code = c
  BY DEF TypeOK, RunRows
<1> QED BY <1>1 DEF Fail, Finish, TypeOK

LEMMA WriteFacts ==
  ASSUME TypeOK, NEW r \in Runs, NEW k \in Kinds, Write(r, k)
  PROVE  /\ \A q \in Runs \ {r} : rows'[q] = rows[q]
         /\ rows'[r] = Append(rows[r], k)
BY DEF Write, TypeOK

\* Requests leave running runs alone.
LEMMA RequestsNudge ==
  ASSUME TypeInv, Requests, NEW r \in Runs
  PROVE  \/ run'[r] = run[r] /\ rows'[r] = rows[r]
         \/ Ended(r) /\ run'[r].status = "deleted"
         \/ run[r].status = "queued" /\ run'[r].status = "failed"
         \/ run[r].status = "absent" /\ run'[r].status = "queued" /\ rows'[r] = rows[r]
<1>1. CASE UNCHANGED tables
  BY <1>1 DEF tables
<1>2. ASSUME NEW q \in Runs, SubmitMessage(q) \/ DeleteRun(q) \/ StopQueued(q) \/ Enqueue(q)
      PROVE  \/ run'[r] = run[r] /\ rows'[r] = rows[r]
             \/ Ended(r) /\ run'[r].status = "deleted"
             \/ run[r].status = "queued" /\ run'[r].status = "failed"
             \/ run[r].status = "absent" /\ run'[r].status = "queued" /\ rows'[r] = rows[r]
  <2>1. CASE StopQueued(q)
    <3>1. "stopped" \in Codes \cap Kinds
      BY RetryableIsLegal DEF Retryable
    <3>2. Fail(q, "stopped") /\ Write(q, "stopped") /\ run[q].status = "queued"
      BY <2>1 DEF StopQueued
    <3>3. /\ r # q => run'[r] = run[r] /\ rows'[r] = rows[r]
          /\ r = q => run'[r].status = "failed"
      BY <3>1, <3>2, FailFacts, WriteFacts DEF TypeInv
    <3> QED BY <3>2, <3>3
  <2>2. CASE DeleteRun(q)
    <3>1. [run[q] EXCEPT !.status = "deleted"].status = "deleted"
      BY DEF TypeInv, TypeOK, RunRows
    <3>2. /\ run' = [run EXCEPT ![q] = [run[q] EXCEPT !.status = "deleted"]]
          /\ rows' = [rows EXCEPT ![q] = <<>>] /\ Ended(q)
      BY <2>2 DEF DeleteRun
    <3> QED BY <3>1, <3>2 DEF TypeInv, TypeOK
  <2>3. CASE Enqueue(q)
    BY <2>3 DEF Enqueue, RunRow, TypeInv, TypeOK
  <2> QED BY <1>2, <2>1, <2>2, <2>3 DEF SubmitMessage
<1>3. ASSUME NEW q \in Runs, StopCurrent(q) PROVE UNCHANGED tables
  BY <1>3 DEF StopCurrent
<1> QED BY <1>1, <1>2, <1>3 DEF Requests, RetryRun

(***************************************************************************)
(* Whoever ends a run has it in its hands, whether or not database calls   *)
(* fail.                                                                   *)
(***************************************************************************)
\* What a step may do to the current run while the dispatcher stays there.
LEMMA HandsStay ==
  ASSUME HandsInv, UNCHANGED <<at, current>>, phase' = "up" => phase = "up", faults' >= faults,
         faults \in Nat, faults' \in Nat,
         \/ run'[current].status = run[current].status
         \/ Ended(current) /\ run'[current].status = "deleted"
         \/ run[current].status = "queued" /\ run'[current].status = "failed"
         \/ run[current].status = "absent" /\ run'[current].status = "queued"
  PROVE  HandsInv'
<1>1. /\ run[current].status # "absent" => run'[current].status # "absent"
      /\ run[current].status \in Past => run'[current].status \in Past
      /\ run[current].status = "running" => run'[current].status = "running"
      /\ run[current].status \in {"running", "deleted"} => run'[current].status \in {"running", "deleted"}
  BY DEF Past, Ended, Terminal
<1> QED BY <1>1 DEF HandsInv

\* Cancelled, the task has in its hands what it had.
LEMMA HandsCancel ==
  ASSUME TypeInv, PlacesInv, HandsInv, NEW c, CancelTask(c), run' = run, current' = current,
         faults' = faults, phase' = "up" => run[current].status \in Past
  PROVE  HandsInv'
<1>1. /\ at["worker"] = "waiting" /\ at'["worker"] = "waiting"
      /\ TaskAlive /\ at["task"] # "none"
      /\ at'["task"] = IF at["task"] \in InOrchestrator THEN "onCancel"
                       ELSE IF at["task"] \in InHandlers THEN "finRead"
                       ELSE "cancelled"
  BY CancelMoves DEF PlacesInv, TypeInv
<1>2. at'["task"] \in {"onCancel", "finRead"} => run[current].status \in Past
  BY <1>1 DEF HandsInv, InOrchestrator, InHandlers
<1> QED BY <1>1, <1>2 DEF HandsInv, Working, InFinalize

LEMMA RequestsKeepHands ==
  ASSUME TypeInv, PlacesInv, HandsInv, Requests
  PROVE  HandsInv' /\ TodoInv'
<1>1. CASE \E r \in Runs : StopCurrent(r)
  <2>1. PICK r \in Runs : StopCurrent(r)
    BY <1>1
  <2>2. /\ current = r /\ run' = run /\ current' = current /\ faults' = faults /\ todo' = todo
        /\ phase = "up" /\ CancelTask("stopped")
        /\ run[current].status \notin {"absent", "deleted", "queued"}
    BY <2>1 DEF StopCurrent, Existing, tables, recovery
  <2>3. run[current].status \in Past
    BY <2>2 DEF TypeInv, TypeOK, RunRows, Statuses, Past
  <2>4. todo' = {}
    BY <2>2 DEF PlacesInv
  <2> QED BY <2>2, <2>3, <2>4, HandsCancel DEF TodoInv
<1>2. CASE ~\E r \in Runs : StopCurrent(r)
  <2>1. UNCHANGED <<at, current, phase, faults, todo>> /\ phase = "up"
    BY <1>2 DEF Requests, SubmitMessage, RetryRun, Enqueue, DeleteRun, StopQueued, dispatcher,
                recovery, counts
  <2>2. TodoInv'
    BY <2>1 DEF PlacesInv, TodoInv
  <2>3. CASE current \in Runs
    <3>1. \/ run'[current].status = run[current].status
          \/ Ended(current) /\ run'[current].status = "deleted"
          \/ run[current].status = "queued" /\ run'[current].status = "failed"
          \/ run[current].status = "absent" /\ run'[current].status = "queued"
      BY <2>3, RequestsNudge
    <3> QED BY <2>1, <2>2, <3>1, HandsStay DEF TypeInv, TypeOK
  <2>4. CASE current \notin Runs
    <3>1. at["worker"] \in {"idle", "dead"} /\ at["task"] = "none"
      BY <2>4 DEF PlacesInv
    <3> QED BY <2>1, <2>2, <3>1 DEF HandsInv, InFinalize, Working
  <2> QED BY <2>3, <2>4
<1> QED BY <1>1, <1>2

LEMMA WorkerKeepsHands ==
  ASSUME TypeInv, PlacesInv, HandsInv, TodoInv, Worker
  PROVE  HandsInv' /\ TodoInv'
<1>1. UNCHANGED <<run, phase, todo, faults>>
  BY DEF Worker, Pick, Launch, Collect, tables, recovery, counts
<1>2. TodoInv'
  BY <1>1 DEF TodoInv
<1>3. CASE Pick
  <2>1. at'["worker"] = "picked" /\ at'["task"] = "none" /\ run[current'].status = "queued"
    BY <1>3, Moved DEF Pick, Oldest, TypeInv, TypeOK, Actors, PlacesInv
  <2> QED BY <1>1, <1>2, <2>1 DEF HandsInv, InFinalize, Working
<1>4. CASE Launch
  BY <1>1, <1>2, <1>4 DEF Launch, HandsInv, InFinalize, Working
<1>5. CASE Collect
  <2>1. CASE at["task"] = "cancelled" /\ phase = "up"
    BY <1>1, <1>2, <1>5, <2>1 DEF Collect, HandsInv, InFinalize, Working
  <2>2. CASE ~(at["task"] = "cancelled" /\ phase = "up")
    BY <1>1, <1>2, <1>5, <2>2 DEF Collect, HandsInv, InFinalize, Working
  <2> QED BY <2>1, <2>2
<1> QED BY <1>3, <1>4, <1>5 DEF Worker

LEMMA TaskKeepsHands ==
  ASSUME TypeInv, PlacesInv, HandsInv, TodoInv, Task
  PROVE  HandsInv' /\ TodoInv'
<1> USE DEF TypeInv
<1>1. /\ at'["worker"] = "waiting" /\ current \in Runs /\ current' = current /\ phase' = phase
      /\ todo' = {} /\ faults' = faults /\ at["task"] # "none"
  BY TaskAtWork DEF PlacesInv, Serving
<1>2. TodoInv'
  BY <1>1 DEF TodoInv
<1> SUFFICES HandsInv'
  BY <1>2
<1>3. CASE Claim
  <2>1. CASE run[current].status = "queued"
    <3>1. PICK row : /\ row = [run[current] EXCEPT !.status = "running",
                                                   !.attempts = run[current].attempts + 1]
                     /\ run' = [run EXCEPT ![current] = row]
      BY <1>3, <2>1, Zenon DEF Claim
    <3>2. run'[current].status = "running"
      BY <1>1, <3>1 DEF TypeOK, RunRows
    <3>3. at'["task"] = "claimed"
      BY <1>3, <2>1, Moved DEF Claim, TypeOK, Actors
    <3> QED BY <1>1, <3>2, <3>3 DEF HandsInv, InFinalize, Working, Past
  <2>2. CASE run[current].status # "queued"
    <3>1. at'["task"] = "finished"
      BY <1>3, <2>2, Moved DEF Claim, TypeOK, Actors
    <3> QED BY <1>1, <3>1 DEF HandsInv, InFinalize, Working
  <2> QED BY <2>1, <2>2
<1>4. CASE Begin \/ AnnounceTooLarge \/ Produce \/ StartFlush \/ FinishFlush \/ AgentFails
  <2>1. run' = run
    BY <1>4 DEF Begin, AnnounceTooLarge, Produce, StartFlush, FinishFlush, AgentFails, tables
  <2>2. PICK from, to \in Working : Step(from, to)
    BY <1>4 DEF Begin, AnnounceTooLarge, Produce, StartFlush, FinishFlush, AgentFails, Working
  <2>3. at["task"] \in Working /\ at'["task"] \in Working
    BY <2>2, StepMoves
  <2> QED BY <1>1, <2>1, <2>3 DEF HandsInv, InFinalize, Working, Past
<1>5. CASE FailTooLarge
  <2>1. at["task"] = "budgeted" /\ at'["task"] = "ending"
    BY <1>5, StepMoves DEF FailTooLarge
  <2>2. run[current].status = "running"
    BY <2>1 DEF HandsInv, Working
  <2>3. run'[current].status = "failed"
    BY <1>1, <1>5, <2>2, FailFacts DEF FailTooLarge, Codes
  <2> QED BY <1>1, <2>1, <2>3 DEF HandsInv, InFinalize, Working, Past, Terminal
<1>6. CASE Complete
  <2>1. at'["task"] = "ending"
    BY <1>6, StepMoves DEF Complete
  <2>2. run' = [run EXCEPT ![current] = [run[current] EXCEPT !.status = "completed",
                                              !.code = "none", !.answer = TRUE]]
    BY <1>6 DEF Complete
  <2>3. [run[current] EXCEPT !.status = "completed", !.code = "none", !.answer = TRUE].status
          = "completed"
    BY <1>1 DEF TypeOK, RunRows
  <2>4. run'[current].status = "completed"
    BY <1>1, <2>2, <2>3 DEF TypeOK
  <2> QED BY <1>1, <2>1, <2>4 DEF HandsInv, InFinalize, Working, Past, Terminal
<1>7. CASE Rescue
  <2>1. run' = run
    BY <1>7 DEF Rescue
  <2>2. \/ at["task"] = "onCancel" /\ at'["task"] = "settleCancel"
        \/ at["task"] = "onError" /\ at'["task"] = "settleError"
    BY <1>7, StepMoves DEF Rescue
  <2> QED BY <1>1, <2>1, <2>2 DEF HandsInv, InFinalize, Working
<1>8. CASE SettleCancel
  <2>1. at["task"] = "settleCancel" /\ at'["task"] = "finRead"
    BY <1>8, StepMoves DEF SettleCancel
  <2>2. run[current].status \in Past /\ code["task"] \in Codes
    BY <2>1, RetryableIsLegal DEF HandsInv, CodesInv
  <2>3. run'[current].status \in Past
    BY <1>1, <1>8, <2>2, FailFacts DEF SettleCancel, tables, Past, Terminal
  <2> QED BY <1>1, <2>1, <2>3 DEF HandsInv, InFinalize, Working
<1>9. CASE SettleError
  <2>1. at["task"] = "settleError" /\ at'["task"] = "settled"
    BY <1>9, StepMoves DEF SettleError
  <2>2. run[current].status = "running"
    BY <2>1 DEF HandsInv, Working
  <2>3. run'[current].status = "failed"
    BY <1>1, <1>9, <2>2, FailFacts DEF SettleError, Codes
  <2> QED BY <1>1, <2>1, <2>3 DEF HandsInv, InFinalize, Working, Past, Terminal
<1>10. CASE AnnounceFault
  <2>1. at["task"] = "faultEvent" /\ at'["task"] = "faultMark" /\ run' = run
    BY <1>10, StepMoves DEF AnnounceFault
  <2> QED BY <1>1, <2>1 DEF HandsInv, InFinalize, Working
<1>11. CASE End \/ FailFault
  <2>1. at'["task"] = "finished"
    BY <1>11, StepMoves DEF End, FailFault
  <2> QED BY <1>1, <2>1 DEF HandsInv, InFinalize, Working
<1> QED
  BY <1>3, <1>4, <1>5, <1>6, <1>7, <1>8, <1>9, <1>10, <1>11 DEF Task

LEMMA FinalizeKeepsHands ==
  ASSUME TypeInv, PlacesInv, HandsInv, TodoInv, Finalize
  PROVE  HandsInv' /\ TodoInv'
<1> USE DEF TypeInv
<1>1. PICK a \in Actors : FinalizeRead(a) \/ FinalizeEvent(a) \/ FinalizeMark(a)
  BY DEF Finalize
<1>2. /\ at[a] \in InFinalize
      /\ \A b \in Actors \ {a} : at'[b] = at[b]
      /\ \/ at'[a] \in {"finEvent", "finMark"} /\ current' = current
         \/ a = "task" /\ at'[a] = "cancelled" /\ current' = current
         \/ a = "worker" /\ at'[a] = "idle"
      /\ UNCHANGED <<phase, code, todo, faults>>
  BY <1>1, FinalizeMoves
<1>3. /\ a = "task" => at["worker"] = "waiting"
      /\ a = "worker" => at["task"] = "none"
      /\ current \in Runs /\ Serving
  BY <1>2 DEF PlacesInv, InFinalize, Actors
<1>4. TodoInv'
  BY <1>2, <1>3 DEF PlacesInv, Serving, TodoInv
<1>5. run[current].status \in Past /\ code[a] \in Codes
  BY <1>2, <1>3, RetryableIsLegal DEF HandsInv, CodesInv, Actors, InFinalize
<1>6. run'[current].status \in Past
  BY <1>1, <1>3, <1>5, FailFacts DEF FinalizeRead, FinalizeEvent, FinalizeMark, tables, Past, Terminal
<1>7. at'[a] \in {"finEvent", "finMark"} => run'[current].status \in {"running", "deleted"}
  <2>1. CASE FinalizeRead(a) /\ ~Ended(current)
    BY <1>5, <2>1 DEF FinalizeRead, tables, Past, Ended
  <2>2. CASE FinalizeEvent(a)
    BY <2>2 DEF FinalizeEvent, HandsInv, Actors
  <2>3. CASE FinalizeMark(a) \/ (FinalizeRead(a) /\ Ended(current))
    <3>1. at'[a] \in {"cancelled", "idle"}
      BY <2>3, Moved DEF FinalizeMark, FinalizeRead, Finalized, TypeOK, Actors
    <3> QED BY <3>1
  <2> QED BY <1>1, <2>1, <2>2, <2>3
<1>8. HandsInv'
  <2>1. CASE a = "task"
    BY <1>2, <1>3, <1>6, <1>7, <2>1 DEF HandsInv, InFinalize, Actors, Working
  <2>2. CASE a = "worker"
    BY <1>2, <1>3, <1>6, <1>7, <2>2 DEF HandsInv, InFinalize, Actors, Working
  <2> QED BY <2>1, <2>2 DEF Actors
<1> QED BY <1>4, <1>8

LEMMA RecoveryKeepsHands ==
  ASSUME TypeInv, PlacesInv, HandsInv, TodoInv, Recovery
  PROVE  HandsInv' /\ TodoInv'
<1> USE DEF TypeInv
<1>1. /\ at["worker"] = "idle" /\ at["task"] = "none" /\ at' = at
  BY NoRunIsNoRun DEF Recovery, Restart, RecoverEvent, RecoverMark, FinishRecovery, PlacesInv, Serving,
                      dispatcher
<1>2. HandsInv'
  BY <1>1 DEF HandsInv, InFinalize, Working
<1>3. TodoInv'
  <2>1. CASE RecoverMark
    <3>1. /\ half \in Runs /\ todo' = todo \ {half} /\ Fail(half, "interrupted")
          /\ "interrupted" \in Codes
      BY <2>1, RetryableIsLegal DEF RecoverMark, PlacesInv, TypeOK, Retryable
    <3>2. \A q \in Runs \ {half} : run'[q] = run[q]
      BY <3>1, FailFacts
    <3> QED BY <3>1, <3>2 DEF TodoInv, TypeOK
  <2>2. CASE ~RecoverMark
    BY <2>2 DEF Recovery, Restart, RecoverEvent, FinishRecovery, tables, recovery, TodoInv
  <2> QED BY <2>1, <2>2
<1> QED BY <1>2, <1>3

LEMMA EnvironmentKeepsHands ==
  ASSUME TypeInv, PlacesInv, HandsInv, TodoInv, Environment
  PROVE  HandsInv' /\ TodoInv'
<1> USE DEF TypeInv
<1>1. CASE TaskFault
  <2>1. /\ at'["worker"] = at["worker"] /\ at'["task"] = Raised
        /\ run' = run /\ current' = current /\ phase' = phase /\ todo' = todo /\ faults' = faults + 1
        /\ at["task"] # "none"
    BY <1>1, Moved DEF TaskFault, TaskAlive, TypeOK, Actors, tables, recovery
  <2>2. at["worker"] = "waiting" /\ faults' > 0
    BY <2>1 DEF PlacesInv, TypeOK
  <2>3. /\ Raised \in {"onError", "settleCancel", "settleError", "faultEvent", "finished"}
        /\ Raised = "onError" => run[current].status = "running"
        /\ Raised = "settleError" => run[current].status = "running"
        /\ Raised # "finished" => run[current].status \in Past
    <3>1. CASE at["task"] \in {"prepare", "work", "flushing", "budgeted", "onCancel", "onError",
                               "settleCancel", "settleError"}
      <4>1. /\ run[current].status \in Past
            /\ at["task"] \in Working => run[current].status = "running"
        BY <3>1 DEF HandsInv
      <4> QED BY <3>1, <4>1 DEF Raised, Working
    <3>2. CASE ~(at["task"] \in {"prepare", "work", "flushing", "budgeted", "onCancel", "onError",
                               "settleCancel", "settleError"})
      BY <3>2 DEF Raised
    <3> QED BY <3>1, <3>2
  <2> QED BY <2>1, <2>2, <2>3 DEF HandsInv, InFinalize, Working, TodoInv
<1>2. CASE WorkerFault
  <2>1. at'["worker"] \in {"dead", "idle"} /\ at'["task"] = at["task"] /\ at["worker"] # "waiting"
    BY <1>2, Moved DEF WorkerFault, TypeOK, Actors, InFinalize
  <2>2. at["task"] = "none" /\ run' = run /\ todo' = todo
    BY <1>2, <2>1 DEF PlacesInv, WorkerFault, tables, recovery
  <2> QED BY <2>1, <2>2 DEF HandsInv, InFinalize, Working, TodoInv
<1>3. CASE Shutdown
  BY <1>3 DEF Shutdown, HandsInv, TodoInv, tables, recovery
<1>4. CASE GraceTimeout
  <2>1. /\ phase' = "cancelling" /\ CancelTask("interrupted")
        /\ UNCHANGED <<run, current, todo, faults>>
    BY <1>4 DEF GraceTimeout, recovery, tables, counts
  <2> QED BY <2>1, HandsCancel DEF TodoInv
<1>5. CASE Exit \/ Crash
  <2>1. Halted
    BY <1>5 DEF Exit, Crash
  <2> QED BY <2>1 DEF Halted, HandsInv, TodoInv, InFinalize, Working
<1> QED BY <1>1, <1>2, <1>3, <1>4, <1>5 DEF Environment

LEMMA HandsStep ==
  ASSUME TypeInv, PlacesInv, HandsInv, TodoInv, [Next]_vars
  PROVE  HandsInv' /\ TodoInv'
<1>1. CASE UNCHANGED vars
  BY <1>1 DEF vars, tables, dispatcher, recovery, counts, HandsInv, TodoInv
<1> QED
  BY <1>1, RequestsKeepHands, WorkerKeepsHands, TaskKeepsHands, FinalizeKeepsHands,
     RecoveryKeepsHands, EnvironmentKeepsHands DEF Next

(***************************************************************************)
(* The order of the queue.                                                 *)
(***************************************************************************)
\* Only Pick chooses a run, and the clock only goes on.
LEMMA ChoiceStands ==
  ASSUME TypeInv, PlacesInv, [Next]_vars
  PROVE  /\ clock' \in {clock, clock + 1}
         /\ at'["worker"] = "picked" \/ at'["task"] = "claim" =>
              \/ Pick
              \/ current' = current /\ (at["worker"] = "picked" \/ at["task"] = "claim")
<1> USE DEF TypeInv
<1>1. CASE Requests
  <2>1. ASSUME NEW r \in Runs, StopCurrent(r)
        PROVE  /\ clock' = clock /\ current' = current
               /\ at'["worker"] = at["worker"] /\ at'["task"] # "claim"
    BY <2>1, CancelMoves DEF StopCurrent
  <2>2. CASE ~\E r \in Runs : StopCurrent(r)
    BY <1>1, <2>2 DEF Requests, SubmitMessage, RetryRun, Enqueue, DeleteRun, StopQueued, dispatcher
  <2> QED BY <2>1, <2>2
<1>2. CASE Worker
  BY <1>2 DEF Worker, Pick, Launch, Collect
<1>3. CASE Task
  <2>1. clock' = clock /\ at'["worker"] = "waiting"
    BY <1>3, TaskAtWork
  <2>2. CASE Claim
    <3>1. at'["task"] \in {"claimed", "finished"}
      BY <2>2, Moved DEF Claim, TypeOK, Actors
    <3> QED BY <2>1, <3>1
  <2>3. CASE ~Claim
    <3>1. PICK from, to : Step(from, to) /\ to # "claim"
      BY <1>3, <2>3 DEF Task, Begin, AnnounceTooLarge, FailTooLarge, Produce, StartFlush, FinishFlush,
                AgentFails, Complete, End, Rescue, SettleCancel, SettleError, AnnounceFault, FailFault
    <3> QED BY <2>1, <3>1, StepMoves
  <2> QED BY <2>2, <2>3
<1>4. CASE Finalize
  <2>1. PICK a \in Actors : FinalizeRead(a) \/ FinalizeEvent(a) \/ FinalizeMark(a)
    BY <1>4 DEF Finalize
  <2>2. /\ at[a] \in InFinalize
        /\ \A b \in Actors \ {a} : at'[b] = at[b]
        /\ at'[a] \in {"finEvent", "finMark", "cancelled", "idle"}
        /\ clock' = clock
    BY <2>1, FinalizeMoves
  <2>3. a = "task" => at["worker"] = "waiting"
    BY <2>2 DEF PlacesInv, InFinalize
  <2>4. a = "worker" => at["task"] = "none"
    BY <2>2 DEF PlacesInv, InFinalize
  <2> QED BY <2>2, <2>3, <2>4 DEF Actors
<1>5. CASE Recovery
  BY <1>5 DEF Recovery, Restart, RecoverEvent, RecoverMark, FinishRecovery, dispatcher
<1>6. CASE Environment
  <2>1. CASE TaskFault
    <3>1. at'["worker"] = at["worker"] /\ at'["task"] = Raised /\ Raised # "claim"
      BY <2>1, Moved DEF TaskFault, Raised, TypeOK, Actors, TaskPlaces, InHandlers, InOrchestrator,
                         InFinalize
    <3> QED BY <2>1, <3>1 DEF TaskFault
  <2>2. CASE WorkerFault
    <3>1. at'["worker"] \in {"dead", "idle"} /\ at'["task"] = at["task"]
      BY <2>2, Moved DEF WorkerFault, TypeOK, Actors
    <3> QED BY <2>2, <3>1 DEF WorkerFault
  <2>3. CASE GraceTimeout
    <3>1. at'["worker"] = at["worker"] /\ at'["task"] # "claim" /\ clock' = clock /\ current' = current
      BY <2>3, CancelMoves DEF GraceTimeout
    <3> QED BY <3>1
  <2>4. CASE Shutdown \/ Exit \/ Crash
    BY <2>4 DEF Shutdown, Exit, Crash, Halted
  <2> QED BY <1>6, <2>1, <2>2, <2>3, <2>4 DEF Environment
<1>7. CASE UNCHANGED vars
  BY <1>7 DEF vars, dispatcher
<1> QED BY <1>1, <1>2, <1>3, <1>4, <1>5, <1>6, <1>7 DEF Next

LEMMA OrderStep ==
  ASSUME TypeInv, PlacesInv, HandsInv, OrderInv, [Next]_vars
  PROVE  OrderInv'
<1>1. \A q \in Runs : run[q].born \in Nat
  BY DEF TypeInv, TypeOK, RunRows
<1>2. clock \in Nat /\ clock' \in {clock, clock + 1}
  BY ChoiceStands DEF TypeInv, TypeOK
<1>3. ASSUME NEW q \in Runs, run'[q].status = "queued"
      PROVE  \/ run'[q] = run[q]
             \/ /\ run[q].status = "absent"
                /\ run'[q].born = clock' /\ clock' = clock + 1
  BY <1>3, StepMovesRuns DEF Moves, Created, Started, Over
<1>4. ASSUME NEW q \in Runs, run'[q].status = "queued"
      PROVE  run'[q].born <= clock'
  BY <1>1, <1>2, <1>3, <1>4 DEF OrderInv
<1>5. ASSUME at'["worker"] = "picked" \/ at'["task"] = "claim", run'[current'].status = "queued",
             NEW q \in Runs, run'[q].status = "queued"
      PROVE  run'[current'].born <= run'[q].born
  <2>1. CASE Pick
    <3>1. Oldest(current') /\ run' = run
      BY <2>1 DEF Pick, tables
    <3> QED BY <1>5, <3>1 DEF Oldest
  <2>2. CASE ~Pick
    <3>1. current' = current /\ (at["worker"] = "picked" \/ at["task"] = "claim")
      BY <1>5, <2>2, ChoiceStands
    <3>2. current \in Runs /\ run[current].status # "absent"
      BY <3>1 DEF HandsInv, PlacesInv
    <3>3. run'[current] = run[current] /\ run[current].status = "queued"
      BY <1>3, <1>5, <3>1, <3>2
    <3>4. run[current].born <= clock
      BY <3>2, <3>3 DEF OrderInv
    <3>5. CASE run'[q] = run[q]
      BY <1>5, <3>1, <3>3, <3>5 DEF OrderInv
    <3>6. CASE run'[q] # run[q]
      <4>1. run'[q].born = clock + 1
        BY <1>3, <1>5, <3>6
      <4> QED BY <1>1, <1>2, <3>1, <3>2, <3>3, <3>4, <4>1
    <3> QED BY <3>5, <3>6
  <2> QED BY <2>1, <2>2
<1> QED BY <1>4, <1>5 DEF OrderInv

(***************************************************************************)
(* What holds of the dispatcher whether or not database calls fail.        *)
(***************************************************************************)
DispatcherInv == TypeInv /\ PlacesInv /\ HandsInv /\ OrderInv /\ TodoInv

LEMMA DispatcherInit == Init => DispatcherInv
<1> SUFFICES ASSUME Init PROVE DispatcherInv
  OBVIOUS
<1>1. /\ \A r \in Runs : run[r] \in OldRuns \cup {AbsentRun}
      /\ at["worker"] = "idle" /\ at["task"] = "none" /\ phase = "down"
      /\ todo = {} /\ half = NoRun
  BY DEF Init
<1>2. \A r \in Runs : run[r].status # "queued"
  <2>1. \A row \in OldRuns \cup {AbsentRun} : row.status # "queued"
    BY DEF OldRuns, AbsentRun, RunRow
  <2> QED BY <1>1, <2>1
<1>3. PlacesInv /\ HandsInv /\ TodoInv
  BY <1>1 DEF PlacesInv, HandsInv, TodoInv, Serving, InFinalize, Working
<1>4. OrderInv
  BY <1>1, <1>2 DEF OrderInv
<1> QED BY <1>3, <1>4, TypeInit DEF DispatcherInv, TypeInv

LEMMA DispatcherStep == DispatcherInv /\ [Next]_vars => DispatcherInv'
BY TypeStep, PlacesStep, HandsStep, OrderStep DEF DispatcherInv

LEMMA EndedStays ==
  ASSUME DispatcherInv, [Next]_vars, NEW r \in Runs, Ended(r)
  PROVE  \/ run'[r] = run[r]
         \/ run'[r].status = "deleted"
         \/ faults > 0 /\ r = current /\ at["task"] = "faultMark"
<1> USE DEF DispatcherInv, TypeInv
<1>1. run[r].status \in {"completed", "failed"}
  BY DEF Ended, Terminal
<1>2. CASE Requests
  BY <1>1, <1>2, RequestsNudge
<1>3. CASE Task
  <2>1. current \in Runs
    BY <1>3, TaskAtWork
  <2>2. CASE Claim
    <3>1. PICK row : \/ run' = run
                     \/ run' = [run EXCEPT ![current] = row] /\ run[current].status = "queued"
      BY <2>2, Zenon DEF Claim
    <3> QED BY <1>1, <3>1 DEF TypeOK
  <2>3. CASE Complete
    <3>1. /\ at["task"] = "work"
          /\ run' = [run EXCEPT ![current] = [run[current] EXCEPT !.status = "completed",
                                                !.code = "none", !.answer = TRUE]]
      BY <2>3 DEF Complete, Step
    <3>2. r # current
      BY <1>1, <3>1 DEF HandsInv, Working
    <3> QED BY <3>1, <3>2 DEF TypeOK
  <2>4. CASE FailTooLarge \/ SettleError \/ SettleCancel
    <3>1. UNCHANGED run \/ \E c \in Codes : Fail(current, c) /\ run[current].status = "running"
      <4>1. FailTooLarge => at["task"] = "budgeted" /\ Fail(current, "toolarge")
        BY DEF FailTooLarge, Step
      <4>2. SettleError => at["task"] = "settleError" /\ Fail(current, "error")
        BY DEF SettleError, Step
      <4>3. SettleCancel => code["task"] \in Codes
        BY RetryableIsLegal DEF SettleCancel, Step, CodesInv
      <4>4. {"toolarge", "error"} \subseteq Codes
        BY DEF Codes
      <4>5. CASE SettleCancel
        BY <4>3, <4>5 DEF SettleCancel, tables
      <4>6. CASE FailTooLarge \/ SettleError
        <5>1. run[current].status = "running"
          BY <4>1, <4>2, <4>6 DEF HandsInv, Working
        <5> QED BY <4>1, <4>2, <4>4, <4>6, <5>1
      <4> QED BY <2>4, <4>5, <4>6
    <3> QED BY <1>1, <2>1, <3>1, FailFacts
  <2>5. CASE FailFault
    <3>1. at["task"] = "faultMark" /\ Fail(current, "error") /\ faults > 0
      BY <2>5 DEF FailFault, Step, HandsInv
    <3> QED BY <2>1, <3>1, FailFacts DEF Codes
  <2>6. CASE ~(Claim \/ Complete \/ FailTooLarge \/ SettleError \/ SettleCancel \/ FailFault)
    BY <1>3, <2>6 DEF Task, Begin, AnnounceTooLarge, Produce, StartFlush, FinishFlush, AgentFails, End,
                      Rescue, AnnounceFault, tables
  <2> QED BY <2>2, <2>3, <2>4, <2>5, <2>6
<1>4. CASE Finalize
  <2>1. PICK a \in Actors : FinalizeRead(a) \/ FinalizeEvent(a) \/ FinalizeMark(a)
    BY <1>4 DEF Finalize
  <2>2. CASE FinalizeMark(a)
    <3>1. at[a] = "finMark" /\ Fail(current, code[a])
      BY <2>2 DEF FinalizeMark
    <3>2. code[a] \in Codes /\ current \in Runs
      BY <3>1, RetryableIsLegal DEF CodesInv, PlacesInv, Actors, InFinalize
    <3>3. run[current].status \in {"running", "deleted"}
      <4>1. at["worker"] = "finMark" \/ at["task"] = "finMark"
        BY <3>1 DEF Actors
      <4> QED BY <4>1 DEF HandsInv
    <3> QED BY <1>1, <3>1, <3>2, <3>3, FailFacts
  <2> QED BY <2>1, <2>2 DEF FinalizeRead, FinalizeEvent, tables
<1>5. CASE Recovery
  <2>1. CASE RecoverMark
    <3>1. half \in Runs /\ run[half].status = "running" /\ Fail(half, "interrupted")
      BY <2>1 DEF RecoverMark, PlacesInv, TodoInv, TypeOK
    <3> QED BY <1>1, <3>1, FailFacts, RetryableIsLegal DEF Retryable
  <2> QED BY <1>5, <2>1 DEF Recovery, Restart, RecoverEvent, FinishRecovery, tables
<1>6. CASE Worker \/ Environment \/ UNCHANGED vars
  BY <1>6 DEF Environment, TaskFault, WorkerFault, Shutdown, GraceTimeout, Exit, Crash, Halted,
              Worker, Pick, Launch, Collect, vars, tables
<1> QED BY <1>2, <1>3, <1>4, <1>5, <1>6 DEF Next

(***************************************************************************)
(* The row of an ended run does not change until the run is deleted: a     *)
(* late stop, a second handler and the recovery scan find it ended.  The   *)
(* one exception is the last resort of _execute after a failed call.       *)
(***************************************************************************)
THEOREM EndedStaysEnded == Spec => EndedForGood
<1>1. DispatcherInv /\ [Next]_vars =>
        [\A r \in Runs :
           Ended(r) =>
             \/ run'[r] = run[r]
             \/ run'[r].status = "deleted"
             \/ faults > 0 /\ r = current /\ at["task"] = "faultMark"]_vars
  BY EndedStays
<1> QED BY <1>1, DispatcherInit, DispatcherStep, PTL DEF Spec, EndedForGood

(***************************************************************************)
(* The run the dispatcher claims is the oldest of the queue at that        *)
(* moment, although requests went on since it was picked.                  *)
(***************************************************************************)
THEOREM OldestFirst == Spec => StartedInOrder
<1>1. DispatcherInv /\ [Next]_vars =>
        [\A r \in Runs :
           run[r].status = "queued" /\ run'[r].status = "running" =>
             \A q \in Runs : run[q].status = "queued" => run[r].born <= run[q].born]_vars
  <2> SUFFICES ASSUME DispatcherInv, [Next]_vars, NEW r \in Runs,
                      run[r].status = "queued", run'[r].status = "running",
                      NEW q \in Runs, run[q].status = "queued"
               PROVE  run[r].born <= run[q].born
    OBVIOUS
  <2>1. r = current /\ at["task"] = "claim"
    BY StepMovesRuns DEF Moves, Created, Started, Over, DispatcherInv
  <2> QED BY <2>1 DEF DispatcherInv, OrderInv
<1> QED BY <1>1, DispatcherInit, DispatcherStep, PTL DEF Spec, StartedInOrder

-----------------------------------------------------------------------------
(* The inductive invariant, and what follows from it.                       *)

(***************************************************************************)
(* What is appended to the events of a run.                                *)
(***************************************************************************)
LEMMA AppendFacts ==
  ASSUME NEW r \in Runs, rows[r] \in Seq(Kinds), NEW k \in Kinds,
         rows'[r] = Append(rows[r], k)
  PROVE  /\ Says(r, k)'
         /\ \A K : Has(r, K)' <=> Has(r, K) \/ k \in K
<1>1. /\ Len(rows'[r]) = Len(rows[r]) + 1 /\ Len(rows[r]) \in Nat
      /\ DOMAIN rows'[r] = 1 .. Len(rows[r]) + 1 /\ DOMAIN rows[r] = 1 .. Len(rows[r])
      /\ rows'[r][Len(rows[r]) + 1] = k
      /\ \A i \in 1 .. Len(rows[r]) : rows'[r][i] = rows[r][i]
  OBVIOUS
<1>2. Says(r, k)'
  BY <1>1 DEF Says
<1>3. ASSUME NEW K PROVE Has(r, K)' <=> Has(r, K) \/ k \in K
  <2>1. ASSUME Has(r, K)' PROVE Has(r, K) \/ k \in K
    <3>1. PICK i \in 1 .. Len(rows[r]) + 1 : rows'[r][i] \in K
      BY <1>1, <2>1 DEF Has
    <3>2. i \in 1 .. Len(rows[r]) \/ i = Len(rows[r]) + 1
      BY <1>1
    <3> QED BY <1>1, <3>1, <3>2 DEF Has
  <2>2. ASSUME Has(r, K) PROVE Has(r, K)'
    <3>1. PICK i \in 1 .. Len(rows[r]) : rows[r][i] \in K
      BY <1>1, <2>2 DEF Has
    <3>2. i \in 1 .. Len(rows[r]) + 1
      BY <1>1
    <3> QED BY <1>1, <3>1, <3>2 DEF Has
  <2>3. ASSUME k \in K PROVE Has(r, K)'
    <3>1. Len(rows[r]) + 1 \in 1 .. Len(rows[r]) + 1
      BY <1>1
    <3> QED BY <1>1, <2>3, <3>1 DEF Has
  <2> QED BY <2>1, <2>2, <2>3
<1> QED BY <1>2, <1>3

LEMMA BatchFacts ==
  ASSUME NEW r \in Runs, rows[r] \in Seq(Kinds), NEW n \in Nat,
         rows'[r] = rows[r] \o Batch(n), NEW K \in SUBSET Outcomes
  PROVE  Has(r, K)' <=> Has(r, K)
<1>1. "output" \notin K
  BY DEF Outcomes, Failures, Retryable
<1>2. /\ Len(rows[r]) \in Nat
      /\ DOMAIN rows'[r] = 1 .. Len(rows[r]) + n /\ DOMAIN rows[r] = 1 .. Len(rows[r])
      /\ \A i \in 1 .. Len(rows[r]) : rows'[r][i] = rows[r][i]
      /\ \A i \in Len(rows[r]) + 1 .. Len(rows[r]) + n : rows'[r][i] = "output"
  <2>1. Batch(n) \in Seq({"output"}) /\ Len(Batch(n)) = n
    BY DEF Batch
  <2> QED BY <2>1 DEF Batch
<1>3. ASSUME Has(r, K)' PROVE Has(r, K)
  <2>1. PICK i \in 1 .. Len(rows[r]) + n : rows'[r][i] \in K
    BY <1>2, <1>3 DEF Has
  <2>2. i \in 1 .. Len(rows[r]) \/ i \in Len(rows[r]) + 1 .. Len(rows[r]) + n
    BY <1>2
  <2> QED BY <1>1, <1>2, <2>1, <2>2 DEF Has
<1>4. ASSUME Has(r, K) PROVE Has(r, K)'
  <2>1. PICK i \in 1 .. Len(rows[r]) : rows[r][i] \in K
    BY <1>2, <1>4 DEF Has
  <2>2. i \in 1 .. Len(rows[r]) + n
    BY <1>2
  <2> QED BY <1>2, <2>1, <2>2 DEF Has
<1> QED BY <1>3, <1>4

LEMMA EmptyBatch ==
  ASSUME NEW s \in Seq(Kinds)
  PROVE  s \o Batch(0) = s
<1>1. Batch(0) = <<>>
  BY DEF Batch
<1> QED BY <1>1

LEMMA NothingSaid ==
  ASSUME NEW r, rows[r] = <<>>, NEW K
  PROVE  ~Has(r, K)
BY DEF Has

(***************************************************************************)
(* What a step may do to a run and its events while the database accepts   *)
(* writes.  Every step but the end of the recovery scan concerns one run.  *)
(***************************************************************************)
Only(r) == \A q \in Runs \ {r} : run'[q] = run[q] /\ rows'[q] = rows[q]

\* The failures an event may announce; the recovery scan repairs by itself.
Announcements == Failures \ {"repaired"}

Talked(r) ==
  /\ run[r].status = "running" /\ run'[r] = run[r]
  /\ \E n \in Nat : rows'[r] = rows[r] \o Batch(n)

Submitted(r) ==
  /\ run[r].status = "absent" /\ run'[r].status = "queued"
  /\ rows'[r] = rows[r]

Begun(r) ==
  /\ run[r].status = "queued" /\ run'[r].status = "running"
  /\ rows'[r] = rows[r]

Announced(r) ==
  /\ run[r].status \in {"running", "deleted"} /\ run'[r] = run[r]
  /\ \E k \in Announcements : rows'[r] = Append(rows[r], k)

FailedBy(r) ==
  /\ run[r].status \in {"queued", "running"} /\ run'[r].status = "failed"
  /\ \E c \in Announcements :
       /\ run'[r].code = c
       /\ rows'[r] = Append(rows[r], c) \/ (rows'[r] = rows[r] /\ Says(r, c))

Answered(r) ==
  /\ run[r].status = "running" /\ run'[r].status = "completed"
  /\ ~Has(r, Outcomes)
  /\ rows'[r] = Append(rows[r], "completed")

Removed(r) ==
  /\ Ended(r) /\ run'[r].status = "deleted"
  /\ rows'[r] = <<>>

Change(r) ==
  Talked(r) \/ Submitted(r) \/ Begun(r) \/ Announced(r) \/ FailedBy(r) \/ Answered(r) \/ Removed(r)

OneChange == (\E r \in Runs : Only(r) /\ Change(r)) \/ UNCHANGED tables

\* The dispatcher changes its current run only.
CurrentChange == (current \in Runs /\ Only(current) /\ Change(current)) \/ UNCHANGED tables

\* The part of the invariant that needs a database that accepts writes.
SafeInv ==
  /\ QueueInv /\ StatusInv /\ EventsInv /\ BufferInv
  /\ RunningInv /\ TodoInv /\ ToldInv /\ OutcomesDoNotMix

LEMMA AnnouncementsAreLegal ==
  /\ Announcements \subseteq Kinds \cap Codes
  /\ Retryable \cup {"error", "toolarge"} = Announcements
  /\ "old" \notin Announcements /\ "completed" \notin Announcements
BY DEF Announcements, Failures, Retryable, Kinds, Codes, Outcomes

LEMMA FailAndWrite ==
  ASSUME TypeOK, NEW r \in Runs, NEW c \in Announcements, Fail(r, c), Write(r, c),
         run[r].status \in {"queued", "running"}
  PROVE  Only(r) /\ Change(r)
<1>1. c \in Codes \cap Kinds
  BY AnnouncementsAreLegal
<1>2. /\ \A q \in Runs \ {r} : run'[q] = run[q]
      /\ run'[r].status = "failed" /\ run'[r].code = c
  BY <1>1, FailFacts
<1>3. /\ \A q \in Runs \ {r} : rows'[q] = rows[q]
      /\ rows'[r] = Append(rows[r], c)
  BY <1>1, WriteFacts
<1>4. FailedBy(r)
  BY <1>2, <1>3 DEF FailedBy
<1> QED BY <1>2, <1>3, <1>4 DEF Only, Change

LEMMA FailAsSaid ==
  ASSUME TypeOK, NEW r \in Runs, NEW c \in Announcements, Fail(r, c), Says(r, c),
         rows' = rows, run[r].status \in {"queued", "running"}
  PROVE  Only(r) /\ Change(r)
<1>1. c \in Codes \cap Kinds
  BY AnnouncementsAreLegal
<1> QED BY <1>1, FailFacts DEF Only, Change, FailedBy

LEMMA WriteAnnounces ==
  ASSUME TypeOK, NEW r \in Runs, NEW c \in Announcements, Write(r, c),
         run' = run, run[r].status \in {"deleted", "running"}
  PROVE  Only(r) /\ Change(r)
<1>1. c \in Kinds
  BY AnnouncementsAreLegal
<1> QED BY <1>1, WriteFacts DEF Only, Change, Announced

LEMMA RequestsChange ==
  ASSUME TypeInv, Requests
  PROVE  OneChange
<1> USE DEF TypeInv
<1>1. ASSUME NEW r \in Runs, Enqueue(r) PROVE Only(r) /\ Change(r)
  BY <1>1 DEF Enqueue, RunRow, TypeOK, Only, Change, Submitted
<1>2. ASSUME NEW r \in Runs, DeleteRun(r) PROVE Only(r) /\ Change(r)
  <2>1. [run[r] EXCEPT !.status = "deleted"].status = "deleted"
    BY DEF TypeOK, RunRows
  <2>2. /\ run' = [run EXCEPT ![r] = [run[r] EXCEPT !.status = "deleted"]]
        /\ rows' = [rows EXCEPT ![r] = <<>>] /\ Ended(r)
    BY <1>2 DEF DeleteRun
  <2> QED BY <2>1, <2>2 DEF TypeOK, Only, Change, Removed
<1>3. ASSUME NEW r \in Runs, StopQueued(r) PROVE Only(r) /\ Change(r)
  BY <1>3, FailAndWrite, AnnouncementsAreLegal DEF StopQueued, Retryable
<1>4. ASSUME NEW r \in Runs, StopCurrent(r) PROVE UNCHANGED tables
  BY <1>4 DEF StopCurrent, tables
<1> QED
  BY <1>1, <1>2, <1>3, <1>4 DEF Requests, SubmitMessage, RetryRun, OneChange

LEMMA TaskChanges ==
  ASSUME TypeInv, PlacesInv, SafeInv, Task
  PROVE  CurrentChange
<1> USE DEF TypeInv
<1>1. /\ at["worker"] = "waiting" /\ current \in Runs /\ Place = at["task"]
      /\ run[current].status \in StatusAt(at["task"])
  <2>1. at["worker"] = "waiting" /\ current \in Runs /\ at["task"] \in TaskPlaces
    BY TaskAtWork DEF TypeOK
  <2>2. at["task"] # "idle"
    BY <2>1 DEF TaskPlaces, InOrchestrator, InHandlers, InFinalize
  <2> QED BY <2>1, <2>2 DEF Place, SafeInv, StatusInv
<1>2. CASE Claim
  <2>1. CASE UNCHANGED run
    BY <1>2, <2>1 DEF Claim, CurrentChange, tables
  <2>2. CASE ~UNCHANGED run
    <3>1. PICK row : /\ row = [run[current] EXCEPT !.status = "running",
                                                   !.attempts = run[current].attempts + 1]
                     /\ run' = [run EXCEPT ![current] = row]
                     /\ run[current].status = "queued"
      BY <1>2, <2>2, Zenon DEF Claim
    <3>2. row.status = "running"
      BY <1>1, <3>1 DEF TypeOK, RunRows
    <3>3. rows' = rows
      BY <1>2 DEF Claim
    <3>4. Only(current) /\ Begun(current)
      BY <1>1, <3>1, <3>2, <3>3 DEF Only, Begun, TypeOK
    <3> QED BY <1>1, <3>4 DEF CurrentChange, Change
  <2> QED BY <2>1, <2>2
<1>3. CASE AnnounceTooLarge
  <2>1. at["task"] = "prepare" /\ Write(current, "toolarge") /\ run' = run
    BY <1>3 DEF AnnounceTooLarge, Step
  <2>2. run[current].status = "running"
    BY <1>1, <2>1 DEF StatusAt
  <2> QED BY <1>1, <2>1, <2>2, WriteAnnounces, AnnouncementsAreLegal DEF CurrentChange
<1>4. CASE FailTooLarge
  <2>1. at["task"] = "budgeted" /\ Fail(current, "toolarge") /\ rows' = rows
    BY <1>4 DEF FailTooLarge, Step
  <2>2. run[current].status = "running" /\ Says(current, "toolarge")
    BY <1>1, <2>1 DEF StatusAt, SafeInv, EventsInv
  <2> QED BY <1>1, <2>1, <2>2, FailAsSaid, AnnouncementsAreLegal DEF CurrentChange
<1>5. CASE FinishFlush
  <2>1. at["task"] = "flushing" /\ run' = run
        /\ rows' = [rows EXCEPT ![current] = rows[current] \o Batch(flight)]
    BY <1>5 DEF FinishFlush, Step
  <2>2. run[current].status = "running" /\ flight \in Nat
    BY <1>1, <2>1 DEF StatusAt, TypeOK
  <2>3. Only(current) /\ Talked(current)
    BY <1>1, <2>1, <2>2 DEF Only, Talked, TypeOK
  <2> QED BY <1>1, <2>3 DEF CurrentChange, Change
<1>6. CASE Complete
  <2>1. /\ at["task"] = "work" /\ Write(current, "completed")
        /\ run' = [run EXCEPT ![current] = [run[current] EXCEPT !.status = "completed",
                                              !.code = "none", !.answer = TRUE]]
    BY <1>6 DEF Complete, Step
  <2>2. run[current].status = "running" /\ ~Has(current, Outcomes)
    BY <1>1, <2>1 DEF StatusAt, SafeInv, EventsInv
  <2>3. [run[current] EXCEPT !.status = "completed", !.code = "none", !.answer = TRUE].status
          = "completed"
    BY <1>1 DEF TypeOK, RunRows
  <2>4. /\ \A q \in Runs \ {current} : run'[q] = run[q]
        /\ run'[current].status = "completed"
    BY <1>1, <2>1, <2>3 DEF TypeOK
  <2>5. /\ \A q \in Runs \ {current} : rows'[q] = rows[q]
        /\ rows'[current] = Append(rows[current], "completed")
    BY <1>1, <2>1, WriteFacts DEF Kinds, Outcomes
  <2>6. Only(current) /\ Answered(current)
    BY <2>2, <2>4, <2>5 DEF Only, Answered
  <2> QED BY <1>1, <2>6 DEF CurrentChange, Change
<1>7. CASE Rescue
  <2>1. /\ at["task"] \in {"onCancel", "onError"} /\ run' = run
        /\ rows' = [rows EXCEPT ![current] = rows[current] \o Batch(held)]
    BY <1>7 DEF Rescue, Step
  <2>2. CASE run[current].status = "running"
    <3>1. Only(current) /\ Talked(current)
      BY <1>1, <2>1, <2>2 DEF Only, Talked, TypeOK
    <3> QED BY <1>1, <3>1 DEF CurrentChange, Change
  <2>3. CASE run[current].status # "running"
    <3>1. held = 0
      BY <1>1, <2>1, <2>3 DEF SafeInv, BufferInv, StatusAt
    <3>2. rows[current] \o Batch(held) = rows[current]
      BY <1>1, <3>1, EmptyBatch DEF TypeOK
    <3>3. rows' = rows
      BY <2>1, <3>2 DEF TypeOK
    <3> QED BY <2>1, <3>3 DEF CurrentChange, tables
  <2> QED BY <2>2, <2>3
<1>8. CASE SettleCancel
  <2>1. CASE run[current].status = "running"
    <3>1. /\ Fail(current, code["task"]) /\ Write(current, code["task"])
          /\ at["task"] = "settleCancel"
      BY <1>8, <2>1 DEF SettleCancel, Step
    <3>2. code["task"] \in Announcements
      BY <3>1, AnnouncementsAreLegal DEF CodesInv
    <3> QED BY <1>1, <2>1, <3>1, <3>2, FailAndWrite DEF CurrentChange
  <2> QED BY <1>8, <2>1 DEF SettleCancel, CurrentChange
<1>9. CASE SettleError
  <2>1. /\ Fail(current, "error") /\ Write(current, "error") /\ at["task"] = "settleError"
    BY <1>9 DEF SettleError, Step
  <2>2. run[current].status = "running"
    BY <1>1, <2>1 DEF StatusAt
  <2> QED BY <1>1, <2>1, <2>2, FailAndWrite, AnnouncementsAreLegal DEF CurrentChange
<1>10. CASE AnnounceFault \/ FailFault
  BY <1>1, <1>10 DEF AnnounceFault, FailFault, Step, SafeInv, StatusInv
<1>11. CASE Begin \/ Produce \/ StartFlush \/ AgentFails \/ End
  BY <1>11 DEF Begin, Produce, StartFlush, AgentFails, End, CurrentChange
<1> QED
  BY <1>2, <1>3, <1>4, <1>5, <1>6, <1>7, <1>8, <1>9, <1>10, <1>11 DEF Task

LEMMA FinalizeChanges ==
  ASSUME TypeInv, PlacesInv, SafeInv, Finalize
  PROVE  CurrentChange
<1> USE DEF TypeInv
<1>1. PICK a \in Actors : FinalizeRead(a) \/ FinalizeEvent(a) \/ FinalizeMark(a)
  BY DEF Finalize
<1>2. /\ Place = at[a] /\ Mind = code[a] /\ current \in Runs
      /\ code[a] \in Announcements
  BY <1>1, AnnouncementsAreLegal
     DEF FinalizeRead, FinalizeEvent, FinalizeMark, Place, Mind, PlacesInv, CodesInv, Actors, InFinalize
<1>3. CASE FinalizeRead(a)
  BY <1>3 DEF FinalizeRead, CurrentChange
<1>4. CASE FinalizeEvent(a)
  <2>1. Write(current, code[a]) /\ run' = run /\ Place = "finEvent"
    BY <1>2, <1>4 DEF FinalizeEvent
  <2>2. run[current].status \in {"running", "deleted"}
    BY <2>1 DEF SafeInv, StatusInv, StatusAt
  <2> QED BY <1>2, <2>1, <2>2, WriteAnnounces DEF CurrentChange
<1>5. CASE FinalizeMark(a)
  <2>1. Fail(current, code[a]) /\ rows' = rows /\ Place = "finMark"
    BY <1>2, <1>5 DEF FinalizeMark
  <2>2. run[current].status \in {"running", "deleted"}
    BY <2>1 DEF SafeInv, StatusInv, StatusAt
  <2>3. CASE run[current].status = "running"
    <3>1. Says(current, code[a])
      BY <1>2, <2>1, <2>3 DEF SafeInv, EventsInv
    <3> QED BY <1>2, <2>1, <2>3, <3>1, FailAsSaid DEF CurrentChange
  <2>4. CASE run[current].status = "deleted"
    <3>1. run' = run
      BY <2>1, <2>4 DEF Fail, Finish, TypeOK
    <3> QED BY <2>1, <3>1 DEF CurrentChange, tables
  <2> QED BY <2>2, <2>3, <2>4
<1> QED BY <1>1, <1>3, <1>4, <1>5

LEMMA RecoveryChanges ==
  ASSUME TypeInv, PlacesInv, SafeInv, Recovery
  PROVE  OneChange \/ FinishRecovery
<1> USE DEF TypeInv
<1>1. CASE Restart
  BY <1>1 DEF Restart, OneChange
<1>2. ASSUME NEW r \in Runs, RecoverEvent(r) PROVE OneChange
  <2>1. run[r].status = "running"
    BY <1>2 DEF RecoverEvent, SafeInv, TodoInv
  <2>2. Write(r, "interrupted") /\ run' = run /\ "interrupted" \in Announcements
    BY <1>2, AnnouncementsAreLegal DEF RecoverEvent, Retryable
  <2> QED BY <2>1, <2>2, WriteAnnounces DEF OneChange
<1>3. CASE RecoverMark
  <2>1. half \in Runs /\ run[half].status = "running" /\ Says(half, "interrupted")
    BY <1>3 DEF RecoverMark, PlacesInv, SafeInv, TodoInv, EventsInv, TypeOK
  <2>2. Fail(half, "interrupted") /\ rows' = rows /\ "interrupted" \in Announcements
    BY <1>3, AnnouncementsAreLegal DEF RecoverMark, Retryable
  <2> QED BY <2>1, <2>2, FailAsSaid DEF OneChange
<1> QED BY <1>1, <1>2, <1>3 DEF Recovery

LEMMA StepChanges ==
  ASSUME TypeInv, PlacesInv, SafeInv, [Next]_vars
  PROVE  OneChange \/ FinishRecovery
<1>1. CASE Environment \/ Worker \/ UNCHANGED vars
  BY <1>1 DEF Environment, TaskFault, WorkerFault, Shutdown, GraceTimeout, Exit, Crash, Halted,
              Worker, Pick, Launch, Collect, vars, OneChange
<1> QED
  BY <1>1, RequestsChange, TaskChanges, FinalizeChanges, RecoveryChanges
     DEF Next, CurrentChange, OneChange

(***************************************************************************)
(* What every run has been told, from what a step may do to it.            *)
(***************************************************************************)
\* What QueueInv, ToldInv and OutcomesDoNotMix say of the events of one run.
Tale(r) ==
  /\ run[r].status \in {"absent", "queued"} => rows[r] = <<>>
  /\ Ended(r) /\ (run[r].status = "completed" => run[r].answer) => Silent(r) \/ Says(r, Told(r))
  /\ Has(r, Failures) => run[r].status \in {"running", "failed", "deleted"}
  /\ Has(r, {"completed"}) => run[r].status = "completed"

LEMMA TaleOf ==
  faults = 0 /\ QueueInv /\ ToldInv /\ OutcomesDoNotMix => \A r \in Runs : Tale(r)
BY DEF QueueInv, ToldInv, OutcomesDoNotMix, Tale

LEMMA SameKeepsTale ==
  ASSUME NEW r \in Runs, Tale(r), run'[r] = run[r], rows'[r] = rows[r], Serving' => Serving
  PROVE  Tale(r)'
BY DEF Tale, Ended, Silent, Says, Told, Has

LEMMA ChangeKeepsTale ==
  ASSUME TypeOK, NEW r \in Runs, Tale(r), Change(r)
  PROVE  Tale(r)'
<1> rows[r] \in Seq(Kinds)
  BY DEF TypeOK
<1>1. CASE Talked(r)
  <2>1. PICK n \in Nat : rows'[r] = rows[r] \o Batch(n)
    BY <1>1 DEF Talked
  <2>2. /\ Has(r, Failures)' <=> Has(r, Failures)
        /\ Has(r, {"completed"})' <=> Has(r, {"completed"})
    BY <2>1, BatchFacts DEF Outcomes
  <2> QED BY <1>1, <2>2 DEF Talked, Tale, Ended, Terminal
<1>2. CASE Submitted(r) \/ Begun(r)
  <2>1. rows[r] = <<>> /\ rows'[r] = <<>>
    BY <1>2 DEF Submitted, Begun, Tale
  <2>2. ~Has(r, Failures)' /\ ~Has(r, {"completed"})'
    BY <2>1 DEF Has
  <2> QED BY <1>2, <2>1, <2>2 DEF Submitted, Begun, Tale, Ended, Terminal
<1>3. CASE Announced(r)
  <2>1. PICK k \in Announcements : rows'[r] = Append(rows[r], k)
    BY <1>3 DEF Announced
  <2>2. k \in Kinds /\ k # "completed"
    BY AnnouncementsAreLegal
  <2>3. Has(r, {"completed"})' <=> Has(r, {"completed"})
    BY <2>1, <2>2, AppendFacts
  <2> QED BY <1>3, <2>3 DEF Announced, Tale, Ended, Terminal
<1>4. CASE FailedBy(r)
  <2>1. PICK c \in Announcements :
          /\ run'[r].code = c
          /\ rows'[r] = Append(rows[r], c) \/ (rows'[r] = rows[r] /\ Says(r, c))
    BY <1>4 DEF FailedBy
  <2>2. c \in Kinds /\ c # "completed" /\ c # "old"
    BY AnnouncementsAreLegal
  <2>3. Says(r, c)'
    BY <2>1, <2>2, AppendFacts DEF Says
  <2>4. ~Has(r, {"completed"})'
    <3>1. ~Has(r, {"completed"})
      BY <1>4 DEF FailedBy, Tale
    <3> QED BY <2>1, <2>2, <3>1, AppendFacts DEF Has
  <2>5. Told(r)' = c
    BY <1>4, <2>1, <2>2 DEF Told, FailedBy
  <2> QED BY <1>4, <2>3, <2>4, <2>5 DEF FailedBy, Tale
<1>5. CASE Answered(r)
  <2>1. rows'[r] = Append(rows[r], "completed") /\ "completed" \in Kinds
    BY <1>5 DEF Answered, Kinds, Outcomes
  <2>2. Says(r, "completed")'
    BY <2>1, AppendFacts
  <2>3. ~Has(r, Failures)'
    <3>1. ~Has(r, Failures) /\ "completed" \notin Failures
      BY <1>5 DEF Answered, Has, Outcomes, Failures, Retryable
    <3> QED BY <2>1, <3>1, AppendFacts
  <2>4. Told(r)' = "completed"
    BY <1>5 DEF Told, Answered
  <2> QED BY <1>5, <2>2, <2>3, <2>4 DEF Answered, Tale
<1>6. CASE Removed(r)
  <2>1. ~Has(r, Failures)' /\ ~Has(r, {"completed"})'
    BY <1>6 DEF Removed, Has
  <2> QED BY <1>6, <2>1 DEF Removed, Tale, Ended, Terminal
<1> QED BY <1>1, <1>2, <1>3, <1>4, <1>5, <1>6 DEF Change

\* The recovery scan makes up for the runs that ended in silence.
LEMMA RepairKeepsTale ==
  ASSUME TypeOK, NEW r \in Runs, Tale(r), FinishRecovery, run[r].status # "running"
  PROVE  Tale(r)'
<1> rows[r] \in Seq(Kinds)
  BY DEF TypeOK
<1>1. run'[r] = run[r] /\ rows'[r] = Repaired(r)
  BY DEF FinishRecovery, TypeOK
<1>2. Unannounced(r) <=> ~Has(r, Outcomes)
  BY DEF Unannounced, Has
<1>3. Says(r, Told(r)) /\ Ended(r) => rows'[r] = rows[r]
  <2> SUFFICES ASSUME Says(r, Told(r)), Ended(r) PROVE Has(r, Outcomes)
    BY <1>1, <1>2 DEF Repaired
  <2>1. Len(rows[r]) \in DOMAIN rows[r]
    BY DEF Says
  <2>2. Told(r) \in Kinds /\ Told(r) # "output"
    <3>1. rows[r][Len(rows[r])] = Told(r) /\ Told(r) \in Kinds
      BY <2>1 DEF Says
    <3> QED BY <3>1 DEF Told, TypeOK, RunRows, Codes, Retryable
  <2> QED BY <2>1, <2>2 DEF Says, Has, Kinds
<1>4. CASE Ended(r) /\ (run[r].status = "completed" => run[r].answer)
  <2>1. CASE Says(r, Told(r))
    BY <1>1, <1>3, <1>4, <2>1 DEF Tale, Ended, Says, Told, Has
  <2>2. CASE Silent(r)
    <3>1. ~Has(r, Outcomes) /\ ~Has(r, Failures) /\ ~Has(r, {"completed"})
      BY <2>2 DEF Silent, Has
    <3>2. rows'[r] = Append(rows[r], Told(r)) /\ Told(r) \in {"repaired", "completed"}
      BY <1>1, <1>2, <1>4, <2>2, <3>1 DEF Repaired, Ended, Terminal, Told, Silent
    <3>3. Told(r) \in Kinds /\ (Told(r) \in Failures <=> Told(r) = "repaired")
      BY <3>2 DEF Kinds, Outcomes, Failures, Retryable
    <3>4. /\ Says(r, Told(r))'
          /\ Has(r, Failures)' <=> Told(r) = "repaired"
          /\ Has(r, {"completed"})' <=> Told(r) = "completed"
      <4>1. Told(r)' = Told(r)
        BY <1>1 DEF Told
      <4>2. Says(r, Told(r))'
        BY <3>2, <3>3, <4>1, AppendFacts DEF Says
      <4> QED BY <3>1, <3>2, <3>3, <4>2, AppendFacts
    <3>5. /\ Told(r) = "repaired" => run[r].status = "failed"
          /\ Told(r) = "completed" => run[r].status = "completed"
      BY <1>4, <2>2 DEF Told, Ended, Terminal, Silent
    <3> QED BY <1>1, <1>4, <3>4, <3>5 DEF Tale, Ended, Terminal
  <2> QED BY <1>4, <2>1, <2>2 DEF Tale
<1>5. CASE ~(Ended(r) /\ (run[r].status = "completed" => run[r].answer))
  <2>1. rows'[r] = rows[r]
    BY <1>1, <1>5 DEF Repaired, Ended, Terminal
  <2> QED BY <1>1, <1>5, <2>1 DEF Tale, Ended, Has
<1> QED BY <1>4, <1>5

(***************************************************************************)
(* What the place of the dispatcher says about its current run.            *)
(***************************************************************************)
Located == StatusInv /\ EventsInv

LEMMA CancelKeepsLocated ==
  ASSUME TypeInv, PlacesInv, Located, NEW c \in Retryable, CancelTask(c),
         UNCHANGED tables, current' = current, todo' = todo, half' = half,
         phase' = "up" => run[current].status \notin {"absent", "queued"}
  PROVE  Located'
<1>1. /\ at["worker"] = "waiting" /\ at'["worker"] = "waiting" /\ current \in Runs
      /\ Place = at["task"] /\ Place' = at'["task"] /\ TaskAlive
      /\ at'["task"] = IF at["task"] \in InOrchestrator THEN "onCancel"
                       ELSE IF at["task"] \in InHandlers THEN "finRead"
                       ELSE "cancelled"
  BY CancelMoves DEF PlacesInv, Place, TypeInv
<1>2. run[current].status \in Statuses /\ run' = run /\ rows' = rows
  BY <1>1 DEF TypeInv, TypeOK, RunRows, tables
<1>3. run[current].status \in StatusAt(at["task"]) /\ at["task"] # "idle"
  <2>1. at["task"] # "idle"
    BY DEF TypeInv, TypeOK, TaskPlaces, InOrchestrator, InHandlers, InFinalize
  <2> QED BY <1>1, <2>1 DEF Located, StatusInv
<1>4. StatusInv'
  <2>1. CASE at["task"] \in InOrchestrator \cup InHandlers
    <3>1. run[current].status \in {"running", "completed", "failed", "deleted"}
      BY <1>3, <2>1 DEF StatusAt, InOrchestrator, InHandlers
    <3>2. at'["task"] \in {"onCancel", "finRead"}
      BY <1>1, <2>1
    <3> QED BY <1>1, <1>2, <3>1, <3>2 DEF StatusInv, StatusAt
  <2>2. CASE at["task"] \notin InOrchestrator \cup InHandlers
    <3>1. at'["task"] = "cancelled"
      BY <1>1, <2>2
    <3>2. phase' = "up" => run[current].status \in {"running", "completed", "failed", "deleted"}
      BY <1>2 DEF Statuses, Terminal
    <3> QED BY <1>1, <1>2, <3>1, <3>2 DEF StatusInv, StatusAt
  <2> QED BY <2>1, <2>2
<1>5. EventsInv'
  <2>1. half # NoRun => Says(half, "interrupted")
    BY DEF Located, EventsInv
  <2> QED BY <1>1, <1>2, <2>1 DEF EventsInv, Says
<1> QED BY <1>4, <1>5 DEF Located

LEMMA RequestsKeepLocated ==
  ASSUME TypeInv, PlacesInv, SafeInv, Requests
  PROVE  Located' /\ RunningInv'
<1>1. phase = "up" /\ phase' = "up" /\ current' = current /\ todo' = todo /\ half' = half
      /\ at'["worker"] = at["worker"]
  <2>1. ASSUME NEW r \in Runs, StopCurrent(r)
        PROVE  phase = "up" /\ phase' = "up" /\ current' = current /\ todo' = todo /\ half' = half
               /\ at'["worker"] = at["worker"]
    BY <2>1, CancelMoves DEF StopCurrent, recovery, TypeInv
  <2> QED
    BY <2>1 DEF Requests, SubmitMessage, RetryRun, Enqueue, DeleteRun, StopQueued, dispatcher, recovery
<1>2. todo = {} /\ half = NoRun
  BY <1>1 DEF PlacesInv
<1>3. RunningInv'
  <2> SUFFICES ASSUME NEW r \in Runs, run'[r].status = "running"
               PROVE  r = current /\ at["worker"] \in {"waiting"} \cup InFinalize
    BY <1>1 DEF RunningInv
  <2>1. run[r].status = "running"
    BY RequestsNudge
  <2> QED BY <1>1, <2>1 DEF SafeInv, RunningInv
<1>4. Located'
  <2>1. CASE \E r \in Runs : StopCurrent(r)
    <3>1. PICK r \in Runs : StopCurrent(r)
      BY <2>1
    <3>2. /\ UNCHANGED tables /\ CancelTask("stopped") /\ "stopped" \in Retryable
          /\ run[current].status \notin {"absent", "queued"}
      BY <3>1 DEF StopCurrent, Retryable, Existing
    <3> QED BY <1>1, <3>2, CancelKeepsLocated DEF SafeInv, Located
  <2>2. CASE ~\E r \in Runs : StopCurrent(r)
    <3>1. UNCHANGED <<at, code, held, flight>>
      BY <2>2 DEF Requests, SubmitMessage, RetryRun, Enqueue, DeleteRun, StopQueued, dispatcher, buffer
    <3>2. Place' = Place /\ Mind' = Mind
      BY <3>1 DEF Place, Mind
    <3>3. CASE Place \in {"idle", "dead"}
      BY <1>1, <1>2, <3>1, <3>2, <3>3 DEF SafeInv, Located, StatusInv, EventsInv
    <3>4. CASE Place \notin {"idle", "dead"}
      <4>1. current \in Runs
        BY <3>4 DEF Place, PlacesInv
      <4>2. \/ run'[current] = run[current] /\ rows'[current] = rows[current]
            \/ Ended(current) /\ run'[current].status = "deleted"
            \/ run[current].status = "queued" /\ run'[current].status = "failed"
            \/ run[current].status = "absent" /\ run'[current].status = "queued"
        BY <4>1, RequestsNudge
      <4>3. run[current].status = "running" => run'[current] = run[current] /\ rows'[current] = rows[current]
        BY <4>2 DEF Ended, Terminal
      <4>4. run'[current].status = "running" => run[current].status = "running"
        BY <4>2
      <4>5. StatusInv'
        <5>1. run[current].status \in StatusAt(Place) => run'[current].status \in StatusAt(Place)
          BY <4>2 DEF StatusAt, Ended, Terminal, Statuses
        <5>2. StatusAt(Place)' = StatusAt(Place)
          BY <1>1, <3>2 DEF StatusAt
        <5> QED BY <1>1, <3>2, <5>1, <5>2 DEF SafeInv, StatusInv
      <4>6. EventsInv'
        <5>1. Place \in {"claimed", "prepare", "work", "flushing", "onError", "settleError", "budgeted"}
                => run[current].status = "running"
          BY DEF SafeInv, StatusInv, StatusAt
        <5> QED
          BY <1>1, <1>2, <3>2, <4>3, <4>4, <5>1 DEF SafeInv, EventsInv, Has, Says
      <4> QED BY <4>5, <4>6 DEF Located
    <3> QED BY <3>3, <3>4
  <2> QED BY <2>1, <2>2
<1> QED BY <1>3, <1>4

LEMMA WorkerKeepsLocated ==
  ASSUME TypeInv, PlacesInv, SafeInv, Worker
  PROVE  Located' /\ RunningInv'
<1> USE DEF TypeInv
<1>1. /\ UNCHANGED <<run, rows, phase, todo, half>>
      /\ Serving /\ half = NoRun
  BY DEF Worker, Pick, Launch, Collect, tables, recovery, PlacesInv, Serving
<1>2. CASE Pick
  <2>1. at'["worker"] = "picked" /\ run[current'].status = "queued"
    BY <1>2, Moved DEF Pick, Oldest, TypeOK, Actors
  <2>2. \A r \in Runs : run[r].status # "running"
    BY <1>2 DEF Pick, SafeInv, RunningInv, InFinalize
  <2>3. Located'
    BY <1>1, <2>1 DEF Located, StatusInv, EventsInv, StatusAt, Place
  <2>4. RunningInv'
    BY <1>1, <2>2 DEF RunningInv
  <2> QED BY <2>3, <2>4
<1>3. CASE Launch
  <2>1. /\ at["worker"] = "picked" /\ at'["worker"] = "waiting" /\ at'["task"] = "claim"
        /\ current' = current
    BY <1>3 DEF Launch
  <2>2. Place = "picked" /\ Place' = "claim"
    BY <2>1 DEF Place
  <2>3. Located'
    BY <1>1, <2>1, <2>2 DEF SafeInv, Located, StatusInv, EventsInv, StatusAt
  <2>4. RunningInv'
    BY <1>1, <2>1 DEF SafeInv, RunningInv, InFinalize, Serving
  <2> QED BY <2>3, <2>4
<1>4. CASE Collect
  <2>1. at["worker"] = "waiting" /\ at["task"] \in {"finished", "cancelled"} /\ Place = at["task"]
    BY <1>4 DEF Collect, Place
  <2>2. run[current].status \in StatusAt(at["task"])
    BY <2>1 DEF SafeInv, StatusInv
  <2>3. CASE at["task"] = "cancelled" /\ phase = "up"
    <3>1. at'["worker"] = "finRead" /\ Place' = "finRead" /\ current' = current
      BY <1>4, <2>3 DEF Collect, Place
    <3>2. Located'
      BY <1>1, <2>2, <2>3, <3>1 DEF Located, StatusInv, EventsInv, StatusAt
    <3>3. RunningInv'
      BY <1>1, <3>1 DEF SafeInv, RunningInv, InFinalize, Serving
    <3> QED BY <3>2, <3>3
  <2>4. CASE ~(at["task"] = "cancelled" /\ phase = "up")
    <3>1. at'["worker"] = "idle" /\ Place' = "idle"
      BY <1>4, <2>4 DEF Collect, Place
    <3>2. Located'
      BY <1>1, <3>1 DEF Located, StatusInv, EventsInv
    <3>3. phase = "up" => run[current].status # "running"
      BY <2>1, <2>2, <2>4 DEF StatusAt
    <3>4. RunningInv'
      BY <1>1, <3>3 DEF SafeInv, RunningInv, Serving
    <3> QED BY <3>2, <3>4
  <2> QED BY <2>3, <2>4
<1> QED BY <1>2, <1>3, <1>4 DEF Worker

\* Where the dispatcher is while the task takes a step.
LEMMA TaskStands ==
  ASSUME TypeInv, PlacesInv, SafeInv, Task
  PROVE  /\ Place = at["task"] /\ Place' = at'["task"] /\ Mind' = Mind
         /\ at'["worker"] = "waiting" /\ current \in Runs
         /\ phase' = phase /\ Serving /\ current' = current
         /\ todo' = {} /\ half' = NoRun
         /\ run[current].status \in StatusAt(at["task"])
         /\ at["task"] \notin {"idle", "dead", "faultEvent", "faultMark"}
<1>1. /\ at["worker"] = "waiting" /\ at'["worker"] = "waiting"
      /\ current \in Runs /\ Serving
      /\ UNCHANGED <<phase, current, code, todo, half>>
  BY TaskAtWork
<1>2. Place = at["task"] /\ Place' = at'["task"] /\ Mind' = Mind
  BY <1>1 DEF Place, Mind
<1>3. todo = {} /\ half = NoRun
  BY <1>1 DEF PlacesInv, Serving
<1>4. at["task"] \notin {"idle", "dead"}
  BY DEF TypeInv, TypeOK, TaskPlaces, InOrchestrator, InHandlers, InFinalize
<1> QED BY <1>1, <1>2, <1>3, <1>4 DEF SafeInv, StatusInv

\* What is left to show of a step of the task.
LEMMA TaskLands ==
  ASSUME TypeInv, PlacesInv, SafeInv, Task,
         at'["task"] \notin {"dead", "faultEvent", "faultMark"},
         run'[current].status \in StatusAt(at'["task"]),
         at'["task"] \in {"claimed", "prepare", "work", "flushing", "onError", "settleError"}
           => ~Has(current, Outcomes)',
         at'["task"] = "budgeted" => Says(current, "toolarge")',
         at'["task"] # "finMark"
  PROVE  Located' /\ RunningInv'
<1>1. /\ Place' = at'["task"] /\ Mind' = Mind
      /\ at'["worker"] = "waiting" /\ current \in Runs
      /\ phase' = phase /\ Serving /\ current' = current
      /\ todo' = {} /\ half' = NoRun
  BY TaskStands
<1>2. Located'
  <2>1. StatusAt(at'["task"]) = StatusAt(Place)'
    BY <1>1 DEF StatusAt
  <2> QED BY <1>1, <2>1 DEF Located, StatusInv, EventsInv, Has, Says
<1>3. RunningInv'
  <2> SUFFICES ASSUME NEW r \in Runs, run'[r].status = "running", phase = "up"
               PROVE  r = current
    BY <1>1 DEF RunningInv, Serving
  <2>1. r # current => run'[r] = run[r]
    BY TaskChanges DEF CurrentChange, Only, tables
  <2> QED BY <2>1 DEF SafeInv, RunningInv
<1> QED BY <1>2, <1>3

LEMMA ClaimKeepsLocated ==
  ASSUME TypeInv, PlacesInv, SafeInv, Claim
  PROVE  Located' /\ RunningInv'
<1> USE DEF TypeInv
<1>1. Task
  BY DEF Task
<1>2. at["task"] = "claim"
  BY DEF Claim
<1>3. current \in Runs /\ run[current].status \in StatusAt("claim")
  BY <1>1, <1>2, TaskStands
<1>4. CASE run[current].status = "queued"
  <2>1. PICK row : /\ row = [run[current] EXCEPT !.status = "running",
                                                 !.attempts = run[current].attempts + 1]
                   /\ run' = [run EXCEPT ![current] = row]
    BY <1>4, Zenon DEF Claim
  <2>2. run'[current].status = "running"
    BY <1>3, <2>1 DEF TypeOK, RunRows
  <2>3. at'["task"] = "claimed"
    BY <1>4, Moved DEF Claim, TypeOK, Actors
  <2>4. rows'[current] = <<>>
    BY <1>3, <1>4 DEF Claim, SafeInv, QueueInv
  <2>5. ~Has(current, Outcomes)'
    <3>1. current' = current
      BY DEF Claim
    <3> QED BY <2>4, <3>1 DEF Has
  <2>6. run'[current].status \in StatusAt(at'["task"])
    BY <2>2, <2>3 DEF StatusAt
  <2> QED BY <1>1, <2>3, <2>5, <2>6, TaskLands
<1>5. CASE run[current].status # "queued"
  <2>1. at'["task"] = "finished" /\ run' = run
    BY <1>5, Moved DEF Claim, TypeOK, Actors
  <2>2. run'[current].status \in StatusAt(at'["task"])
    BY <1>3, <1>5, <2>1 DEF StatusAt
  <2> QED BY <1>1, <2>1, <2>2, TaskLands
<1> QED BY <1>4, <1>5

LEMMA AgentKeepsLocated ==
  ASSUME TypeInv, PlacesInv, SafeInv,
         Begin \/ AgentFails \/ Produce \/ StartFlush \/ FinishFlush
  PROVE  Located' /\ RunningInv'
<1> USE DEF TypeInv
<1>1. Task
  BY DEF Task
<1>2. PICK from \in {"claimed", "prepare", "work", "flushing"},
           to \in {"prepare", "work", "flushing", "onError"} : Step(from, to)
  BY DEF Begin, AgentFails, Produce, StartFlush, FinishFlush
<1>3. at["task"] = from /\ at'["task"] = to /\ Place = from /\ current \in Runs /\ current' = current
  BY <1>1, <1>2, StepMoves, TaskStands
<1>4. run[current].status = "running" /\ run' = run
  BY <1>1, <1>3, TaskStands
     DEF StatusAt, Begin, AgentFails, Produce, StartFlush, FinishFlush, tables
<1>5. run'[current].status \in StatusAt(to)
  BY <1>4 DEF StatusAt
<1>6. ~Has(current, Outcomes)
  BY <1>3 DEF SafeInv, EventsInv
<1>7. ~Has(current, Outcomes)'
  <2>1. CASE FinishFlush
    <3>1. rows'[current] = rows[current] \o Batch(flight) /\ flight \in Nat
      BY <1>3, <2>1 DEF FinishFlush, TypeOK
    <3>2. rows[current] \in Seq(Kinds)
      BY <1>3 DEF TypeOK
    <3>3. \A r \in Runs : r = current => (Has(r, Outcomes)' <=> Has(r, Outcomes))
      BY <3>1, <3>2, BatchFacts
    <3> QED BY <1>3, <1>6, <3>3 DEF Has
  <2>2. CASE ~FinishFlush
    BY <1>3, <1>6, <2>2 DEF Begin, AgentFails, Produce, StartFlush, tables, Has
  <2> QED BY <2>1, <2>2
<1> QED BY <1>1, <1>3, <1>5, <1>7, TaskLands

LEMMA EndKeepsLocated ==
  ASSUME TypeInv, PlacesInv, SafeInv, AnnounceTooLarge \/ FailTooLarge \/ Complete \/ End
  PROVE  Located' /\ RunningInv'
<1> USE DEF TypeInv
<1>1. Task
  BY DEF Task
<1>2. current \in Runs /\ current' = current /\ Place = at["task"]
      /\ run[current].status \in StatusAt(at["task"])
  BY <1>1, TaskStands
<1>3. CASE AnnounceTooLarge
  <2>1. at["task"] = "prepare" /\ at'["task"] = "budgeted"
    BY <1>3, StepMoves DEF AnnounceTooLarge
  <2>2. run' = run /\ Write(current, "toolarge") /\ "toolarge" \in Kinds
    BY <1>3 DEF AnnounceTooLarge, Kinds, Outcomes, Failures
  <2>3. rows'[current] = Append(rows[current], "toolarge") /\ rows[current] \in Seq(Kinds)
    BY <1>2, <2>2, WriteFacts DEF TypeOK
  <2>4. \A r \in Runs : r = current => Says(r, "toolarge")'
    BY <2>2, <2>3, AppendFacts
  <2>5. Says(current, "toolarge")'
    BY <1>2, <2>4 DEF Says
  <2>6. run'[current].status \in StatusAt(at'["task"])
    BY <1>2, <2>1, <2>2 DEF StatusAt
  <2> QED BY <1>1, <2>1, <2>5, <2>6, TaskLands
<1>4. CASE FailTooLarge
  <2>1. at["task"] = "budgeted" /\ at'["task"] = "ending"
    BY <1>4, StepMoves DEF FailTooLarge
  <2>2. run[current].status = "running"
    BY <1>2, <2>1 DEF StatusAt
  <2>3. run'[current].status = "failed"
    BY <1>2, <1>4, <2>2, FailFacts, AnnouncementsAreLegal DEF FailTooLarge
  <2>4. run'[current].status \in StatusAt(at'["task"])
    BY <2>1, <2>3 DEF StatusAt
  <2> QED BY <1>1, <2>1, <2>4, TaskLands
<1>5. CASE Complete
  <2>1. at'["task"] = "ending"
    BY <1>5, StepMoves DEF Complete
  <2>2. run' = [run EXCEPT ![current] = [run[current] EXCEPT !.status = "completed",
                                              !.code = "none", !.answer = TRUE]]
    BY <1>5 DEF Complete
  <2>3. [run[current] EXCEPT !.status = "completed", !.code = "none", !.answer = TRUE].status
          = "completed"
    BY <1>2 DEF TypeOK, RunRows
  <2>4. run'[current].status \in StatusAt(at'["task"])
    BY <1>2, <2>1, <2>2, <2>3 DEF StatusAt, TypeOK
  <2> QED BY <1>1, <2>1, <2>4, TaskLands
<1>6. CASE End
  <2>1. at["task"] \in {"ending", "settled"} /\ at'["task"] = "finished"
    BY <1>6, StepMoves DEF End
  <2>2. run' = run
    BY <1>6 DEF End, tables
  <2>3. run'[current].status \in StatusAt(at'["task"])
    BY <1>2, <2>1, <2>2 DEF StatusAt
  <2> QED BY <1>1, <2>1, <2>3, TaskLands
<1> QED BY <1>3, <1>4, <1>5, <1>6

LEMMA HandlersKeepLocated ==
  ASSUME TypeInv, PlacesInv, SafeInv,
         Rescue \/ SettleCancel \/ SettleError \/ AnnounceFault \/ FailFault
  PROVE  Located' /\ RunningInv'
<1> USE DEF TypeInv
<1>1. Task
  BY DEF Task
<1>2. current \in Runs /\ current' = current /\ Place = at["task"]
      /\ run[current].status \in StatusAt(at["task"])
      /\ at["task"] \notin {"faultEvent", "faultMark"}
  BY <1>1, TaskStands
<1>3. CASE Rescue
  <2>1. run' = run /\ rows'[current] = rows[current] \o Batch(held) /\ held \in Nat
    BY <1>2, <1>3 DEF Rescue, TypeOK
  <2>2. CASE Step("onCancel", "settleCancel")
    <3>1. at["task"] = "onCancel" /\ at'["task"] = "settleCancel"
      BY <2>2, StepMoves
    <3>2. run'[current].status \in StatusAt(at'["task"])
      BY <1>2, <2>1, <3>1 DEF StatusAt
    <3> QED BY <1>1, <3>1, <3>2, TaskLands
  <2>3. CASE Step("onError", "settleError")
    <3>1. at["task"] = "onError" /\ at'["task"] = "settleError"
      BY <2>3, StepMoves
    <3>2. run'[current].status \in StatusAt(at'["task"])
      BY <1>2, <2>1, <3>1 DEF StatusAt
    <3>3. ~Has(current, Outcomes)
      BY <1>2, <3>1 DEF SafeInv, EventsInv
    <3>4. rows[current] \in Seq(Kinds)
      BY <1>2 DEF TypeOK
    <3>5. \A r \in Runs : r = current => (Has(r, Outcomes)' <=> Has(r, Outcomes))
      BY <2>1, <3>4, BatchFacts
    <3>6. ~Has(current, Outcomes)'
      BY <1>2, <3>3, <3>5 DEF Has
    <3> QED BY <1>1, <3>1, <3>2, <3>6, TaskLands
  <2> QED BY <1>3, <2>2, <2>3 DEF Rescue
<1>4. CASE SettleCancel
  <2>1. at["task"] = "settleCancel" /\ at'["task"] = "finRead"
    BY <1>4, StepMoves DEF SettleCancel
  <2>2. run'[current].status \in {"running", "completed", "failed", "deleted"}
    <3>1. CASE run[current].status = "running"
      <4>1. code["task"] \in Codes
        BY <2>1, RetryableIsLegal DEF CodesInv
      <4> QED BY <1>2, <1>4, <3>1, <4>1, FailFacts DEF SettleCancel
    <3>2. CASE run[current].status # "running"
      BY <1>2, <1>4, <2>1, <3>2 DEF SettleCancel, StatusAt, tables
    <3> QED BY <3>1, <3>2
  <2>3. run'[current].status \in StatusAt(at'["task"])
    BY <2>1, <2>2 DEF StatusAt
  <2> QED BY <1>1, <2>1, <2>3, TaskLands
<1>5. CASE SettleError
  <2>1. at["task"] = "settleError" /\ at'["task"] = "settled"
    BY <1>5, StepMoves DEF SettleError
  <2>2. run[current].status = "running"
    BY <1>2, <2>1 DEF StatusAt
  <2>3. run'[current].status = "failed"
    BY <1>2, <1>5, <2>2, FailFacts, AnnouncementsAreLegal DEF SettleError
  <2>4. run'[current].status \in StatusAt(at'["task"])
    BY <2>1, <2>3 DEF StatusAt
  <2> QED BY <1>1, <2>1, <2>4, TaskLands
<1>6. ~AnnounceFault /\ ~FailFault
  BY <1>2, StepMoves DEF AnnounceFault, FailFault
<1> QED BY <1>3, <1>4, <1>5, <1>6

LEMMA TaskKeepsLocated ==
  ASSUME TypeInv, PlacesInv, SafeInv, Task
  PROVE  Located' /\ RunningInv'
BY ClaimKeepsLocated, AgentKeepsLocated, EndKeepsLocated, HandlersKeepLocated DEF Task

LEMMA FinalizeKeepsLocated ==
  ASSUME TypeInv, PlacesInv, SafeInv, Finalize
  PROVE  Located' /\ RunningInv'
<1> USE DEF TypeInv
<1>1. PICK a \in Actors : FinalizeRead(a) \/ FinalizeEvent(a) \/ FinalizeMark(a)
  BY DEF Finalize
<1>2. /\ Place = at[a] /\ Mind = code[a] /\ current \in Runs
      /\ code[a] \in Announcements /\ Serving
      /\ at["worker"] = IF a = "task" THEN "waiting" ELSE at[a]
      /\ at[a] \in InFinalize
  BY <1>1, AnnouncementsAreLegal
     DEF FinalizeRead, FinalizeEvent, FinalizeMark, Place, Mind, PlacesInv, CodesInv, Actors, InFinalize
<1>3. /\ UNCHANGED <<phase, code, todo, half>>
      /\ \/ at'[a] \in {"finEvent", "finMark"} /\ current' = current
         \/ a = "task" /\ at'[a] = "cancelled" /\ current' = current
         \/ a = "worker" /\ at'[a] = "idle" /\ current' = NoRun
      /\ \A b \in Actors \ {a} : at'[b] = at[b]
  BY <1>1, FinalizeMoves
<1>4. todo = {} /\ half = NoRun /\ todo' = {} /\ half' = NoRun
  BY <1>2, <1>3 DEF PlacesInv, Serving
<1>5. Place' = at'[a] /\ Mind' = (IF Place' = "idle" THEN Mind' ELSE code[a])
  BY <1>2, <1>3 DEF Place, Mind, Actors
<1>6. at'[a] # "idle" => at'["worker"] \in {"waiting"} \cup InFinalize
  BY <1>2, <1>3 DEF Actors, InFinalize
<1>7. CASE FinalizeRead(a)
  <2>1. /\ run' = run /\ rows' = rows /\ at[a] = "finRead"
        /\ run[current].status \in StatusAt("finRead")
    BY <1>2, <1>7 DEF FinalizeRead, tables, SafeInv, StatusInv
  <2>2. CASE Ended(current)
    <3>1. \/ a = "task" /\ at'[a] = "cancelled" /\ current' = current
          \/ a = "worker" /\ at'[a] = "idle"
      BY <1>3, <1>7, <2>2, Moved DEF FinalizeRead, Finalized, TypeOK, Actors
    <3>2. StatusInv' /\ EventsInv'
      BY <1>4, <1>5, <2>1, <2>2, <3>1 DEF StatusInv, EventsInv, StatusAt, Ended, Terminal, Statuses
    <3>3. RunningInv'
      BY <1>2, <1>3, <2>1, <2>2, <3>1 DEF SafeInv, RunningInv, Serving, Ended, Terminal, Actors
    <3> QED BY <3>2, <3>3 DEF Located
  <2>3. CASE ~Ended(current)
    <3>1. at'[a] = "finEvent" /\ current' = current
      BY <1>3, <1>7, <2>3, Moved DEF FinalizeRead, TypeOK
    <3>2. run[current].status \in {"running", "deleted"}
      BY <2>1, <2>3 DEF StatusAt, Ended, Terminal
    <3>3. StatusInv' /\ EventsInv'
      BY <1>4, <1>5, <2>1, <3>1, <3>2 DEF StatusInv, EventsInv, StatusAt
    <3>4. RunningInv'
      BY <1>2, <1>3, <1>6, <2>1, <3>1 DEF SafeInv, RunningInv, Serving
    <3> QED BY <3>3, <3>4 DEF Located
  <2> QED BY <2>2, <2>3
<1>8. CASE FinalizeEvent(a)
  <2>1. /\ run' = run /\ Write(current, code[a]) /\ at[a] = "finEvent"
        /\ run[current].status \in StatusAt("finEvent")
        /\ at'[a] = "finMark" /\ current' = current
    BY <1>2, <1>8, Moved DEF FinalizeEvent, SafeInv, StatusInv, TypeOK
  <2>2. rows'[current] = Append(rows[current], code[a]) /\ rows[current] \in Seq(Kinds)
        /\ code[a] \in Kinds
    BY <1>2, <2>1, WriteFacts, AnnouncementsAreLegal DEF TypeOK
  <2>3. \A r \in Runs : r = current => Says(r, code[a])'
    BY <1>3, <2>2, AppendFacts DEF Says
  <2>4. Says(current, Mind)'
    BY <1>2, <1>3, <1>5, <2>1, <2>3 DEF Says
  <2>5. StatusInv' /\ EventsInv'
    BY <1>4, <1>5, <2>1, <2>4 DEF StatusInv, EventsInv, StatusAt
  <2>6. RunningInv'
    BY <1>2, <1>3, <1>6, <2>1 DEF SafeInv, RunningInv, Serving
  <2> QED BY <2>5, <2>6 DEF Located
<1>9. CASE FinalizeMark(a)
  <2>1. /\ rows' = rows /\ Fail(current, code[a]) /\ at[a] = "finMark"
        /\ run[current].status \in StatusAt("finMark") /\ code[a] \in Codes
    BY <1>2, <1>9, AnnouncementsAreLegal DEF FinalizeMark, SafeInv, StatusInv
  <2>2. /\ run'[current].status \in {"failed", "deleted"}
        /\ \A q \in Runs \ {current} : run'[q] = run[q]
    BY <1>2, <2>1, FailFacts
  <2>3. \/ a = "task" /\ at'[a] = "cancelled" /\ current' = current
        \/ a = "worker" /\ at'[a] = "idle"
    BY <1>3, <1>9, Moved DEF FinalizeMark, Finalized, TypeOK, Actors
  <2>4. StatusInv' /\ EventsInv'
    BY <1>4, <1>5, <2>2, <2>3 DEF StatusInv, EventsInv, StatusAt, Statuses, Terminal
  <2>5. RunningInv'
    BY <1>2, <1>3, <2>2 DEF SafeInv, RunningInv, Serving
  <2> QED BY <2>4, <2>5 DEF Located
<1> QED BY <1>1, <1>7, <1>8, <1>9

LEMMA RecoveryKeepsLocated ==
  ASSUME TypeInv, PlacesInv, SafeInv, Recovery
  PROVE  Located' /\ RunningInv'
<1> USE DEF TypeInv
<1>1. /\ phase \in {"down", "recovering"} /\ at["worker"] = "idle"
      /\ UNCHANGED <<current, at, code>>
  BY NoRunIsNoRun DEF Recovery, Restart, RecoverEvent, RecoverMark, FinishRecovery, PlacesInv, Serving,
                      dispatcher
<1>2. Place = "idle" /\ Place' = "idle"
  BY <1>1 DEF Place
<1>3. StatusInv'
  BY <1>2 DEF StatusInv
<1>4. (half' # NoRun => Says(half, "interrupted")') => EventsInv'
  BY <1>2 DEF EventsInv
<1>5. CASE Restart
  <2>1. /\ phase' = "recovering" /\ run' = run /\ half' = NoRun
        /\ todo' = {r \in Runs : run[r].status = "running"}
    BY <1>5 DEF Restart, tables, PlacesInv
  <2> QED BY <1>3, <1>4, <2>1 DEF Located, RunningInv
<1>6. ASSUME NEW r \in Runs, RecoverEvent(r)
      PROVE  Located' /\ RunningInv'
  <2>1. /\ Write(r, "interrupted") /\ half' = r
        /\ UNCHANGED <<run, phase, todo>>
    BY <1>6 DEF RecoverEvent, dispatcher
  <2>2. "interrupted" \in Kinds
    BY RetryableIsLegal DEF Retryable
  <2>3. rows'[r] = Append(rows[r], "interrupted") /\ rows[r] \in Seq(Kinds)
    BY <2>1, <2>2, WriteFacts DEF TypeOK
  <2>4. Says(r, "interrupted")'
    BY <2>2, <2>3, AppendFacts
  <2>5. Says(half, "interrupted")'
    BY <2>1, <2>4 DEF Says
  <2>6. RunningInv'
    BY <1>1, <2>1 DEF SafeInv, RunningInv
  <2> QED BY <1>3, <1>4, <2>5, <2>6 DEF Located
<1>7. CASE RecoverMark
  <2>1. /\ half \in Runs /\ half \in todo /\ half' = NoRun /\ todo' = todo \ {half}
        /\ Fail(half, "interrupted") /\ phase' = phase
    BY <1>7 DEF RecoverMark, PlacesInv, TypeOK, dispatcher
  <2>2. /\ run'[half].status \in {"failed", "deleted"}
        /\ \A q \in Runs \ {half} : run'[q] = run[q]
    <3>1. "interrupted" \in Codes
      BY RetryableIsLegal DEF Retryable
    <3> QED BY <2>1, <3>1, FailFacts
  <2>3. RunningInv'
    BY <1>1, <2>1, <2>2 DEF SafeInv, RunningInv
  <2> QED BY <1>3, <1>4, <2>1, <2>3 DEF Located
<1>8. CASE FinishRecovery
  <2>1. /\ phase = "recovering" /\ todo = {} /\ run' = run /\ todo' = {} /\ half' = half
    BY <1>8 DEF FinishRecovery, recovery
  <2>2. half = NoRun
    BY <2>1 DEF PlacesInv
  <2>3. RunningInv'
    BY <2>1 DEF SafeInv, RunningInv
  <2> QED BY <1>3, <1>4, <2>1, <2>2, <2>3 DEF Located
<1> QED BY <1>5, <1>6, <1>7, <1>8 DEF Recovery

LEMMA EnvironmentKeepsLocated ==
  ASSUME TypeInv, PlacesInv, SafeInv, Environment, faults' = 0
  PROVE  Located' /\ RunningInv'
<1> USE DEF TypeInv
<1>1. ~TaskFault /\ ~WorkerFault
  BY DEF TaskFault, WorkerFault, TypeOK
<1>2. CASE Shutdown
  <2>1. /\ phase = "up" /\ phase' = "stopping"
        /\ UNCHANGED <<run, rows, current, at, code, half>>
    BY <1>2 DEF Shutdown, tables, recovery
  <2>2. Place' = Place /\ Mind' = Mind
    BY <2>1 DEF Place, Mind
  <2>3. StatusInv'
    <3>1. CASE Place = "idle"
      BY <2>2, <3>1 DEF StatusInv
    <3>2. CASE Place # "idle"
      <4>1. current \in Runs \/ Place = "dead"
        BY <3>2 DEF Place, PlacesInv
      <4>2. current \in Runs /\ run[current].status \in Statuses
        BY <4>1 DEF SafeInv, StatusInv, TypeOK, RunRows
      <4>3. run[current].status \in StatusAt(Place)
        BY <3>2 DEF SafeInv, StatusInv
      <4>4. run[current].status \in StatusAt(Place)'
        <5>1. CASE Place = "cancelled"
          BY <2>1, <2>2, <4>2, <5>1 DEF StatusAt
        <5>2. CASE Place # "cancelled"
          <6>1. StatusAt(Place)' = StatusAt(Place)
            BY <2>2, <5>2 DEF StatusAt
          <6> QED BY <4>3, <6>1
        <5> QED BY <5>1, <5>2
      <4> QED BY <2>1, <2>2, <4>4 DEF SafeInv, StatusInv
    <3> QED BY <3>1, <3>2
  <2>4. EventsInv'
    BY <2>1, <2>2 DEF SafeInv, EventsInv, Has, Says
  <2>5. RunningInv'
    BY <2>1 DEF RunningInv
  <2> QED BY <2>3, <2>4, <2>5 DEF Located
<1>3. CASE GraceTimeout
  <2>1. /\ phase' = "cancelling" /\ CancelTask("interrupted") /\ "interrupted" \in Retryable
        /\ UNCHANGED tables /\ UNCHANGED <<current, todo, half>> /\ run' = run
    BY <1>3 DEF GraceTimeout, Retryable, recovery, tables
  <2>2. Located'
    BY <2>1, CancelKeepsLocated DEF SafeInv, Located
  <2>3. RunningInv'
    BY <2>1 DEF RunningInv
  <2> QED BY <2>2, <2>3
<1>4. CASE Exit \/ Crash
  <2>1. Halted
    BY <1>4 DEF Exit, Crash
  <2>2. Place' = "idle"
    BY <2>1 DEF Halted, Place
  <2>3. Located'
    BY <2>1, <2>2 DEF Halted, Located, StatusInv, EventsInv
  <2>4. RunningInv'
    BY <2>1 DEF Halted, RunningInv
  <2> QED BY <2>3, <2>4
<1> QED BY <1>1, <1>2, <1>3, <1>4 DEF Environment

LEMMA StepKeepsLocated ==
  ASSUME TypeInv, PlacesInv, SafeInv, [Next]_vars, faults' = 0
  PROVE  Located' /\ RunningInv'
<1>1. CASE UNCHANGED vars
  <2>1. UNCHANGED <<run, rows, phase, current, at, code, todo, half>>
    BY <1>1 DEF vars, tables, dispatcher, recovery
  <2>2. Place' = Place /\ Mind' = Mind /\ StatusAt(Place)' = StatusAt(Place)
    BY <2>1 DEF Place, Mind, StatusAt
  <2>3. Located'
    BY <2>1, <2>2 DEF SafeInv, Located, StatusInv, EventsInv, Has, Says
  <2> QED BY <2>1, <2>3 DEF SafeInv, RunningInv
<1> QED
  BY <1>1, RequestsKeepLocated, WorkerKeepsLocated, TaskKeepsLocated, FinalizeKeepsLocated,
     RecoveryKeepsLocated, EnvironmentKeepsLocated DEF Next

(***************************************************************************)
(* A step remembers failures, and keeps what the events of a run say.      *)
(***************************************************************************)
\* A failed database call is never forgotten, and only the end of the recovery
\* scan begins the service.
LEMMA StepRemembers ==
  ASSUME TypeInv, PlacesInv, [Next]_vars
  PROVE  /\ faults' = 0 => faults = 0
         /\ Serving' => Serving \/ FinishRecovery
<1>1. CASE Requests
  BY <1>1 DEF Requests, SubmitMessage, RetryRun, Enqueue, DeleteRun, StopQueued, StopCurrent,
              dispatcher, counts, Serving
<1>2. CASE Worker
  BY <1>2 DEF Worker, Pick, Launch, Collect, counts, Serving
<1>3. CASE Task
  BY <1>3, TaskAtWork DEF Serving
<1>4. CASE Finalize
  BY <1>4, FinalizeMoves DEF Finalize, Serving, TypeInv
<1>5. CASE Recovery
  BY <1>5 DEF Recovery, Restart, RecoverEvent, RecoverMark, FinishRecovery, dispatcher, counts, Serving
<1>6. CASE Environment
  BY <1>6 DEF Environment, TaskFault, WorkerFault, Shutdown, GraceTimeout, Exit, Crash, Halted,
              counts, Serving, TypeInv, TypeOK
<1>7. CASE UNCHANGED vars
  BY <1>7 DEF vars, dispatcher, counts, Serving
<1> QED BY <1>1, <1>2, <1>3, <1>4, <1>5, <1>6, <1>7 DEF Next

LEMMA StepKeepsTales ==
  ASSUME TypeInv, PlacesInv, SafeInv, faults = 0, [Next]_vars
  PROVE  ToldInv' /\ (faults' = 0 => OutcomesDoNotMix')
<1> USE DEF TypeInv
<1> SUFFICES ASSUME NEW r \in Runs PROVE Tale(r)'
  BY DEF ToldInv, OutcomesDoNotMix, Tale
<1>1. Tale(r)
  BY TaleOf DEF SafeInv
<1>2. CASE FinishRecovery
  <2>1. run[r].status # "running"
    BY <1>2 DEF FinishRecovery, SafeInv, RunningInv
  <2> QED BY <1>1, <1>2, <2>1, RepairKeepsTale
<1>3. CASE ~FinishRecovery
  <2>1. OneChange /\ (Serving' => Serving)
    BY <1>3, StepChanges, StepRemembers
  <2>2. CASE run'[r] = run[r] /\ rows'[r] = rows[r]
    BY <1>1, <2>1, <2>2, SameKeepsTale
  <2>3. CASE ~(run'[r] = run[r] /\ rows'[r] = rows[r])
    <3>1. Change(r)
      BY <2>1, <2>3 DEF OneChange, Only, tables
    <3> QED BY <1>1, <3>1, ChangeKeepsTale
  <2> QED BY <2>2, <2>3
<1> QED BY <1>2, <1>3

(***************************************************************************)
(* What the agent produces gets into run_events.                           *)
(***************************************************************************)
LEMMA OutputsAreAll ==
  ASSUME NEW r \in Runs, rows[r] \in Seq(Kinds), AllOutput(r)
  PROVE  Outputs(r) = 1 .. Len(rows[r])
BY DEF Outputs, AllOutput

LEMMA AppendKeepsOutputs ==
  ASSUME NEW r \in Runs, rows[r] \in Seq(Kinds), NEW k \in Kinds, k # "output",
         rows'[r] = Append(rows[r], k)
  PROVE  Outputs(r)' = Outputs(r)
<1>1. /\ Len(rows[r]) \in Nat
      /\ DOMAIN rows'[r] = 1 .. Len(rows[r]) + 1 /\ DOMAIN rows[r] = 1 .. Len(rows[r])
      /\ rows'[r][Len(rows[r]) + 1] = k
      /\ \A i \in 1 .. Len(rows[r]) : rows'[r][i] = rows[r][i]
  OBVIOUS
<1>2. \A i \in 1 .. Len(rows[r]) + 1 : i \in 1 .. Len(rows[r]) \/ i = Len(rows[r]) + 1
  BY <1>1
<1>3. 1 .. Len(rows[r]) \subseteq 1 .. Len(rows[r]) + 1
  BY <1>1
<1> QED BY <1>1, <1>2, <1>3 DEF Outputs

LEMMA BatchIsOutput ==
  ASSUME NEW r \in Runs, rows[r] \in Seq(Kinds), NEW n \in Nat,
         rows'[r] = rows[r] \o Batch(n), AllOutput(r)
  PROVE  AllOutput(r)' /\ Len(rows'[r]) = Len(rows[r]) + n
<1>1. Batch(n) \in Seq({"output"}) /\ Len(Batch(n)) = n
  BY DEF Batch
<1>2. /\ Len(rows[r]) \in Nat
      /\ Len(rows'[r]) = Len(rows[r]) + n
      /\ DOMAIN rows'[r] = 1 .. Len(rows[r]) + n /\ DOMAIN rows[r] = 1 .. Len(rows[r])
      /\ \A i \in 1 .. Len(rows[r]) : rows'[r][i] = rows[r][i]
      /\ \A i \in Len(rows[r]) + 1 .. Len(rows[r]) + n : rows'[r][i] = "output"
  BY <1>1 DEF Batch
<1>3. \A i \in 1 .. Len(rows[r]) + n :
        i \in 1 .. Len(rows[r]) \/ i \in Len(rows[r]) + 1 .. Len(rows[r]) + n
  BY <1>2
<1> QED BY <1>2, <1>3 DEF AllOutput

\* What a step may do to the events of a run that is queued or completed.
Untouched(r) == rows'[r] = rows[r] /\ made'[r] = made[r]

Harmless(r) ==
  \/ run'[r].status \in {"running", "failed", "deleted"}
  \/ Untouched(r) /\ run'[r] = run[r]
  \/ Untouched(r) /\ run[r].status = "absent" /\ run'[r].status = "queued"
  \/ /\ run[r].status \in Past /\ run'[r] = run[r] /\ made'[r] = made[r]
     /\ \E k \in Kinds \ {"output"} : rows'[r] = Append(rows[r], k)

Fresh(r) == run[r].status \in {"absent", "queued"} => rows[r] = <<>> /\ made[r] = 0

Whole(r) ==
  run[r].status = "completed" /\ run[r].attempts = 1 /\ run[r].born > 0 => Outputs(r) = 1 .. made[r]

LEMMA HarmlessKeepsWhole ==
  ASSUME TypeOK, NEW r \in Runs, Fresh(r), Whole(r), Harmless(r)
  PROVE  Fresh(r)' /\ Whole(r)'
<1>1. CASE run'[r].status \in {"running", "failed", "deleted"}
  BY <1>1 DEF Fresh, Whole
<1>2. CASE Untouched(r) /\ run'[r] = run[r]
  BY <1>2 DEF Fresh, Whole, Untouched, Outputs
<1>3. CASE Untouched(r) /\ run[r].status = "absent" /\ run'[r].status = "queued"
  BY <1>3 DEF Fresh, Whole, Untouched
<1>4. CASE /\ run[r].status \in Past /\ run'[r] = run[r] /\ made'[r] = made[r]
           /\ \E k \in Kinds \ {"output"} : rows'[r] = Append(rows[r], k)
  <2>1. Outputs(r)' = Outputs(r)
    BY <1>4, AppendKeepsOutputs DEF TypeOK
  <2> QED BY <1>4, <2>1 DEF Fresh, Whole, Past, Terminal
<1> QED BY <1>1, <1>2, <1>3, <1>4 DEF Harmless

LEMMA FailIsHarmless ==
  ASSUME TypeOK, NEW r \in Runs, NEW x \in Runs, NEW c \in Codes, Fail(x, c),
         run[x].status \in Past \cup {"queued"},
         made' = made, \A q \in Runs \ {x} : rows'[q] = rows[q]
  PROVE  Harmless(r)
<1>1. CASE r = x
  <2>1. run'[r].status \in {"failed", "deleted"}
    BY <1>1, FailFacts
  <2> QED BY <2>1 DEF Harmless
<1>2. CASE r # x
  BY <1>2, FailFacts DEF Harmless, Untouched
<1> QED BY <1>1, <1>2

LEMMA TaskIsHarmless ==
  ASSUME DispatcherInv, BufferInv, Task, ~Complete, NEW r \in Runs
  PROVE  Harmless(r)
<1> USE DEF DispatcherInv, TypeInv
<1>1. current \in Runs
  BY TaskAtWork
<1>2. CASE UNCHANGED tables /\ (r # current => made'[r] = made[r])
           /\ (made'[r] = made[r] \/ run[current].status = "running")
  BY <1>2 DEF Harmless, Untouched, tables
<1>3. CASE Claim
  <2>1. PICK row : \/ run' = run
                   \/ run' = [run EXCEPT ![current] = row] /\ row.status = "running"
    <3>1. CASE run[current].status = "queued"
      <4>1. PICK row : /\ row = [run[current] EXCEPT !.status = "running",
                                                     !.attempts = run[current].attempts + 1]
                       /\ run' = [run EXCEPT ![current] = row]
        BY <1>3, <3>1, Zenon DEF Claim
      <4>2. row.status = "running"
        BY <1>1, <4>1 DEF TypeOK, RunRows
      <4> QED BY <4>1, <4>2
    <3>2. CASE run[current].status # "queued"
      <4>1. run' = run
        BY <1>3, <3>2 DEF Claim
      <4> QED BY <4>1
    <3> QED BY <3>1, <3>2
  <2>2. UNCHANGED <<rows, made>>
    BY <1>3 DEF Claim, buffer
  <2>3. Untouched(r)
    BY <2>2 DEF Untouched
  <2>4. CASE run' = run
    BY <2>3, <2>4 DEF Harmless
  <2>5. CASE run' = [run EXCEPT ![current] = row] /\ row.status = "running"
    <3>1. run'[r] = IF r = current THEN row ELSE run[r]
      BY <2>5 DEF TypeOK
    <3> QED BY <2>3, <2>5, <3>1 DEF Harmless
  <2> QED BY <2>1, <2>4, <2>5
<1>4. CASE Begin \/ AgentFails \/ StartFlush \/ End
  BY <1>2, <1>4 DEF Begin, AgentFails, StartFlush, End, buffer
<1>5. CASE AnnounceTooLarge \/ Produce \/ FinishFlush
  <2>1. at["task"] \in Working
    BY <1>5 DEF AnnounceTooLarge, Produce, FinishFlush, Step, Working
  <2>2. run[current].status = "running" /\ run' = run
    BY <1>5, <2>1 DEF HandsInv, AnnounceTooLarge, Produce, FinishFlush, tables
  <2>3. r # current => rows'[r] = rows[r] /\ made'[r] = made[r]
    BY <1>5 DEF AnnounceTooLarge, Produce, FinishFlush, Write, tables, buffer, TypeOK
  <2> QED BY <2>2, <2>3 DEF Harmless, Untouched
<1>6. CASE Rescue
  <2>1. /\ at["task"] \in {"onCancel", "onError"} /\ run' = run /\ made' = made
        /\ rows' = [rows EXCEPT ![current] = rows[current] \o Batch(held)]
    BY <1>6 DEF Rescue, Step
  <2>2. CASE run[current].status = "running"
    BY <2>1, <2>2 DEF Harmless, Untouched, TypeOK
  <2>3. CASE run[current].status # "running"
    <3>1. held = 0
      BY <2>1, <2>3 DEF BufferInv, HandsInv, Working
    <3>2. rows[current] \o Batch(held) = rows[current]
      BY <1>1, <3>1, EmptyBatch DEF TypeOK
    <3>3. rows' = rows
      BY <2>1, <3>2 DEF TypeOK
    <3> QED BY <2>1, <3>3 DEF Harmless, Untouched
  <2> QED BY <2>2, <2>3
<1>7. CASE FailTooLarge \/ SettleCancel \/ SettleError \/ FailFault
  <2>1. CASE UNCHANGED tables
    BY <1>2, <1>7, <2>1 DEF FailTooLarge, SettleCancel, SettleError, FailFault, buffer
  <2>2. CASE ~UNCHANGED tables
    <3>1. PICK c \in Codes : Fail(current, c)
      <4>1. SettleCancel => code["task"] \in Codes
        BY RetryableIsLegal DEF SettleCancel, Step, CodesInv
      <4> QED
        BY <1>7, <2>2, <4>1 DEF FailTooLarge, SettleCancel, SettleError, FailFault, Codes
    <3>2. run[current].status \in Past
      BY <1>7 DEF FailTooLarge, SettleCancel, SettleError, FailFault, Step, HandsInv
    <3>3. made' = made /\ \A q \in Runs \ {current} : rows'[q] = rows[q]
      BY <1>7 DEF FailTooLarge, SettleCancel, SettleError, FailFault, Write, tables, buffer, TypeOK
    <3> QED BY <1>1, <3>1, <3>2, <3>3, FailIsHarmless
  <2> QED BY <2>1, <2>2
<1>8. CASE AnnounceFault
  <2>1. Write(current, "error") /\ run' = run /\ made' = made /\ run[current].status \in Past
    BY <1>8 DEF AnnounceFault, Step, HandsInv, buffer
  <2>2. "error" \in Kinds
    BY DEF Kinds, Outcomes, Failures
  <2>3. /\ rows'[current] = Append(rows[current], "error")
        /\ \A q \in Runs \ {current} : rows'[q] = rows[q]
    BY <1>1, <2>1, <2>2, WriteFacts
  <2> QED BY <2>1, <2>2, <2>3 DEF Harmless, Untouched
<1> QED BY <1>3, <1>4, <1>5, <1>6, <1>7, <1>8 DEF Task

LEMMA RestIsHarmless ==
  ASSUME DispatcherInv, Requests \/ Worker \/ Finalize \/ Recovery \/ Environment \/ UNCHANGED vars,
         NEW r \in Runs
  PROVE  Harmless(r)
<1> USE DEF DispatcherInv, TypeInv
<1>1. CASE UNCHANGED <<tables, made>>
  BY <1>1 DEF tables, Harmless, Untouched
<1>2. CASE Requests
  <2>1. made' = made
    BY <1>2 DEF Requests, SubmitMessage, RetryRun, Enqueue, DeleteRun, StopQueued, StopCurrent, buffer
  <2> QED BY <1>2, <2>1, RequestsNudge DEF Harmless, Untouched
<1>3. CASE Worker \/ Environment \/ UNCHANGED vars
  BY <1>1, <1>3 DEF Worker, Pick, Launch, Collect, Environment, TaskFault, WorkerFault, Shutdown,
                    GraceTimeout, Exit, Crash, Halted, buffer, vars
<1>4. CASE Finalize
  <2>1. PICK a \in Actors : FinalizeRead(a) \/ FinalizeEvent(a) \/ FinalizeMark(a)
    BY <1>4 DEF Finalize
  <2>2. made' = made /\ at[a] \in InFinalize /\ current \in Runs
    BY <2>1, FinalizeMoves DEF PlacesInv, Actors, InFinalize
  <2>3. CASE FinalizeRead(a)
    BY <1>1, <2>2, <2>3 DEF FinalizeRead
  <2>4. CASE FinalizeEvent(a) \/ FinalizeMark(a)
    <3>1. at["worker"] \in {"finEvent", "finMark"} \/ at["task"] \in {"finEvent", "finMark"}
      BY <2>4 DEF FinalizeEvent, FinalizeMark, Actors
    <3>2. run[current].status \in {"running", "deleted"}
      BY <3>1 DEF HandsInv
    <3>3. code[a] \in Codes \cap Kinds
      BY <2>2, RetryableIsLegal DEF CodesInv, Actors, InFinalize
    <3>4. CASE FinalizeEvent(a)
      BY <2>2, <3>2, <3>3, <3>4, WriteFacts DEF FinalizeEvent, Harmless, Untouched
    <3>5. CASE FinalizeMark(a)
      BY <2>2, <3>2, <3>3, <3>5, FailIsHarmless DEF FinalizeMark, Past
    <3> QED BY <2>4, <3>4, <3>5
  <2> QED BY <2>1, <2>3, <2>4
<1>5. CASE Recovery
  <2>1. made' = made
    BY <1>5 DEF Recovery, Restart, RecoverEvent, RecoverMark, FinishRecovery, buffer
  <2>2. ASSUME NEW x \in Runs, RecoverEvent(x) PROVE Harmless(r)
    <3>1. run[x].status = "running" /\ Write(x, "interrupted") /\ run' = run
      BY <2>2 DEF RecoverEvent, TodoInv
    <3>2. "interrupted" \in Kinds
      BY RetryableIsLegal DEF Retryable
    <3> QED BY <2>1, <3>1, <3>2, WriteFacts DEF Harmless, Untouched
  <2>3. CASE RecoverMark
    <3>1. half \in Runs /\ run[half].status = "running" /\ Fail(half, "interrupted") /\ rows' = rows
      BY <2>3 DEF RecoverMark, PlacesInv, TodoInv, TypeOK
    <3> QED BY <2>1, <3>1, FailIsHarmless, RetryableIsLegal DEF Retryable, Past
  <2>4. CASE FinishRecovery
    <3>1. run' = run /\ rows'[r] = Repaired(r)
      BY <2>4 DEF FinishRecovery
    <3>2. \/ rows'[r] = rows[r]
          \/ /\ run[r].status \in {"failed", "completed"}
             /\ \E k \in {"repaired", "completed"} : rows'[r] = Append(rows[r], k)
      BY <3>1 DEF Repaired
    <3>3. {"repaired", "completed"} \subseteq Kinds \ {"output"}
      BY DEF Kinds, Outcomes, Failures
    <3> QED BY <2>1, <3>1, <3>2, <3>3 DEF Harmless, Untouched, Past, Terminal
  <2>5. CASE Restart
    BY <1>1, <2>1, <2>5 DEF Restart
  <2> QED BY <1>5, <2>2, <2>3, <2>4, <2>5 DEF Recovery
<1> QED BY <1>2, <1>3, <1>4, <1>5

\* What anything but the task does to the buffer.
LEMMA RestOfBuffer ==
  ASSUME DispatcherInv, BufferInv,
         Requests \/ Worker \/ Finalize \/ Recovery \/ Environment \/ UNCHANGED vars
  PROVE  \/ /\ UNCHANGED <<current, held, flight, made>> /\ at'["task"] = at["task"]
            /\ run[current].status = "running" =>
                 run'[current] = run[current] /\ rows'[current] = rows[current]
         \/ /\ at["task"] \in InOrchestrator /\ at'["task"] = "onCancel"
            /\ UNCHANGED <<run, current, held>> /\ flight' = 0
         \/ at'["task"] = "onError" /\ flight' = 0
         \/ at'["task"] \notin Producing /\ held' = 0 /\ flight' = 0
<1> USE DEF DispatcherInv, TypeInv
<1> DEFINE Same == /\ UNCHANGED <<current, held, flight, made>> /\ at'["task"] = at["task"]
                   /\ run[current].status = "running" =>
                        run'[current] = run[current] /\ rows'[current] = rows[current]
           Cancelled == /\ at["task"] \in InOrchestrator /\ at'["task"] = "onCancel"
                        /\ UNCHANGED <<run, current, held>> /\ flight' = 0
           Emptied == at'["task"] \notin Producing /\ held' = 0 /\ flight' = 0
<1> SUFFICES Same \/ Cancelled \/ (at'["task"] = "onError" /\ flight' = 0) \/ Emptied
  OBVIOUS
<1>1. ASSUME NEW c, CancelTask(c), UNCHANGED <<run, current>> PROVE Cancelled \/ Emptied
  BY <1>1, CancelMoves DEF CancelTask, InOrchestrator, InHandlers, Producing
<1>2. at["task"] \in {"none", "finished", "cancelled"} \cup InFinalize => held = 0 /\ flight = 0
  BY DEF BufferInv, InFinalize
<1>3. CASE Requests
  <2>1. CASE \E r \in Runs : StopCurrent(r)
    BY <1>1, <2>1 DEF StopCurrent, tables
  <2>2. CASE ~\E r \in Runs : StopCurrent(r)
    <3>1. UNCHANGED <<at, current, held, flight, made>>
      BY <1>3, <2>2 DEF Requests, SubmitMessage, RetryRun, Enqueue, DeleteRun, StopQueued,
                        dispatcher, buffer
    <3>2. run[current].status = "running" /\ current \in Runs =>
            run'[current] = run[current] /\ rows'[current] = rows[current]
      BY <1>3, RequestsNudge DEF Ended, Terminal
    <3>3. CASE current \in Runs
      BY <3>1, <3>2, <3>3
    <3>4. CASE current \notin Runs
      <4>1. at["task"] = "none"
        BY <3>4 DEF PlacesInv
      <4> QED BY <1>2, <3>1, <4>1 DEF Producing
    <3> QED BY <3>3, <3>4
  <2> QED BY <2>1, <2>2
<1>4. CASE Worker
  <2>1. at'["task"] \in {"none", "claim"} /\ at["task"] \in {"none", "finished", "cancelled"}
    BY <1>4, Moved DEF Worker, Pick, Launch, Collect, PlacesInv, TypeOK, Actors
  <2>2. held' = held /\ flight' = flight
    BY <1>4 DEF Worker, Pick, Launch, Collect, buffer
  <2> QED BY <1>2, <2>1, <2>2 DEF Producing
<1>5. CASE Finalize
  <2>1. PICK a \in Actors : FinalizeRead(a) \/ FinalizeEvent(a) \/ FinalizeMark(a)
    BY <1>5 DEF Finalize
  <2>2. held' = held /\ flight' = flight
    BY <2>1, FinalizeMoves
  <2>3. CASE a = "task"
    <3>1. at["task"] \in InFinalize /\ at'["task"] \in {"finEvent", "finMark", "cancelled"}
      BY <2>1, <2>3, FinalizeMoves
    <3> QED BY <1>2, <2>2, <3>1 DEF Producing
  <2>4. CASE a = "worker"
    <3>1. at["worker"] \in InFinalize /\ at'["task"] = at["task"]
      BY <2>1, <2>4, FinalizeMoves DEF Actors
    <3>2. at["task"] = "none"
      BY <3>1 DEF PlacesInv, InFinalize
    <3> QED BY <1>2, <2>2, <3>1, <3>2 DEF Producing
  <2> QED BY <2>3, <2>4 DEF Actors
<1>6. CASE Recovery
  <2>1. at["task"] = "none" /\ UNCHANGED <<at, held, flight>>
    BY <1>6, NoRunIsNoRun DEF Recovery, Restart, RecoverEvent, RecoverMark, FinishRecovery, PlacesInv,
                Serving, dispatcher, buffer, TypeOK
  <2> QED BY <1>2, <2>1 DEF Producing
<1>7. CASE Environment
  <2>1. CASE TaskFault
    <3>1. /\ at'["task"] = Raised /\ flight' = 0
          /\ held' = IF at["task"] \in {"onCancel", "onError"} THEN 0 ELSE held + flight
      BY <2>1, Moved DEF TaskFault, TypeOK, Actors
    <3>2. CASE at["task"] \in {"prepare", "work", "flushing", "budgeted"}
      BY <3>1, <3>2 DEF Raised
    <3>3. CASE at["task"] \notin {"prepare", "work", "flushing", "budgeted"}
      <4>1. Raised \in {"settleCancel", "settleError", "faultEvent", "finished"}
        BY <3>3 DEF Raised
      <4>2. held' = 0
        BY <3>1, <3>3 DEF BufferInv
      <4> QED BY <3>1, <4>1, <4>2 DEF Producing
    <3> QED BY <3>2, <3>3
  <2>2. CASE WorkerFault
    <3>1. at["task"] = "none" /\ at'["task"] = at["task"] /\ UNCHANGED <<held, flight>>
      BY <2>2, Moved DEF WorkerFault, PlacesInv, InFinalize, buffer, TypeOK, Actors
    <3> QED BY <1>2, <3>1 DEF Producing
  <2>3. CASE Shutdown
    BY <2>3 DEF Shutdown, buffer, tables
  <2>4. CASE GraceTimeout
    BY <1>1, <2>4 DEF GraceTimeout, tables
  <2>5. CASE Exit \/ Crash
    BY <2>5 DEF Exit, Crash, Halted, Producing
  <2> QED BY <1>7, <2>1, <2>2, <2>3, <2>4, <2>5 DEF Environment
<1>8. CASE UNCHANGED vars
  BY <1>8 DEF vars, dispatcher, buffer, tables
<1> QED BY <1>3, <1>4, <1>5, <1>6, <1>7, <1>8

LEMMA RestKeepsBuffer ==
  ASSUME DispatcherInv, BufferInv, FlushInv,
         Requests \/ Worker \/ Finalize \/ Recovery \/ Environment \/ UNCHANGED vars
  PROVE  BufferInv' /\ FlushInv'
<1>1. CASE /\ UNCHANGED <<current, held, flight, made>> /\ at'["task"] = at["task"]
           /\ run[current].status = "running" =>
                run'[current] = run[current] /\ rows'[current] = rows[current]
  <2>1. BufferInv'
    BY <1>1 DEF BufferInv
  <2>2. ASSUME at["task"] \in Producing PROVE AllOutput(current)' /\ Len(rows[current])' = Len(rows[current])
    <3>1. rows'[current] = rows[current] /\ current' = current
      BY <1>1, <2>2 DEF DispatcherInv, HandsInv, Working, Producing
    <3> QED BY <2>2, <3>1 DEF FlushInv, AllOutput
  <2> QED BY <1>1, <2>1, <2>2 DEF FlushInv
<1>2. CASE /\ at["task"] \in InOrchestrator /\ at'["task"] = "onCancel"
           /\ UNCHANGED <<run, current, held>> /\ flight' = 0
  <2>1. run[current].status # "running" => held = 0
    BY <1>2 DEF InOrchestrator, BufferInv, DispatcherInv, HandsInv, Working
  <2> QED BY <1>2, <2>1 DEF BufferInv, FlushInv, Producing
<1>3. CASE at'["task"] = "onError" /\ flight' = 0
  BY <1>3 DEF BufferInv, FlushInv, Producing
<1>4. CASE at'["task"] \notin Producing /\ held' = 0 /\ flight' = 0
  BY <1>4 DEF BufferInv, FlushInv
<1> QED BY <1>1, <1>2, <1>3, <1>4, RestOfBuffer

LEMMA TaskKeepsBuffer ==
  ASSUME DispatcherInv, QueueInv, BufferInv, FlushInv, Task
  PROVE  BufferInv' /\ FlushInv'
<1> USE DEF DispatcherInv, TypeInv
<1>1. current \in Runs /\ current' = current
  BY TaskAtWork
<1>2. CASE Claim
  <2>1. held' = 0 /\ flight' = 0 /\ UNCHANGED <<rows, made>>
    BY <1>2 DEF Claim, buffer, BufferInv
  <2>2. at'["task"] = "finished" \/ (at'["task"] = "claimed" /\ run[current].status = "queued")
    BY <1>2, Moved DEF Claim, TypeOK, Actors
  <2>3. run[current].status = "queued" => rows[current] = <<>> /\ made[current] = 0
    BY <1>1 DEF QueueInv
  <2> QED BY <1>1, <2>1, <2>2, <2>3 DEF BufferInv, FlushInv, Producing, AllOutput
<1>3. CASE Begin
  <2>1. at["task"] \in {"claimed", "prepare"} /\ at'["task"] \in {"prepare", "work"}
    BY <1>3, StepMoves DEF Begin
  <2>2. UNCHANGED <<rows, held, flight, made>>
    BY <1>3 DEF Begin, tables, buffer
  <2> QED BY <1>1, <2>1, <2>2 DEF BufferInv, FlushInv, Producing, AllOutput
<1>4. CASE Produce
  <2>1. at["task"] = "work" /\ at'["task"] = "work"
    BY <1>4, StepMoves DEF Produce
  <2>2. /\ rows' = rows /\ held' = held + 1 /\ flight' = flight
        /\ made'[current] = made[current] + 1
    BY <1>1, <1>4 DEF Produce, tables, TypeOK
  <2>3. Len(rows[current]) \in Nat
    BY <1>1 DEF TypeOK
  <2>4. Len(rows[current]) + held' + flight = made'[current] /\ AllOutput(current)
    BY <1>1, <2>1, <2>2, <2>3 DEF FlushInv, Producing, TypeOK
  <2> QED BY <1>1, <2>1, <2>2, <2>4 DEF BufferInv, FlushInv, AllOutput
<1>5. CASE StartFlush
  <2>1. at["task"] = "work" /\ at'["task"] = "flushing"
    BY <1>5, StepMoves DEF StartFlush
  <2>2. UNCHANGED <<rows, made>> /\ held' = 0 /\ flight' = held /\ flight = 0
    BY <1>5, <2>1 DEF StartFlush, tables, BufferInv
  <2>3. Len(rows[current]) \in Nat
    BY <1>1 DEF TypeOK
  <2>4. Len(rows[current]) + 0 + held = made[current] /\ AllOutput(current)
    BY <2>1, <2>2, <2>3 DEF FlushInv, Producing, TypeOK
  <2> QED BY <1>1, <2>1, <2>2, <2>4 DEF BufferInv, FlushInv, AllOutput
<1>6. CASE FinishFlush
  <2>1. at["task"] = "flushing" /\ at'["task"] = "work"
    BY <1>6, StepMoves DEF FinishFlush
  <2>2. rows'[current] = rows[current] \o Batch(flight) /\ held' = held /\ flight' = 0 /\ made' = made
    BY <1>1, <1>6 DEF FinishFlush, TypeOK
  <2>3. AllOutput(current) /\ Len(rows[current]) + held + flight = made[current] /\ held = 0
    BY <2>1 DEF FlushInv, BufferInv, Producing
  <2>4. AllOutput(current)' /\ Len(rows'[current]) = Len(rows[current]) + flight
    <3>1. PICK r \in Runs : r = current
      BY <1>1
    <3>2. AllOutput(r)' /\ Len(rows'[r]) = Len(rows[r]) + flight
      BY <2>2, <2>3, <3>1, BatchIsOutput DEF TypeOK
    <3> QED BY <1>1, <3>1, <3>2 DEF AllOutput
  <2>5. Len(rows[current]) \in Nat
    BY <1>1 DEF TypeOK
  <2>6. Len(rows'[current]) + held' + flight' = made'[current]
    BY <2>2, <2>3, <2>4, <2>5 DEF TypeOK
  <2> QED BY <1>1, <2>1, <2>2, <2>4, <2>6 DEF BufferInv, FlushInv
<1>7. CASE AgentFails
  <2>1. at["task"] \in {"prepare", "work"} /\ at'["task"] = "onError" /\ flight' = flight
    BY <1>7, StepMoves DEF AgentFails, buffer
  <2> QED BY <2>1 DEF BufferInv, FlushInv, Producing
<1>8. CASE Rescue
  <2>1. /\ at'["task"] \in {"settleCancel", "settleError"} /\ held' = 0 /\ flight' = 0
    BY <1>8, StepMoves DEF Rescue, BufferInv
  <2> QED BY <2>1 DEF BufferInv, FlushInv, Producing
<1>9. CASE \/ AnnounceTooLarge \/ FailTooLarge \/ Complete \/ End
           \/ SettleCancel \/ SettleError \/ AnnounceFault \/ FailFault
  <2>1. /\ at["task"] \in {"prepare", "budgeted", "work", "ending", "settled", "settleCancel",
                           "settleError", "faultEvent", "faultMark"}
        /\ at'["task"] \in {"budgeted", "ending", "finished", "finRead", "settled", "faultMark"}
        /\ at["task"] = "work" => held = 0
        /\ UNCHANGED <<held, flight>>
    BY <1>9, StepMoves DEF AnnounceTooLarge, FailTooLarge, Complete, End, SettleCancel, SettleError,
                           AnnounceFault, FailFault, buffer
  <2>2. held = 0 /\ flight = 0
    BY <2>1 DEF BufferInv
  <2> QED BY <2>1, <2>2 DEF BufferInv, FlushInv, Producing
<1> QED BY <1>2, <1>3, <1>4, <1>5, <1>6, <1>7, <1>8, <1>9 DEF Task

LEMMA BufferStep ==
  ASSUME DispatcherInv, QueueInv, BufferInv, FlushInv, [Next]_vars
  PROVE  BufferInv' /\ FlushInv'
BY TaskKeepsBuffer, RestKeepsBuffer DEF Next

\* Nothing is left to be written when the agent completes a run.
LEMMA CompleteIsWhole ==
  ASSUME DispatcherInv, BufferInv, FlushInv, Complete, NEW r \in Runs, Fresh(r), Whole(r)
  PROVE  Fresh(r)' /\ Whole(r)'
<1> USE DEF DispatcherInv, TypeInv
<1>1. /\ current \in Runs /\ at["task"] = "work" /\ held = 0 /\ flight = 0
      /\ Write(current, "completed") /\ made' = made
  BY TaskAtWork DEF Task, Complete, Step, BufferInv, buffer
<1>2. PICK row : /\ row = [run[current] EXCEPT !.status = "completed", !.code = "none", !.answer = TRUE]
                 /\ run' = [run EXCEPT ![current] = row]
  BY Zenon DEF Complete
<1>3. row.status = "completed"
  BY <1>1, <1>2 DEF TypeOK, RunRows
<1>4. "completed" \in Kinds
  BY DEF Kinds, Outcomes
<1>5. CASE r = current
  <2>1. AllOutput(r) /\ Len(rows[r]) = made[r] /\ rows[r] \in Seq(Kinds)
    <3>1. AllOutput(r) /\ Len(rows[r]) + 0 + 0 = made[r] /\ rows[r] \in Seq(Kinds)
      BY <1>1, <1>5 DEF FlushInv, Producing, TypeOK
    <3> QED BY <3>1
  <2>2. Outputs(r) = 1 .. made[r]
    BY <2>1, OutputsAreAll
  <2>3. rows'[r] = Append(rows[r], "completed")
    BY <1>1, <1>4, <1>5, WriteFacts
  <2>4. Outputs(r)' = Outputs(r)
    BY <1>4, <2>1, <2>3, AppendKeepsOutputs
  <2>5. run'[r].status = "completed"
    BY <1>2, <1>3, <1>5 DEF TypeOK
  <2> QED BY <1>1, <2>2, <2>4, <2>5 DEF Fresh, Whole
<1>6. CASE r # current
  <2>1. run'[r] = run[r] /\ rows'[r] = rows[r] /\ made'[r] = made[r]
    BY <1>1, <1>2, <1>4, <1>6, WriteFacts DEF TypeOK
  <2> QED BY <2>1 DEF Fresh, Whole, Outputs
<1> QED BY <1>5, <1>6

LEMMA StepKeepsWhole ==
  ASSUME DispatcherInv, BufferInv, FlushInv, QueueInv, CompletedIsWhole, [Next]_vars
  PROVE  QueueInv' /\ CompletedIsWhole'
<1>1. ASSUME NEW r \in Runs PROVE Fresh(r)' /\ Whole(r)'
  <2>1. Fresh(r) /\ Whole(r)
    BY DEF QueueInv, CompletedIsWhole, Fresh, Whole
  <2>2. CASE Complete
    BY <2>1, <2>2, CompleteIsWhole
  <2>3. CASE ~Complete
    <3>1. Harmless(r)
      BY <2>3, TaskIsHarmless, RestIsHarmless DEF Next
    <3> QED BY <2>1, <3>1, HarmlessKeepsWhole DEF DispatcherInv, TypeInv
  <2> QED BY <2>2, <2>3
<1> QED BY <1>1 DEF QueueInv, CompletedIsWhole, Fresh, Whole

(***************************************************************************)
(* The invariant.                                                          *)
(***************************************************************************)
LEMMA RunInit == Init => RunInv
<1> SUFFICES ASSUME Init PROVE RunInv
  OBVIOUS
<1>1. /\ \A r \in Runs : /\ run[r] \in OldRuns \cup {AbsentRun}
                         /\ rows[r] = <<>> /\ made[r] = 0
      /\ at["worker"] = "idle" /\ at["task"] = "none" /\ phase = "down"
      /\ held = 0 /\ flight = 0 /\ half = NoRun
  BY DEF Init
<1>2. \A r \in Runs : /\ run[r].status \in {"absent", "failed", "completed"}
                      /\ run[r].attempts <= 1
                      /\ run[r].status = "absent" => run[r].attempts = 0
                      /\ run[r].status = "failed" => run[r].code = "old"
  <2>1. \A row \in OldRuns \cup {AbsentRun} :
          /\ row.status \in {"absent", "failed", "completed"}
          /\ row.attempts <= 1
          /\ row.status = "absent" => row.attempts = 0
          /\ row.status = "failed" => row.code = "old"
    BY DEF OldRuns, AbsentRun, RunRow
  <2> QED BY <1>1, <2>1
<1>3. StartsInv /\ RunningInv
  BY <1>2 DEF StartsInv, RunningInv
<1>4. QueueInv /\ ToldInv
  BY <1>1, <1>2 DEF QueueInv, ToldInv, Silent, Serving
<1>5. OutcomesDoNotMix
  BY <1>1, NothingSaid DEF OutcomesDoNotMix
<1>6. StatusInv /\ EventsInv /\ BufferInv /\ FlushInv
  BY <1>1 DEF StatusInv, EventsInv, BufferInv, FlushInv, Producing, Place
<1>7. CompletedIsWhole
  <2>1. \A row \in OldRuns \cup {AbsentRun} : row.born = 0
    BY DEF OldRuns, AbsentRun, RunRow
  <2> QED BY <1>1, <2>1 DEF CompletedIsWhole
<1> QED
  BY <1>3, <1>4, <1>5, <1>6, <1>7, DispatcherInit DEF RunInv, DispatcherInv, TypeInv

LEMMA RunStep ==
  ASSUME TypeInv, RunInv, [Next]_vars
  PROVE  RunInv'
<1>1. DispatcherInv'
  BY DispatcherStep DEF RunInv, DispatcherInv
<1>2. StartsInv'
  <2>1. ASSUME NEW r \in Runs
        PROVE  /\ run'[r].attempts <= 1
               /\ run'[r].status \in {"absent", "queued"} => run'[r].attempts = 0
    BY StepMovesRuns DEF Moves, Created, Started, Over, StartsInv, RunInv
  <2> QED BY <2>1 DEF StartsInv
<1>3. DispatcherInv
  BY DEF RunInv, DispatcherInv
<1>4. BufferInv' /\ FlushInv' /\ QueueInv' /\ CompletedIsWhole'
  BY <1>3, BufferStep, StepKeepsWhole DEF RunInv
<1>5. ASSUME faults' = 0
      PROVE  StatusInv' /\ EventsInv' /\ RunningInv' /\ ToldInv' /\ OutcomesDoNotMix'
  <2>1. PlacesInv /\ SafeInv /\ faults = 0
    BY <1>5, StepRemembers DEF RunInv, SafeInv
  <2>2. StatusInv' /\ EventsInv' /\ RunningInv'
    BY <1>3, <1>5, <2>1, StepKeepsLocated, StepRemembers DEF Located, DispatcherInv
  <2>3. ToldInv' /\ OutcomesDoNotMix'
    BY <1>5, <2>1, StepKeepsTales
  <2> QED BY <2>2, <2>3
<1> QED BY <1>1, <1>2, <1>4, <1>5 DEF RunInv, DispatcherInv, TypeInv

(***************************************************************************)
(* Requests, dispatcher, recovery scan and tables agree about every run,   *)
(* whatever the interleaving of claims, stops, crashes and restarts.       *)
(***************************************************************************)
THEOREM RunCorrect == Spec => []RunInv
<1>1. Init => TypeInv /\ RunInv
  BY TypeInit, RunInit DEF TypeInv
<1>2. TypeInv /\ RunInv /\ [Next]_vars => (TypeInv /\ RunInv)'
  BY TypeStep, RunStep
<1> QED BY <1>1, <1>2, PTL DEF Spec

(***************************************************************************)
(* While the service serves, the last event of an ended run tells the      *)
(* outcome and the error code of its row.                                  *)
(***************************************************************************)
THEOREM OutcomeTold == Spec => []OutcomeIsTold
<1>1. RunInv => OutcomeIsTold
  BY DEF RunInv, ToldInv, OutcomeIsTold, Silent
<1> QED BY <1>1, RunCorrect, PTL

(***************************************************************************)
(* Completion, cancellation, the error handlers and recovery never both    *)
(* announce the end of a run.                                              *)
(***************************************************************************)
THEOREM OneOutcome == Spec => []OutcomesDoNotMix
<1>1. RunInv => OutcomesDoNotMix
  BY DEF RunInv, OutcomesDoNotMix
<1> QED BY <1>1, RunCorrect, PTL

(***************************************************************************)
(* Once the service serves, a running run is the one the dispatcher        *)
(* executes or looks after.                                                *)
(***************************************************************************)
THEOREM NoneForgotten == Spec => []NoRunIsForgotten
<1>1. RunInv => NoRunIsForgotten
  BY DEF RunInv, RunningInv, NoRunIsForgotten
<1> QED BY <1>1, RunCorrect, PTL

(***************************************************************************)
(* A run that completed has every event its agent produced in run_events,  *)
(* whatever flushes and database calls failed before.                      *)
(***************************************************************************)
THEOREM CompletedWhole == Spec => []CompletedIsWhole
<1>1. RunInv => CompletedIsWhole
  BY DEF RunInv
<1> QED BY <1>1, RunCorrect, PTL

(***************************************************************************)
(* RunLifecycle implements RunPromise.                                     *)
(***************************************************************************)
\* What the readers of a run know, and the variables of the promise.
Known(r) ==
  IF Has(r, {"completed"}) THEN "answer" ELSE IF Has(r, Failures) THEN "failure" ELSE "nothing"

stage == [r \in Runs |-> run[r].status]
told == [r \in Runs |-> Known(r)]

LEMMA PromiseVars == Promise!vars = <<stage, told>>
BY DEF Promise!vars, stage, told, Known

LEMMA OnlyBecomes ==
  ASSUME NEW r \in Runs, Only(r), NEW s, run'[r].status = s, NEW t, Known(r)' = t
  PROVE  Promise!Become(r, s, t)
<1>1. \A q \in Runs \ {r} : run'[q].status = run[q].status /\ Known(q)' = Known(q)
  BY DEF Only, Known, Has
<1>2. stage' = [stage EXCEPT ![r] = s]
  BY <1>1 DEF stage
<1>3. told' = [told EXCEPT ![r] = t]
  BY <1>1 DEF told
<1> QED BY <1>2, <1>3 DEF Promise!Become, stage, told, Known

LEMMA ChangePromised ==
  ASSUME TypeOK, NEW r \in Runs, Tale(r), Only(r), Change(r)
  PROVE  [Promise!Next]_(Promise!vars)
<1> rows[r] \in Seq(Kinds)
  BY DEF TypeOK
<1>0. stage[r] = run[r].status /\ told[r] = Known(r)
  BY DEF stage, told
<1>1. CASE Talked(r)
  <2>1. PICK n \in Nat : rows'[r] = rows[r] \o Batch(n)
    BY <1>1 DEF Talked
  <2>2. /\ Has(r, Failures)' <=> Has(r, Failures)
        /\ Has(r, {"completed"})' <=> Has(r, {"completed"})
    BY <2>1, BatchFacts DEF Outcomes
  <2>3. \A q \in Runs : run'[q].status = run[q].status /\ Known(q)' = Known(q)
    BY <1>1, <2>2 DEF Only, Talked, Known, Has
  <2>4. stage' = stage /\ told' = told
    BY <2>3 DEF stage, told
  <2> QED BY <2>4, PromiseVars DEF stage, told, Known, Promise!vars
<1>2. CASE Submitted(r)
  <2>1. Known(r)' = Known(r) /\ run'[r].status = "queued" /\ run[r].status = "absent"
    BY <1>2 DEF Submitted, Known, Has
  <2>2. PICK t : t = told[r] /\ Known(r)' = t
    BY <1>0, <2>1
  <2>3. Promise!Become(r, "queued", t)
    BY <2>1, <2>2, OnlyBecomes
  <2>4. Promise!Submit(r)
    BY <1>0, <2>1, <2>2, <2>3 DEF Promise!Submit, Promise!Become, stage, told, Known
  <2> QED BY <2>4 DEF Promise!Next
<1>3. CASE Begun(r)
  <2>1. Known(r)' = Known(r) /\ run'[r].status = "running" /\ run[r].status = "queued"
    BY <1>3 DEF Begun, Known, Has
  <2>2. PICK t : t = told[r] /\ Known(r)' = t
    BY <1>0, <2>1
  <2>3. Promise!Become(r, "running", t)
    BY <2>1, <2>2, OnlyBecomes
  <2>4. Promise!Start(r)
    BY <1>0, <2>1, <2>2, <2>3 DEF Promise!Start, Promise!Become, stage, told, Known
  <2> QED BY <2>4 DEF Promise!Next
<1>4. CASE Announced(r)
  <2>1. PICK k \in Announcements : rows'[r] = Append(rows[r], k)
    BY <1>4 DEF Announced
  <2>2. k \in Kinds /\ k # "completed" /\ k \in Failures
    BY AnnouncementsAreLegal DEF Announcements
  <2>3. ~Has(r, {"completed"})
    BY <1>4 DEF Announced, Tale
  <2>4. Known(r)' = "failure"
    BY <2>1, <2>2, <2>3, AppendFacts DEF Known
  <2>5. run[r].status \in {"running", "deleted"} /\ run'[r].status = run[r].status
    BY <1>4 DEF Announced
  <2>6. Promise!Announce(r)
    BY <1>0, <2>4, <2>5, OnlyBecomes DEF Promise!Announce, stage
  <2> QED BY <2>6 DEF Promise!Next
<1>5. CASE FailedBy(r)
  <2>1. PICK c \in Announcements :
          rows'[r] = Append(rows[r], c) \/ (rows'[r] = rows[r] /\ Says(r, c))
    BY <1>5 DEF FailedBy
  <2>2. c \in Kinds /\ c # "completed" /\ c \in Failures
    BY AnnouncementsAreLegal DEF Announcements
  <2>3. ~Has(r, {"completed"})
    BY <1>5 DEF FailedBy, Tale
  <2>4. Known(r)' = "failure"
    <3>1. CASE rows'[r] = Append(rows[r], c)
      BY <2>2, <2>3, <3>1, AppendFacts DEF Known
    <3>2. CASE rows'[r] = rows[r] /\ Says(r, c)
      <4>1. Len(rows[r]) \in DOMAIN rows[r]
        BY <3>2 DEF Says
      <4>2. Has(r, Failures)
        BY <2>2, <3>2, <4>1 DEF Says, Has
      <4> QED BY <2>3, <3>2, <4>2 DEF Known, Has
    <3> QED BY <2>1, <3>1, <3>2
  <2>5. run[r].status \in {"queued", "running"} /\ run'[r].status = "failed"
    BY <1>5 DEF FailedBy
  <2>6. Promise!Fail(r)
    BY <1>0, <2>4, <2>5, OnlyBecomes DEF Promise!Fail, stage
  <2> QED BY <2>6 DEF Promise!Next
<1>6. CASE Answered(r)
  <2>1. /\ rows'[r] = Append(rows[r], "completed") /\ "completed" \in Kinds
        /\ run[r].status = "running" /\ run'[r].status = "completed"
    BY <1>6 DEF Answered, Kinds, Outcomes
  <2>2. Known(r) = "nothing"
    BY <1>6 DEF Answered, Known, Has, Outcomes
  <2>3. Known(r)' = "answer"
    BY <2>1, AppendFacts DEF Known
  <2>4. Promise!Answer(r)
    BY <1>0, <2>1, <2>2, <2>3, OnlyBecomes DEF Promise!Answer, stage, told, Known
  <2> QED BY <2>4 DEF Promise!Next
<1>7. CASE Removed(r)
  <2>1. Known(r)' = "nothing" /\ run[r].status \in Promise!Ends /\ run'[r].status = "deleted"
    BY <1>7 DEF Removed, Known, Has, Ended, Terminal, Promise!Ends
  <2>2. Promise!Delete(r)
    BY <1>0, <2>1, OnlyBecomes DEF Promise!Delete, stage
  <2> QED BY <2>2 DEF Promise!Next
<1> QED BY <1>1, <1>2, <1>3, <1>4, <1>5, <1>6, <1>7 DEF Change

LEMMA RepairPromised ==
  ASSUME TypeOK, FinishRecovery
  PROVE  Promise!MakeUp
<1>1. run' = run /\ \A r \in Runs : rows'[r] = Repaired(r)
  BY DEF FinishRecovery
<1>2. stage' = stage
  BY <1>1 DEF stage
<1>3. ASSUME NEW r \in Runs
      PROVE  \/ Known(r)' = Known(r)
             \/ /\ Known(r) = "nothing"
                /\ \/ run[r].status = "failed" /\ Known(r)' = "failure"
                   \/ run[r].status = "completed" /\ Known(r)' = "answer"
  <2> rows[r] \in Seq(Kinds)
    BY DEF TypeOK
  <2>1. CASE rows'[r] = rows[r]
    BY <2>1 DEF Known, Has
  <2>2. CASE rows'[r] # rows[r]
    <3>1. /\ Unannounced(r)
          /\ \/ run[r].status = "failed" /\ rows'[r] = Append(rows[r], "repaired")
             \/ run[r].status = "completed" /\ rows'[r] = Append(rows[r], "completed")
      BY <1>1, <2>2 DEF Repaired
    <3>2. ~Has(r, {"completed"}) /\ ~Has(r, Failures)
      BY <3>1 DEF Unannounced, Has, Outcomes
    <3>3. {"repaired", "completed"} \subseteq Kinds /\ "repaired" \in Failures
      BY DEF Kinds, Outcomes, Failures
    <3>4. Known(r) = "nothing"
      BY <3>2 DEF Known
    <3>5. CASE run[r].status = "failed" /\ rows'[r] = Append(rows[r], "repaired")
      <4>1. Known(r)' = "failure"
        BY <3>2, <3>3, <3>5, AppendFacts DEF Known
      <4> QED BY <3>4, <3>5, <4>1
    <3>6. CASE run[r].status = "completed" /\ rows'[r] = Append(rows[r], "completed")
      <4>1. Known(r)' = "answer"
        BY <3>3, <3>6, AppendFacts DEF Known
      <4> QED BY <3>4, <3>6, <4>1
    <3> QED BY <3>1, <3>5, <3>6
  <2> QED BY <2>1, <2>2
<1>4. told' \in [Runs -> {"nothing", "failure", "answer"}]
  BY DEF told, Known
<1>5. \A r \in Runs : /\ stage[r] = run[r].status /\ told[r] = Known(r) /\ told'[r] = Known(r)'
  BY DEF stage, told
<1> QED BY <1>2, <1>3, <1>4, <1>5 DEF Promise!MakeUp, stage, told, Known

(***************************************************************************)
(* The backend keeps its promise: whatever the interleaving, a run is      *)
(* started once at most, ends once, and what its readers are told is true, *)
(* as long as the database accepts writes.                                 *)
(***************************************************************************)
THEOREM BackendKeepsPromise == Spec => RunKeepsPromise
<1>1. Init => Promise!Init
  <2> SUFFICES ASSUME Init PROVE Promise!Init
    OBVIOUS
  <2>1. \A row \in OldRuns \cup {AbsentRun} : row.status \in {"completed", "failed", "absent"}
    BY DEF OldRuns, AbsentRun, RunRow
  <2>2. stage \in [Runs -> Promise!Ends \cup {"absent"}]
    BY <2>1 DEF Init, stage, Promise!Ends
  <2>3. \A r \in Runs : Known(r) = "nothing"
    <3>1. \A r \in Runs : rows[r] = <<>>
      BY DEF Init
    <3> QED BY <3>1, NothingSaid DEF Known
  <2>4. told = [r \in Runs |-> "nothing"]
    BY <2>3 DEF told
  <2> QED BY <2>2, <2>4 DEF Promise!Init, stage, told, Known
<1>2. TypeInv /\ RunInv /\ [Next]_vars => [faults' = 0 => Promise!Next]_(Promise!vars)
  <2> SUFFICES ASSUME TypeInv, RunInv, [Next]_vars, faults' = 0
               PROVE  [Promise!Next]_(Promise!vars)
    OBVIOUS
  <2>1. PlacesInv /\ SafeInv /\ faults = 0
    BY StepRemembers DEF RunInv, SafeInv
  <2>2. CASE FinishRecovery
    BY <2>2, RepairPromised DEF Promise!Next, TypeInv
  <2>3. CASE \E r \in Runs : Only(r) /\ Change(r)
    <3>1. PICK r \in Runs : Only(r) /\ Change(r)
      BY <2>3
    <3>2. Tale(r)
      BY <2>1, TaleOf DEF SafeInv
    <3> QED BY <3>1, <3>2, ChangePromised DEF TypeInv
  <2>4. CASE UNCHANGED tables
    <3>1. stage' = stage /\ told' = told
      BY <2>4 DEF tables, stage, told, Known, Has
    <3> QED BY <3>1 DEF Promise!vars, stage, told, Known
  <2> QED BY <2>1, <2>2, <2>3, <2>4, StepChanges DEF OneChange
<1>3. Init /\ [][Next]_vars => [](TypeInv /\ RunInv)
  <2>1. Init => TypeInv /\ RunInv
    BY TypeInit, RunInit DEF TypeInv
  <2>2. TypeInv /\ RunInv /\ [Next]_vars => (TypeInv /\ RunInv)'
    BY TypeStep, RunStep
  <2> QED BY <2>1, <2>2, PTL
<1> QED BY <1>1, <1>2, <1>3, PTL DEF Spec, RunKeepsPromise
=============================================================================

---------------------------- MODULE RunInvariant ----------------------------
(***************************************************************************)
(* The inductive invariant behind the safety properties of RunLifecycle:   *)
(* what the place of the dispatcher says about the row and the events of   *)
(* its current run.                                                        *)
(***************************************************************************)
EXTENDS RunLifecycle

\* The worker waits while the task lives, so the dispatcher is at one place
\* and handles one cancellation.
Place == IF at["worker"] = "waiting" THEN at["task"] ELSE at["worker"]
Mind == IF at["worker"] = "waiting" THEN code["task"] ELSE code["worker"]

\* Outside the service there is neither worker nor task, and only the recovery
\* scan has runs to do.
PlacesInv ==
  /\ at["task"] # "none" <=> at["worker"] = "waiting"
  /\ at["worker"] \notin {"idle", "dead"} => current \in Runs
  /\ ~Serving => at["worker"] = "idle"
  /\ phase # "recovering" => todo = {} /\ half = NoRun
  /\ half # NoRun => half \in todo

\* Who handles a cancellation knows its code.
CodesInv ==
  /\ at["task"] \in {"onCancel", "settleCancel"} \cup InFinalize => code["task"] \in Retryable
  /\ at["worker"] \in InFinalize => code["worker"] \in Retryable

\* A run is started from the queue, and nothing puts it back there.
StartsInv ==
  \A r \in Runs :
    /\ run[r].attempts <= 1
    /\ run[r].status \in {"absent", "queued"} => run[r].attempts = 0

\* Once claimed, a run is not queued again; the task that works on it finds it
\* running, and whoever is about to end it finds it neither ended nor queued.
Past == {"running", "deleted"} \cup Terminal

Working == {"claimed", "prepare", "work", "flushing", "budgeted", "onError", "settleError"}

HandsInv ==
  /\ at["worker"] = "picked" \/ at["task"] = "claim" => run[current].status # "absent"
  /\ at["task"] \in Working => run[current].status = "running"
  /\ at["task"] \notin {"none", "claim", "finished"} /\ (at["task"] = "cancelled" => phase = "up")
       => run[current].status \in Past
  /\ at["worker"] \in InFinalize => run[current].status \in Past
  /\ {at["worker"], at["task"]} \cap {"finEvent", "finMark"} # {}
       => run[current].status \in {"running", "deleted"}
  /\ at["task"] \in {"faultEvent", "faultMark"} => faults > 0

\* The run the dispatcher has chosen stays the oldest of the queue.
OrderInv ==
  /\ \A q \in Runs : run[q].status = "queued" => run[q].born <= clock
  /\ (at["worker"] = "picked" \/ at["task"] = "claim") /\ run[current].status = "queued"
       => \A q \in Runs : run[q].status = "queued" => run[current].born <= run[q].born

\* Runs to recover are running.
TodoInv == \A r \in todo : run[r].status = "running"

\* Nothing is produced by a run, or written about it, before it is started.
QueueInv ==
  \A r \in Runs : run[r].status \in {"absent", "queued"} => rows[r] = <<>> /\ made[r] = 0

\* What the agent has produced is in run_events, in the batch of the buffer or
\* in the flush that is being written.
AllOutput(r) == \A i \in DOMAIN rows[r] : rows[r][i] = "output"

Producing == {"claimed", "prepare", "work", "flushing"}

FlushInv ==
  at["task"] \in Producing =>
    AllOutput(current) /\ Len(rows[current]) + held + flight = made[current]

\* A handler has events to write only about a run that did not end.
BufferInv ==
  /\ at["task"] \notin {"work", "onCancel", "onError"} => held = 0
  /\ at["task"] = "onCancel" /\ run[current].status # "running" => held = 0
  /\ at["task"] # "flushing" => flight = 0

\* The statuses the current run may have at each place; a run that ended may
\* be deleted at any time.
StatusAt(place) ==
  CASE place \in {"picked", "claim"} -> {"queued", "failed", "deleted"}
    [] place \in {"claimed", "prepare", "work", "flushing", "budgeted",
                  "onError", "settleError"} -> {"running"}
    [] place \in {"ending", "settled", "finished"} -> {"completed", "failed", "deleted"}
    [] place \in {"finEvent", "finMark"} -> {"running", "deleted"}
    [] place = "cancelled" /\ phase # "up" -> Statuses
    [] OTHER -> {"running", "completed", "failed", "deleted"}

StatusInv ==
  /\ Place \notin {"dead", "faultEvent", "faultMark"}
  /\ Place # "idle" => run[current].status \in StatusAt(Place)

\* Between the event and the status of a failure, the event is the last one.
EventsInv ==
  /\ Place \in {"claimed", "prepare", "work", "flushing", "onError", "settleError"}
       => ~Has(current, Outcomes)
  /\ Place = "budgeted" => Says(current, "toolarge")
  /\ Place = "finMark" /\ run[current].status = "running" => Says(current, Mind)
  /\ half # NoRun => Says(half, "interrupted")

\* Running runs are known to whoever must end them.
RunningInv ==
  \A r \in Runs :
    run[r].status = "running" =>
      /\ phase = "up" => r = current /\ at["worker"] \in {"waiting"} \cup InFinalize
      /\ phase = "recovering" => r \in todo

\* What readers are told; a run of an earlier release may still be silent
\* before the service serves.
Silent(r) ==
  /\ ~Serving /\ rows[r] = <<>>
  /\ run[r].status = "failed" => run[r].code = "old"

ToldInv ==
  \A r \in Runs :
    Ended(r) /\ (run[r].status = "completed" => run[r].answer) =>
      Silent(r) \/ Says(r, Told(r))

\* Task, worker and recovery scan hold the runs they may end; as long as the
\* database accepts writes, they agree with agent_runs and run_events.
RunInv ==
  /\ PlacesInv /\ CodesInv /\ StartsInv /\ HandsInv /\ OrderInv /\ TodoInv
  /\ QueueInv /\ FlushInv /\ BufferInv /\ CompletedIsWhole
  /\ faults = 0 =>
       StatusInv /\ EventsInv /\ RunningInv /\ ToldInv /\ OutcomesDoNotMix
=============================================================================

----------------------------- MODULE RunPromise -----------------------------
(***************************************************************************)
(* What the backend promises about a run while its database accepts        *)
(* writes, without saying how: it is started at most once, it ends once,   *)
(* its readers are told how, and what they are told is true.  There is no  *)
(* dispatcher, no task, no cancellation and no restart here.               *)
(***************************************************************************)
CONSTANT Runs

VARIABLES
  stage,  \* absent, queued, running, completed, failed or deleted
  told    \* what readers know: nothing, a failure or an answer

vars == <<stage, told>>

Ends == {"completed", "failed"}

\* An earlier release may have left runs that ended in silence.
Init ==
  /\ stage \in [Runs -> Ends \cup {"absent"}]
  /\ told = [r \in Runs |-> "nothing"]

Become(r, s, t) ==
  /\ stage' = [stage EXCEPT ![r] = s]
  /\ told' = [told EXCEPT ![r] = t]

Submit(r) == stage[r] = "absent" /\ Become(r, "queued", told[r])

Start(r) == stage[r] = "queued" /\ Become(r, "running", told[r])

\* A failure may be announced before it is recorded, and more than once; the
\* announcement may also come after the user has deleted the run.
Announce(r) ==
  /\ stage[r] \in {"running", "deleted"}
  /\ Become(r, stage[r], "failure")

Fail(r) == stage[r] \in {"queued", "running"} /\ Become(r, "failed", "failure")

\* Nobody was told of a failure before.
Answer(r) ==
  /\ stage[r] = "running"
  /\ told[r] = "nothing"
  /\ Become(r, "completed", "answer")

\* Runs that ended in silence are made up for, all at once.
MakeUp ==
  /\ UNCHANGED stage
  /\ told' \in [Runs -> {"nothing", "failure", "answer"}]
  /\ \A r \in Runs :
       \/ told'[r] = told[r]
       \/ /\ told[r] = "nothing"
          /\ \/ stage[r] = "failed" /\ told'[r] = "failure"
             \/ stage[r] = "completed" /\ told'[r] = "answer"

Delete(r) == stage[r] \in Ends /\ Become(r, "deleted", "nothing")

Next ==
  \/ \E r \in Runs : Submit(r) \/ Start(r) \/ Announce(r) \/ Fail(r) \/ Answer(r) \/ Delete(r)
  \/ MakeUp

Spec == Init /\ [][Next]_vars
=============================================================================

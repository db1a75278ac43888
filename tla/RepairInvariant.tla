-------------------------- MODULE RepairInvariant ---------------------------
(***************************************************************************)
(* The inductive invariant behind the properties of RepairLedger: what the *)
(* catalogue, a row of memory_action_links, the answers under way and the  *)
(* diagnoses say about the action they are about.                          *)
(***************************************************************************)
EXTENDS RepairLedger

-----------------------------------------------------------------------------
(* Types.                                                                   *)

ToolRow == [policy: Policies, schema: Schemas]

\* What a refresh has read is only looked at while it is under way.
CatalogueTypeOK ==
  /\ tool \in [Servers -> [Tools -> ToolRow]]
  /\ remote \in [Servers -> Listing]
  /\ vetted \in [Servers -> [Tools -> Schemas]]
  /\ refresh = [of |-> refresh.of, told |-> refresh.told, rows |-> refresh.rows]
  /\ refresh.of \in Servers => refresh.told \in Listing /\ refresh.rows \in [Tools -> ToolRow]

States == {"absent", "proposed", "rejected", "queued", "succeeded", "failed", "unclear"}
AnswerType == [state: States \cup {"refused", "error"}, by: {"key", "command", "proposal"}]
SavedType == [state: States, by: {"key", "command", "proposal"}]
RedoType == [of: AnswerType, id: Nat, fresh: BOOLEAN]

LinkRow ==
  [server: Servers, tool: Tools, device: Devices, diagnosis: Nat,
   reservation: {"reserved", "used", "released"},
   outcome: {"pending", "succeeded", "failed", "inconclusive", "not_executed"},
   saved: SavedType, command: BOOLEAN, proposal: BOOLEAN, redo: RedoType,
   feedback: {"none", "succeeded", "failed", "inconclusive"},
   followup: BOOLEAN, overtaken: BOOLEAN]

ActionRow == [state: States, flying: BOOLEAN, failedAt: Nat]

JobRow == [state: {"due", "failed", "done"}, attempts: Nat]

RunType ==
  [status: {"queued", "running", "completed", "failed"}, late: BOOLEAN,
   limit: Nat \ {0}, reads: Nat, offered: SUBSET (Servers \X Tools)]

CallType ==
  [at: {"none", "diagnosing", "acting", "answered", "redoing", "redone"}, of: Nat,
   device: Devices \cup {NoDevice}, answer: AnswerType, step: Nat]

AskType == [at: {"idle", "saving"}, of: Nat, answer: AnswerType]

AboutLink == call.at \in {"acting", "answered", "redoing", "redone"}

LedgerTypeOK ==
  /\ run \in RunType
  /\ trusted \in [Devices -> Nat]
  /\ call \in CallType
  /\ ledger \in Seq(LinkRow) /\ action \in Seq(ActionRow) /\ job \in Seq(JobRow)
  /\ Len(action) = Len(ledger) /\ Len(job) = Len(ledger)
  /\ traces \in Seq(Devices)
  /\ tracker \in AskType
  /\ age \in {"new", "old", "past"}
  /\ call.at = "diagnosing" => call.device \in Devices
  /\ AboutLink => call.of \in Links
  /\ tracker.at = "saving" => tracker.of \in Links

-----------------------------------------------------------------------------
(* The catalogue.                                                           *)

\* A tool in use that a refresh has read as disabled was enabled since.
RacedInv ==
  \A s \in Servers, t \in Tools :
    /\ refresh.of = s /\ refresh.rows[t].policy = "disabled"
    /\ tool[s][t].policy # "disabled"
    => <<s, t>> \in raced

-----------------------------------------------------------------------------
(* The answers.                                                             *)

\* An answer is about an action that has been what the answer tells: a final
\* one is what the action is, an open one what it was.
Tells(answer, act) ==
  /\ answer.state # "absent"
  /\ answer.state = "refused" => act.state = "absent" /\ ~act.flying
  /\ answer.state = "proposed" => act.state # "absent"
  /\ answer.state = "queued" => HasCommand(act.state)
  /\ answer.state \in {"succeeded", "failed", "unclear", "rejected"} => act.state = answer.state

\* The worker only gets definite answers, and its job is due until it is done.
AnswersInv ==
  /\ call.at = "answered" => Tells(call.answer, action[call.of])
  /\ tracker.at = "saving" =>
       /\ Tells(tracker.answer, action[tracker.of])
       /\ tracker.answer.state \notin {"refused", "error"}
       /\ job[tracker.of].state = "due"

-----------------------------------------------------------------------------
(* The rows.                                                                *)

Reaches(act) == act.flying \/ act.state \notin {"absent", "rejected"}

\* What a row says of its action.
RowOf(row, act) ==
  /\ act.flying => act.state = "absent"
  /\ row.saved = NoAnswer \/ Tells(row.saved, act)
  /\ row.reservation = "released" => ~Reaches(act)
  /\ row.outcome = "not_executed" => row.reservation = "released"
  /\ row.outcome \in {"succeeded", "failed"} =>
       act.state = row.outcome /\ row.saved.state = row.outcome
  /\ row.feedback \in {"succeeded", "failed"} => act.state = row.feedback

RowsInv == \A i \in Links : RowOf(ledger[i], action[i])

HeldInv == Cardinality(Held) <= run.limit

-----------------------------------------------------------------------------
(* The diagnoses.                                                           *)

\* Diagnosis n was made of device d.
DiagnosisOf(n, d) == n \in DOMAIN traces /\ traces[n] = d

\* A failure lies between the diagnosis the repair went by and the one made
\* because of it.
FailuresInv ==
  \A i \in Links :
    /\ action[i].state = "failed" =>
         ledger[i].diagnosis <= action[i].failedAt /\ action[i].failedAt <= Len(traces)
    /\ ledger[i].redo.id # 0 =>
         /\ action[i].state = "failed"
         /\ ledger[i].redo.id > action[i].failedAt
         /\ DiagnosisOf(ledger[i].redo.id, ledger[i].device)

DiagnosesInv ==
  /\ \A d \in Devices : trusted[d] # 0 => DiagnosisOf(trusted[d], d)
  /\ call.at \in {"redoing", "redone"} => action[call.of].state = "failed"
  /\ call.at = "redone" =>
       /\ call.step > action[call.of].failedAt
       /\ DiagnosisOf(call.step, ledger[call.of].device)

-----------------------------------------------------------------------------
(* The tracking.                                                            *)

\* The end of an action is in its row.
Learned(row, act) ==
  /\ Final(act.state) /\ row.saved.state = act.state
  /\ row.outcome = IF act.state = "rejected" THEN "not_executed" ELSE act.state

\* An older answer was written over the last one: the action is not asked again
\* but by the agent, who then hears the last one.
Overtaken(i) ==
  /\ ledger[i].overtaken /\ Final(action[i].state) /\ ~Final(ledger[i].saved.state)
  /\ call.at = "answered" /\ call.of = i => Final(call.answer.state)

\* Until its end is in the row an action is tracked, or its tracking was given up.
Tracked(i) ==
  \/ job[i].state \in {"due", "failed"} \/ age = "past"
  \/ ledger[i].reservation = "released"
  \/ Learned(ledger[i], action[i])
  \/ Overtaken(i)

TracksInv == \A i \in Links : Tracked(i)

-----------------------------------------------------------------------------
\* What the administrator and the refreshes know of the tools.
CatalogueInv == CatalogueTypeOK /\ RacedInv /\ EnabledWasVetted

\* Everything the run, the worker and the service know of the repairs of a run
\* at one moment.
RepairInv ==
  AnswersInv /\ RowsInv /\ HeldInv /\ FailuresInv /\ DiagnosesInv /\ RepairsFollowFailures
  /\ TracksInv
=============================================================================

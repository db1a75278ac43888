------------------------- MODULE RepairLedgerProofs -------------------------
(***************************************************************************)
(* RepairInv is an invariant of RepairLedger, for any catalogue, any       *)
(* number of repairs, devices and diagnoses and any limits; the safety     *)
(* properties of the repairs of a run follow from it.                      *)
(***************************************************************************)
EXTENDS RepairInvariant, SequenceTheorems, FiniteSetTheorems, WellFoundedInduction, TLAPS

-----------------------------------------------------------------------------
(* The catalogue: an administrator's policy and what a refresh makes of it. *)

LEMMA InitCatalogue == Init => CatalogueInv
<1> SUFFICES ASSUME Init PROVE CatalogueInv
  OBVIOUS
<1>1. 0 \in Schemas /\ 1 \in Schemas
  BY SchemasAreNumbered DEF Schemas
<1>2. /\ \A s \in Servers, t \in Tools : tool[s][t] \in ToolRow
      /\ tool \in [Servers -> [Tools -> ToolRow]]
  BY <1>1 DEF Init, ToolRow, Usual, Policies
<1>3. vetted \in [Servers -> [Tools -> Schemas]]
  BY <1>2 DEF Init, ToolRow
<1>4. remote \in [Servers -> Listing]
  BY <1>1 DEF Init, Listing
<1>5. refresh.of \notin Servers
      /\ refresh = [of |-> refresh.of, told |-> refresh.told, rows |-> refresh.rows]
  BY NoServerIsNoServer DEF Init
<1>6. CatalogueTypeOK
  BY <1>2, <1>3, <1>4, <1>5 DEF CatalogueTypeOK
<1>7. RacedInv
  BY <1>5 DEF RacedInv
<1>8. EnabledWasVetted
  BY DEF Init, EnabledWasVetted
<1> QED
  BY <1>6, <1>7, <1>8 DEF CatalogueInv

\* What a refresh makes of a row: nothing, a row that is disabled, or - if it
\* has read the row as disabled - a row that keeps the policy it has got since.
LEMMA RefreshedRow ==
  ASSUME CatalogueTypeOK, refresh.of \in Servers, NEW t \in Tools
  PROVE  /\ Refreshed(t) \in ToolRow
         /\ \/ Refreshed(t) = tool[refresh.of][t]
            \/ Refreshed(t).policy = "disabled"
            \/ /\ refresh.rows[t].policy = "disabled"
               /\ Refreshed(t).policy = tool[refresh.of][t].policy
<1>1. /\ tool[refresh.of][t] \in ToolRow /\ refresh.told[t] \in Schemas
      /\ refresh.rows[t] \in ToolRow
  BY DEF CatalogueTypeOK, Listing
<1> QED
  BY <1>1 DEF Refreshed, ToolRow, Policies

LEMMA AdministrationCatalogue == CatalogueInv /\ Administration => CatalogueInv'
<1> SUFFICES ASSUME CatalogueTypeOK, RacedInv, EnabledWasVetted, Administration
             PROVE  CatalogueTypeOK' /\ RacedInv' /\ EnabledWasVetted'
  BY DEF CatalogueInv
<1> USE DEF CatalogueTypeOK
<1>1. ASSUME UNCHANGED <<tool, refresh, vetted, raced>>, remote' \in [Servers -> Listing]
      PROVE  CatalogueTypeOK' /\ RacedInv' /\ EnabledWasVetted'
  BY <1>1 DEF RacedInv, EnabledWasVetted
<1>2. ASSUME NEW s \in Servers, NEW listing \in Listing, MoveServer(s, listing)
      PROVE  remote' \in [Servers -> Listing]
  BY <1>2 DEF MoveServer
<1>3. ASSUME NEW s \in Servers, NEW t \in Tools, NEW schema \in Schemas,
             RemoteChanges(s, t, schema)
      PROVE  remote' \in [Servers -> Listing]
  BY <1>3 DEF RemoteChanges, Listing
<1>4. ASSUME NEW s \in Servers, DeleteServer(s)
      PROVE  CatalogueTypeOK' /\ RacedInv' /\ EnabledWasVetted'
  <2>1. \A row \in ToolRow : [row EXCEPT !.policy = "disabled"] \in ToolRow
    BY DEF ToolRow, Policies
  <2>2. tool' \in [Servers -> [Tools -> ToolRow]]
    BY <1>4, <2>1 DEF DeleteServer
  <2>3. \A x \in Servers, t \in Tools :
          tool'[x][t] = tool[x][t] \/ tool'[x][t].policy = "disabled"
    BY <1>4 DEF DeleteServer, ToolRow
  <2> QED
    BY <1>4, <2>2, <2>3 DEF DeleteServer, RacedInv, EnabledWasVetted
<1>5. ASSUME NEW s \in Servers, RefreshRead(s)
      PROVE  CatalogueTypeOK' /\ RacedInv' /\ EnabledWasVetted'
  BY <1>5 DEF RefreshRead, RacedInv, EnabledWasVetted
<1>6. ASSUME RefreshWrite
      PROVE  CatalogueTypeOK' /\ RacedInv' /\ EnabledWasVetted'
  <2>1. /\ refresh.of \in Servers /\ refresh'.of = NoServer
        /\ refresh' = [of |-> refresh'.of, told |-> refresh'.told, rows |-> refresh'.rows]
        /\ UNCHANGED <<remote, vetted, raced>>
    BY <1>6 DEF RefreshWrite
  <2>2. \A x \in Servers, t \in Tools :
          tool'[x][t] = IF x = refresh.of THEN Refreshed(t) ELSE tool[x][t]
    BY <1>6 DEF RefreshWrite
  <2>3. tool' \in [Servers -> [Tools -> ToolRow]]
    BY <1>6, <2>1, RefreshedRow DEF RefreshWrite
  <2>4. EnabledWasVetted'
    <3> SUFFICES ASSUME NEW x \in Servers, NEW t \in Tools,
                        tool'[x][t].policy # "disabled", <<x, t>> \notin raced
                 PROVE  vetted[x][t] = tool'[x][t].schema
      BY <2>1 DEF EnabledWasVetted
    <3>1. CASE tool'[x][t] = tool[x][t]
      BY <3>1 DEF EnabledWasVetted
    <3>2. CASE tool'[x][t] # tool[x][t]
      <4>1. x = refresh.of /\ tool'[x][t] = Refreshed(t)
        BY <2>2, <3>2
      <4>2. refresh.rows[t].policy = "disabled" /\ tool[x][t].policy # "disabled"
        BY <2>1, <3>2, <4>1, RefreshedRow
      <4> QED
        BY <4>1, <4>2 DEF RacedInv
    <3> QED
      BY <3>1, <3>2
  <2> QED
    BY <2>1, <2>3, <2>4, NoServerIsNoServer DEF RacedInv
<1>7. ASSUME NEW s \in Servers, NEW t \in Tools, NEW policy \in Policies,
             UpdateTool(s, t, policy)
      PROVE  CatalogueTypeOK' /\ RacedInv' /\ EnabledWasVetted'
  <2>1. /\ UNCHANGED <<remote, refresh>>
        /\ tool' = [tool EXCEPT ![s][t].policy = policy]
        /\ IF policy = "disabled" THEN UNCHANGED <<vetted, raced>>
           ELSE /\ vetted' = [vetted EXCEPT ![s][t] = tool[s][t].schema]
                /\ raced' = IF refresh.of = s THEN raced \cup {<<s, t>>} ELSE raced \ {<<s, t>>}
    BY <1>7 DEF UpdateTool
  <2>2. tool' \in [Servers -> [Tools -> ToolRow]]
    <3>1. tool[s] \in [Tools -> ToolRow] /\ tool[s][t] \in ToolRow
      OBVIOUS
    <3>2. [tool[s][t] EXCEPT !.policy = policy] \in ToolRow
      BY <3>1 DEF ToolRow
    <3>3. [tool[s] EXCEPT ![t].policy = policy] \in [Tools -> ToolRow]
      BY <3>1, <3>2
    <3> QED
      BY <2>1, <3>3
  <2>3. vetted' \in [Servers -> [Tools -> Schemas]]
    <3>1. tool[s][t].schema \in Schemas
      BY DEF ToolRow
    <3>2. vetted' = vetted \/ vetted' = [vetted EXCEPT ![s][t] = tool[s][t].schema]
      BY <2>1, Zenon
    <3> DEFINE row == [vetted[s] EXCEPT ![t] = tool[s][t].schema]
    <3>3. row \in [Tools -> Schemas]
      BY <3>1
    <3>4. vetted' = vetted \/ vetted' = [vetted EXCEPT ![s] = row]
      BY <3>2
    <3> HIDE <2>1 DEF row
    <3> QED
      BY <3>3, <3>4
  <2>4. \A x \in Servers, u \in Tools : x # s \/ u # t =>
          /\ tool'[x][u] = tool[x][u] /\ vetted'[x][u] = vetted[x][u]
          /\ <<x, u>> \in raced' <=> <<x, u>> \in raced
    <3> SUFFICES ASSUME NEW x \in Servers, NEW u \in Tools, x # s \/ u # t
                 PROVE  /\ tool'[x][u] = tool[x][u] /\ vetted'[x][u] = vetted[x][u]
                        /\ <<x, u>> \in raced' <=> <<x, u>> \in raced
      OBVIOUS
    <3>1. tool'[x][u] = tool[x][u] /\ vetted'[x][u] = vetted[x][u]
      BY <2>1
    <3>2. <<x, u>> \in raced' <=> <<x, u>> \in raced
      <4>1. <<x, u>> # <<s, t>>
        OBVIOUS
      <4>2. raced' = raced \/ raced' = raced \cup {<<s, t>>} \/ raced' = raced \ {<<s, t>>}
        BY <2>1, Zenon
      <4> HIDE <2>1
      <4> QED
        BY <4>1, <4>2, Zenon
    <3> QED
      BY <3>1, <3>2
  <2>5. /\ tool'[s][t].policy = policy /\ tool'[s][t].schema = tool[s][t].schema
        /\ policy # "disabled" => /\ vetted'[s][t] = tool[s][t].schema
                                  /\ refresh.of = s => <<s, t>> \in raced'
    BY <2>1 DEF ToolRow
  <2>6. RacedInv'
    BY <2>1, <2>4, <2>5 DEF RacedInv
  <2>7. EnabledWasVetted'
    BY <2>1, <2>4, <2>5 DEF EnabledWasVetted
  <2> QED
    BY <2>1, <2>2, <2>3, <2>6, <2>7
<1> QED
  BY <1>1, <1>2, <1>3, <1>4, <1>5, <1>6, <1>7
     DEF Administration, CreateServer, UpdateServer, MoveServer, TestServer, RemoteChanges,
         RefreshFails

\* The catalogue only changes by the administrator and the refreshes.
LEMMA CatalogueStep == CatalogueInv /\ [Next]_vars => CatalogueInv'
<1>1. ASSUME CatalogueInv, UNCHANGED catalogue PROVE CatalogueInv'
  BY <1>1 DEF catalogue, CatalogueInv, CatalogueTypeOK, RacedInv, EnabledWasVetted
<1>2. Next => Administration \/ UNCHANGED catalogue
  BY DEF Next, Begin, Diagnose, DiagnosisReturns, Reserve, Arrive, RequestLost, Decide, Expire,
         Settle, Service, AskResult, Finish, RedoRead, RedoDiagnose, RedoStore, CallFails,
         RedoRefused, RunCompletes, RunStops, DeadlinePasses, LinksAge, TrackReleased, TrackAsk,
         TrackFails, TrackSave, Crash
<1> QED
  BY <1>1, <1>2, AdministrationCatalogue DEF vars

\* update_tool and test_server with the catalogue's refresh: whatever a server
\* comes to offer, a tool is only in use in the form an administrator enabled it
\* for, for any number of servers, tools and versions.
THEOREM VettedBeforeUse == Spec => []EnabledWasVetted
<1>1. CatalogueInv => EnabledWasVetted
  BY DEF CatalogueInv
<1> QED
  BY <1>1, InitCatalogue, CatalogueStep, PTL DEF Spec

-----------------------------------------------------------------------------
(* save_result: what an answer makes of a row.                              *)

LEMMA OutcomeIs ==
  ASSUME NEW state
  PROVE  /\ Outcome(state) \in {"pending", "succeeded", "failed", "inconclusive", "not_executed"}
         /\ Outcome(state) = "succeeded" <=> state = "succeeded"
         /\ Outcome(state) = "failed" <=> state = "failed"
         /\ Outcome(state) = "not_executed" <=> state = "rejected"
<1>1. CASE state \in {"succeeded", "failed", "unclear", "rejected"}
  BY <1>1 DEF Outcome
<1>2. CASE state \notin {"succeeded", "failed", "unclear", "rejected"}
  <2>1. Outcome(state) \in {"pending", "inconclusive"}
    BY <1>2 DEF Outcome
  <2> QED
    BY <1>2, <2>1
<1> QED
  BY <1>1, <1>2

\* A refusal gives the attempt back and changes nothing else.
LEMMA SavedRefusal ==
  ASSUME NEW row \in LinkRow, NEW answer \in AnswerType, answer.state = "refused"
  PROVE  Saved(row, answer) = [row EXCEPT !.reservation = "released", !.outcome = "not_executed"]
<1>1. row.saved.state # "refused"
  BY DEF LinkRow, SavedType, States
<1> QED
  BY <1>1 DEF Saved

\* Any other error changes nothing.
LEMMA SavedError ==
  ASSUME NEW row \in LinkRow, NEW answer \in AnswerType, answer.state = "error"
  PROVE  Saved(row, answer) = row
<1>1. row.saved.state # "error"
  BY DEF LinkRow, SavedType, States
<1> QED
  BY <1>1 DEF Saved

LEMMA SavedAgain ==
  ASSUME NEW row \in LinkRow, NEW answer \in AnswerType, answer = row.saved
  PROVE  Saved(row, answer) = Identified(row, answer)
<1>1. answer.state \notin {"refused", "error"}
  BY DEF LinkRow, SavedType, States
<1> QED
  BY <1>1 DEF Saved

LEMMA SavedNews ==
  ASSUME NEW row \in LinkRow, NEW answer \in AnswerType,
         answer.state \notin {"refused", "error"}, answer # row.saved
  PROVE  Saved(row, answer) = Resolved(row, answer)
  BY DEF Saved

\* What no answer changes in a row.
SameRepair(new, row) ==
  /\ new.server = row.server /\ new.device = row.device /\ new.tool = row.tool
  /\ new.diagnosis = row.diagnosis /\ new.redo = row.redo

LEMMA IdentifiedRow ==
  ASSUME NEW row \in LinkRow, NEW answer \in AnswerType
  PROVE  /\ Identified(row, answer) \in LinkRow
         /\ SameRepair(Identified(row, answer), row)
         /\ Identified(row, answer).reservation =
              IF HasCommand(answer.state) THEN "used" ELSE row.reservation
         /\ Identified(row, answer).outcome = row.outcome
         /\ Identified(row, answer).saved = row.saved
         /\ Identified(row, answer).feedback = row.feedback
         /\ Identified(row, answer).overtaken = row.overtaken
<1> DEFINE command == row.command \/ HasCommand(answer.state)
           proposal == row.proposal \/ (row.tool = ProposeTool /\ answer.by # "command")
           reservation == IF HasCommand(answer.state) THEN "used" ELSE row.reservation
<1>1. command \in BOOLEAN /\ proposal \in BOOLEAN
  BY DEF LinkRow, HasCommand
<1>2. reservation \in {"reserved", "used", "released"}
  BY DEF LinkRow
<1>3. Identified(row, answer) =
        [row EXCEPT !.command = command, !.reservation = reservation, !.proposal = proposal]
  BY DEF Identified
<1> HIDE DEF command, proposal, reservation
<1>4. /\ Identified(row, answer) \in LinkRow
      /\ SameRepair(Identified(row, answer), row)
      /\ Identified(row, answer).reservation = reservation
      /\ Identified(row, answer).outcome = row.outcome
      /\ Identified(row, answer).saved = row.saved
      /\ Identified(row, answer).feedback = row.feedback
      /\ Identified(row, answer).overtaken = row.overtaken
  BY <1>1, <1>2, <1>3 DEF LinkRow, SameRepair
<1> QED
  BY <1>4 DEF reservation

LEMMA ResolvedRow ==
  ASSUME NEW row \in LinkRow, NEW answer \in SavedType, run.status \in {"queued", "running",
         "completed", "failed"}
  PROVE  /\ Resolved(row, answer) \in LinkRow
         /\ SameRepair(Resolved(row, answer), row)
         /\ Resolved(row, answer).reservation =
              IF answer.state = "rejected" THEN "released"
              ELSE IF HasCommand(answer.state) THEN "used" ELSE row.reservation
         /\ Resolved(row, answer).outcome = Outcome(answer.state)
         /\ Resolved(row, answer).saved = answer
         /\ Resolved(row, answer).feedback \in {row.feedback, Feedback(row, Outcome(answer.state))}
         /\ Resolved(row, answer).overtaken = (Final(row.saved.state) /\ ~Final(answer.state))
<1> DEFINE outcome == Outcome(answer.state)
           known == Identified(row, answer)
           reservation == IF outcome = "not_executed" THEN "released" ELSE known.reservation
           feedback == IF known.command THEN Feedback(row, outcome) ELSE known.feedback
           followup == known.followup \/ (outcome = "failed" /\ ~Live)
           overtaken == Final(row.saved.state) /\ ~Final(answer.state)
<1>1. answer \in AnswerType
  BY DEF SavedType, AnswerType
<1>2. /\ known \in LinkRow /\ SameRepair(known, row) /\ known.feedback = row.feedback
      /\ known.reservation = IF HasCommand(answer.state) THEN "used" ELSE row.reservation
  BY <1>1, IdentifiedRow
<1>3. outcome \in {"pending", "succeeded", "failed", "inconclusive", "not_executed"}
      /\ (outcome = "not_executed" <=> answer.state = "rejected")
  BY OutcomeIs
<1>4. Resolved(row, answer) =
        [known EXCEPT !.reservation = reservation, !.saved = answer, !.outcome = outcome,
                      !.feedback = feedback, !.followup = followup, !.overtaken = overtaken]
  BY DEF Resolved
<1>5. reservation \in {"reserved", "used", "released"}
      /\ reservation = IF answer.state = "rejected" THEN "released"
                       ELSE IF HasCommand(answer.state) THEN "used" ELSE row.reservation
  <2> HIDE DEF outcome, known
  <2> QED
    BY <1>2, <1>3 DEF LinkRow
<1>6. Feedback(row, outcome) \in {"none", "succeeded", "failed", "inconclusive"}
  BY <1>3 DEF Feedback, LinkRow
<1>7. feedback \in {"none", "succeeded", "failed", "inconclusive"}
      /\ feedback \in {row.feedback, Feedback(row, outcome)}
  <2> HIDE DEF outcome, known
  <2> QED
    BY <1>2, <1>6 DEF LinkRow
<1>8. followup \in BOOLEAN /\ overtaken \in BOOLEAN
  <2> HIDE DEF outcome, known
  <2> QED
    BY <1>2 DEF LinkRow, Live, Final
<1> HIDE DEF outcome, known, reservation, feedback, followup, overtaken
<1>9. Resolved(row, answer) \in LinkRow
  BY <1>2, <1>3, <1>4, <1>5, <1>7, <1>8 DEF LinkRow
<1>10. SameRepair(Resolved(row, answer), row)
  <2>1. SameRepair(Resolved(row, answer), known)
    BY <1>2, <1>4 DEF LinkRow, SameRepair
  <2> QED
    BY <1>2, <2>1 DEF SameRepair
<1>11. /\ Resolved(row, answer).reservation = reservation
       /\ Resolved(row, answer).outcome = outcome
       /\ Resolved(row, answer).saved = answer
       /\ Resolved(row, answer).feedback = feedback
       /\ Resolved(row, answer).overtaken = overtaken
  BY <1>2, <1>4 DEF LinkRow
<1> QED
  BY <1>5, <1>7, <1>9, <1>10, <1>11 DEF outcome, overtaken

LEMMA SavedRow ==
  ASSUME LedgerTypeOK, NEW row \in LinkRow, NEW answer \in AnswerType
  PROVE  Saved(row, answer) \in LinkRow /\ SameRepair(Saved(row, answer), row)
<1>1. CASE answer.state = "refused"
  <2>1. Saved(row, answer) =
          [row EXCEPT !.reservation = "released", !.outcome = "not_executed"]
    BY <1>1, SavedRefusal
  <2>2. Saved(row, answer) \in LinkRow
    BY <2>1 DEF LinkRow
  <2> QED
    BY <2>1, <2>2 DEF LinkRow, SameRepair
<1>2. CASE answer.state = "error"
  BY <1>2, SavedError DEF SameRepair
<1>3. CASE answer = row.saved
  BY <1>3, SavedAgain, IdentifiedRow
<1>4. CASE answer.state \notin {"refused", "error"} /\ answer # row.saved
  <2>1. answer \in SavedType
    BY <1>4 DEF AnswerType, SavedType
  <2> QED
    BY <1>4, <2>1, SavedNews, ResolvedRow DEF LedgerTypeOK, RunType
<1> QED
  BY <1>1, <1>2, <1>3, <1>4

-----------------------------------------------------------------------------
(* Types.                                                                   *)

LEMMA Values ==
  /\ NoAnswer \in AnswerType /\ NoAnswer \in SavedType
  /\ NoRedo \in RedoType
  /\ NoCall \in CallType /\ NoCall.at = "none"
  /\ Asking \in AskType /\ Asking.at = "idle"
  /\ Requested \in ActionRow
<1>1. NoAnswer \in AnswerType /\ NoAnswer \in SavedType
  BY DEF NoAnswer, Answer, AnswerType, SavedType, States
<1>2. Requested \in ActionRow
  BY DEF Requested, ActionRow, States
<1> QED
  BY <1>1, <1>2 DEF NoRedo, RedoType, NoCall, CallType, Asking, AskType

LEMMA SeqFacts ==
  ASSUME NEW S, NEW q \in Seq(S)
  PROVE  /\ Len(q) \in Nat /\ DOMAIN q = 1..Len(q)
         /\ \A i \in 1..Len(q) : q[i] \in S
  OBVIOUS

\* The rows of link i.
LEMMA LinkTypes ==
  ASSUME LedgerTypeOK
  PROVE  /\ Len(ledger) \in Nat /\ Links = 1..Len(ledger)
         /\ DOMAIN action = Links /\ DOMAIN job = Links
         /\ DOMAIN traces = 1..Len(traces) /\ Len(traces) \in Nat
         /\ \A i \in Links :
              /\ ledger[i] \in LinkRow /\ action[i] \in ActionRow /\ job[i] \in JobRow
              /\ ledger[i].device \in Devices /\ ledger[i].server \in Servers
              /\ ledger[i].diagnosis \in Nat /\ action[i].failedAt \in Nat
              /\ ledger[i].redo \in RedoType /\ ledger[i].redo.id \in Nat
         /\ \A n \in DOMAIN traces : traces[n] \in Devices
<1>1. /\ Len(ledger) \in Nat /\ Links = 1..Len(ledger)
      /\ DOMAIN action = Links /\ DOMAIN job = Links
      /\ DOMAIN traces = 1..Len(traces) /\ Len(traces) \in Nat
      /\ \A n \in DOMAIN traces : traces[n] \in Devices
  BY SeqFacts DEF LedgerTypeOK, Links
<1>2. \A i \in Links :
        /\ ledger[i] \in LinkRow /\ action[i] \in ActionRow /\ job[i] \in JobRow
  BY <1>1, SeqFacts DEF LedgerTypeOK
<1>3. \A i \in Links :
        /\ ledger[i].device \in Devices /\ ledger[i].server \in Servers
        /\ ledger[i].diagnosis \in Nat /\ action[i].failedAt \in Nat
        /\ ledger[i].redo \in RedoType /\ ledger[i].redo.id \in Nat
  BY <1>2 DEF LinkRow, ActionRow, RedoType
<1> QED
  BY <1>1, <1>2, <1>3

\* One element of a sequence that is replaced.
LEMMA SeqReplace ==
  ASSUME NEW S, NEW q \in Seq(S), NEW i \in 1..Len(q), NEW e \in S,
         NEW r, r = [q EXCEPT ![i] = e]
  PROVE  /\ r \in Seq(S) /\ Len(r) = Len(q) /\ DOMAIN r = DOMAIN q
         /\ r[i] = e
         /\ \A j \in 1..Len(q) : j # i => r[j] = q[j]
  BY ExceptSeq, SeqFacts

LEMMA InitTypes == Init => LedgerTypeOK
<1> SUFFICES ASSUME Init PROVE LedgerTypeOK
  OBVIOUS
<1>1. run \in RunType
  <2>1. quota.limit \in Nat \ {0}
    BY LimitsArePositive DEF Init
  <2> QED
    BY <2>1 DEF Init, RunType
<1>2. /\ ledger \in Seq(LinkRow) /\ action \in Seq(ActionRow) /\ job \in Seq(JobRow)
      /\ traces \in Seq(Devices) /\ Len(action) = Len(ledger) /\ Len(job) = Len(ledger)
  BY EmptySeq DEF Init
<1>3. call \in CallType /\ call.at = "none" /\ tracker \in AskType /\ tracker.at = "idle"
  BY Values DEF Init
<1>4. trusted \in [Devices -> Nat] /\ age = "new"
  BY DEF Init
<1> QED
  BY <1>1, <1>2, <1>3, <1>4 DEF LedgerTypeOK, AboutLink

\* Steps that neither add nor change a link or a diagnosis.
LEMMA QuietTypes ==
  ASSUME LedgerTypeOK, UNCHANGED <<ledger, action, job, traces>>,
         run' \in RunType, trusted' \in [Devices -> Nat], age' \in {"new", "old", "past"},
         call' \in CallType, tracker' \in AskType,
         call'.at = "diagnosing" => call'.device \in Devices,
         AboutLink' => call'.of \in Links,
         tracker'.at = "saving" => tracker'.of \in Links
  PROVE  LedgerTypeOK'
  BY DEF LedgerTypeOK, Links

\* Values that a counter of a record may take.
LEMMA CounterTypes ==
  /\ \A r \in RunType, n \in Nat :
       [r EXCEPT !.reads = n] \in RunType /\ [r EXCEPT !.reads = n].limit = r.limit
  /\ \A c \in CallType, n \in Nat :
       /\ [c EXCEPT !.step = n] \in CallType
       /\ [c EXCEPT !.step = n].at = c.at /\ [c EXCEPT !.step = n].of = c.of
       /\ [c EXCEPT !.step = n].answer = c.answer
<1>1. ASSUME NEW r \in RunType, NEW n \in Nat
      PROVE  [r EXCEPT !.reads = n] \in RunType /\ [r EXCEPT !.reads = n].limit = r.limit
  BY DEF RunType
<1>2. ASSUME NEW c \in CallType, NEW n \in Nat
      PROVE  /\ [c EXCEPT !.step = n] \in CallType
             /\ [c EXCEPT !.step = n].at = c.at /\ [c EXCEPT !.step = n].of = c.of
             /\ [c EXCEPT !.step = n].answer = c.answer
  BY DEF CallType
<1> QED
  BY <1>1, <1>2

\* The parts of the record of a call, and of what is asked.
LEMMA CallFields ==
  ASSUME LedgerTypeOK
  PROVE  /\ call \in CallType /\ call.answer \in AnswerType /\ call.of \in Nat /\ call.step \in Nat
         /\ tracker.answer \in AnswerType
         /\ run \in RunType /\ run.reads \in Nat
  BY DEF LedgerTypeOK, CallType, AskType, RunType

LEMMA RunTypes ==
  ASSUME LedgerTypeOK,
         \/ Begin \/ RunCompletes \/ RunStops \/ DeadlinePasses \/ LinksAge
  PROVE  LedgerTypeOK'
<1> USE DEF LedgerTypeOK
<1>1. CASE Begin
  <2>1. Offered \subseteq Servers \X Tools
    BY DEF Offered
  <2>2. run' \in RunType
    BY <1>1, <2>1 DEF Begin, RunType
  <2> QED
    BY <1>1, <2>2, QuietTypes DEF Begin, AboutLink, Links
<1>2. CASE RunCompletes \/ DeadlinePasses
  <2>1. run' \in RunType
    BY <1>2 DEF RunCompletes, DeadlinePasses, RunType
  <2> QED
    BY <1>2, <2>1, QuietTypes DEF RunCompletes, DeadlinePasses, AboutLink, Links
<1>3. CASE RunStops
  <2>1. run' \in RunType
    BY <1>3 DEF RunStops, RunType
  <2> QED
    BY <1>3, <2>1, QuietTypes, Values DEF RunStops, AboutLink, Links
<1>4. CASE LinksAge
  BY <1>4, QuietTypes DEF LinksAge, AboutLink, Links
<1> QED
  BY <1>1, <1>2, <1>3, <1>4

LEMMA AgentTypes ==
  ASSUME LedgerTypeOK,
         \/ \E d \in Devices : Diagnose(d)
         \/ \E i \in Links, by \in {"command", "proposal"} : AskResult(i, by)
         \/ RedoRead \/ CallFails \/ RedoRefused
  PROVE  LedgerTypeOK'
<1> USE DEF LedgerTypeOK
<1>1. ASSUME NEW d \in Devices, Diagnose(d) PROVE LedgerTypeOK'
  <2>1. call' \in CallType /\ call'.at = "diagnosing" /\ call'.device = d
    BY <1>1, Values DEF Diagnose, CallType
  <2>2. trusted' \in [Devices -> Nat]
    BY <1>1 DEF Diagnose
  <2> QED
    BY <1>1, <2>1, <2>2, QuietTypes DEF Diagnose, AboutLink, Links
<1>2. ASSUME NEW i \in Links, NEW by \in {"command", "proposal"}, AskResult(i, by)
      PROVE  LedgerTypeOK'
  <2>1. Answer(action[i].state, by) \in AnswerType /\ i \in Nat
    BY LinkTypes DEF Answer, AnswerType, ActionRow
  <2>2. call' \in CallType /\ call'.at = "answered" /\ call'.of = i
    BY <1>2, <2>1, Values DEF AskResult, CallType
  <2> QED
    BY <1>2, <2>2, QuietTypes DEF AskResult, AboutLink, Links
<1>3. CASE RedoRead
  <2>0. /\ run.reads + 1 \in Nat /\ run' = [run EXCEPT !.reads = run.reads + 1]
        /\ call.step + 1 \in Nat /\ call' = [call EXCEPT !.step = call.step + 1]
    BY <1>3, CallFields DEF RedoRead
  <2>1. run' \in RunType
    BY <2>0, CounterTypes
  <2>2. call' \in CallType /\ call'.at = call.at /\ call'.of = call.of
    BY <2>0, CounterTypes
  <2>3. call.at = "redoing"
    BY <1>3 DEF RedoRead, CanRead
  <2> QED
    BY <1>3, <2>1, <2>2, <2>3, QuietTypes DEF RedoRead, AboutLink, Links
<1>4. CASE CallFails \/ RedoRefused
  BY <1>4, Values, QuietTypes DEF CallFails, RedoRefused, AboutLink, Links
<1> QED
  BY <1>1, <1>2, <1>3, <1>4

\* The diagnoses there are stay when one is added.
LEMMA DiagnosisAdded ==
  ASSUME LedgerTypeOK, NEW d \in Devices, traces' = Append(traces, d)
  PROVE  /\ traces' \in Seq(Devices) /\ Len(traces') = Len(traces) + 1
         /\ DOMAIN traces' = 1..(Len(traces) + 1)
         /\ \A n \in DOMAIN traces : traces'[n] = traces[n]
         /\ traces'[Len(traces')] = d
  BY AppendProperties, SeqFacts DEF LedgerTypeOK

LEMMA DiagnosisTypes ==
  ASSUME LedgerTypeOK, DiagnosisReturns \/ RedoDiagnose
  PROVE  LedgerTypeOK'
<1>1. CASE DiagnosisReturns
  <2>1. call.device \in Devices /\ traces' = Append(traces, call.device)
    BY <1>1 DEF DiagnosisReturns, LedgerTypeOK
  <2>2. traces' \in Seq(Devices) /\ Len(traces') \in Nat
    BY <2>1, DiagnosisAdded, LinkTypes
  <2>3. trusted' \in [Devices -> Nat]
    BY <1>1, <2>2 DEF DiagnosisReturns, LedgerTypeOK
  <2> QED
    BY <1>1, <2>2, <2>3, Values DEF DiagnosisReturns, LedgerTypeOK, AboutLink, Links
<1>2. CASE RedoDiagnose
  <2>1. call.of \in Links /\ traces' = Append(traces, ledger[call.of].device)
    BY <1>2 DEF RedoDiagnose, CanRead, LedgerTypeOK, AboutLink
  <2>2. traces' \in Seq(Devices) /\ Len(traces') \in Nat
    BY <2>1, DiagnosisAdded, LinkTypes
  <2>3. call' \in CallType /\ call'.at = "redone" /\ call'.of = call.of
    BY <1>2, <2>2, CallFields DEF RedoDiagnose, CallType
  <2>4. run' \in RunType
    <3>1. run \in RunType /\ run.reads + 1 \in Nat /\ run' = [run EXCEPT !.reads = run.reads + 1]
      BY <1>2, CallFields DEF RedoDiagnose
    <3> QED
      BY <3>1, CounterTypes
  <2> QED
    BY <1>2, <2>1, <2>2, <2>3, <2>4 DEF RedoDiagnose, LedgerTypeOK, AboutLink, Links
<1> QED
  BY <1>1, <1>2

LEMMA ReserveAppends ==
  ASSUME LedgerTypeOK, NEW s \in Servers, NEW t \in Tools, NEW d \in Devices, Reserve(s, t, d)
  PROVE  /\ Reserved(s, t, d) \in LinkRow
         /\ ledger' \in Seq(LinkRow) /\ action' \in Seq(ActionRow) /\ job' \in Seq(JobRow)
         /\ Len(ledger') = Len(ledger) + 1 /\ Len(action') = Len(ledger) + 1
         /\ Len(job') = Len(ledger) + 1
         /\ Links' = 1..(Len(ledger) + 1)
         /\ \A i \in Links : ledger'[i] = ledger[i] /\ action'[i] = action[i] /\ job'[i] = job[i]
         /\ ledger'[Len(ledger) + 1] = Reserved(s, t, d)
         /\ action'[Len(ledger) + 1] = Requested
         /\ job'[Len(ledger) + 1].state = "due"
         /\ call' = [NoCall EXCEPT !.at = "acting", !.of = Len(ledger) + 1]
<1>1. trusted[d] \in Nat
  BY DEF LedgerTypeOK
<1>2. Reserved(s, t, d) \in LinkRow
  BY <1>1, Values DEF Reserved, LinkRow
<1> DEFINE due == [state |-> "due", attempts |-> 0]
<1>3. due \in JobRow
  BY DEF JobRow
<1>4. /\ ledger \in Seq(LinkRow) /\ action \in Seq(ActionRow) /\ job \in Seq(JobRow)
      /\ Len(action) = Len(ledger) /\ Len(job) = Len(ledger)
  BY DEF LedgerTypeOK
<1>5. /\ ledger' = Append(ledger, Reserved(s, t, d)) /\ action' = Append(action, Requested)
      /\ job' = Append(job, due)
      /\ call' = [NoCall EXCEPT !.at = "acting", !.of = Len(ledger')]
  BY DEF Reserve
<1>6. /\ ledger' \in Seq(LinkRow) /\ Len(ledger') = Len(ledger) + 1
      /\ \A i \in 1..Len(ledger) : ledger'[i] = ledger[i]
      /\ ledger'[Len(ledger) + 1] = Reserved(s, t, d)
  BY <1>2, <1>4, <1>5, AppendProperties
<1>7. /\ action' \in Seq(ActionRow) /\ Len(action') = Len(action) + 1
      /\ \A i \in 1..Len(action) : action'[i] = action[i]
      /\ action'[Len(action) + 1] = Requested
  BY <1>4, <1>5, AppendProperties, Values
<1>8. /\ job' \in Seq(JobRow) /\ Len(job') = Len(job) + 1
      /\ \A i \in 1..Len(job) : job'[i] = job[i]
      /\ job'[Len(job) + 1] = due
  <2> HIDE DEF due
  <2> QED
    BY <1>3, <1>4, <1>5, AppendProperties
<1>9. Links' = 1..(Len(ledger) + 1)
  BY <1>6, SeqFacts DEF Links
<1> QED
  BY <1>2, <1>4, <1>5, <1>6, <1>7, <1>8, <1>9, LinkTypes

LEMMA ReserveTypes ==
  ASSUME LedgerTypeOK, NEW s \in Servers, NEW t \in Tools, NEW d \in Devices, Reserve(s, t, d)
  PROVE  LedgerTypeOK'
<1>1. Len(ledger) + 1 \in Nat
  BY LinkTypes
<1>2. call' \in CallType /\ call'.at = "acting" /\ call'.of = Len(ledger) + 1
  BY <1>1, ReserveAppends, Values DEF CallType
<1>3. Len(ledger) + 1 \in Links' /\ Links \subseteq Links'
  BY <1>1, ReserveAppends, LinkTypes
<1>4. UNCHANGED <<run, trusted, traces, tracker, age>>
  BY DEF Reserve
<1> QED
  BY <1>2, <1>3, <1>4, ReserveAppends DEF LedgerTypeOK, AboutLink

\* What the service does to an action: nothing, or one of the steps of its
\* life, in which a failure is dated by the diagnoses made before it.
ActionStep(i) ==
  \/ action'[i] = action[i]
  \/ /\ traces' = traces
     /\ \/ /\ action[i].flying /\ ~action'[i].flying
           /\ action'[i].state \in {action[i].state, "absent", "proposed", "queued"}
        \/ /\ action'[i].flying = action[i].flying
           /\ \/ action[i].state = "proposed" /\ action'[i].state \in {"queued", "rejected"}
              \/ /\ action[i].state = "queued"
                 /\ action'[i].state \in {"succeeded", "failed", "unclear"}
                 /\ action'[i].state = "failed" => action'[i].failedAt = Len(traces)

ServiceStep ==
  \/ \E i \in Links, reply \in {"created", "refused", "error"} : Arrive(i, reply)
  \/ \E i \in Links : RequestLost(i)
  \/ \E i \in Links, decision \in {"approved", "rejected"} : Decide(i, decision)
  \/ \E i \in Links : Expire(i)
  \/ \E i \in Links, state \in {"succeeded", "failed", "unclear"} : Settle(i, state)

LEMMA CreatedIs == \A t : Created(t) \in {"proposed", "queued"}
  BY DEF Created

LEMMA ServiceAction ==
  ASSUME LedgerTypeOK, ServiceStep
  PROVE  /\ action' \in Seq(ActionRow) /\ Len(action') = Len(action)
         /\ \A i \in Links : ActionStep(i)
<1>1. ASSUME NEW i \in Links, NEW row \in ActionRow, action' = [action EXCEPT ![i] = row]
      PROVE  /\ action' \in Seq(ActionRow) /\ Len(action') = Len(action)
             /\ action'[i] = row /\ \A j \in Links : j # i => action'[j] = action[j]
  <2>1. i \in 1..Len(action) /\ Links = 1..Len(action)
    BY LinkTypes DEF LedgerTypeOK
  <2> QED
    BY <1>1, <2>1, SeqReplace DEF LedgerTypeOK
<1>2. ASSUME NEW i \in Links, NEW row \in ActionRow, action' = [action EXCEPT ![i] = row],
             traces' = traces,
             \/ /\ action[i].flying /\ ~row.flying
                /\ row.state \in {action[i].state, "absent", "proposed", "queued"}
             \/ /\ row.flying = action[i].flying
                /\ \/ action[i].state = "proposed" /\ row.state \in {"queued", "rejected"}
                   \/ /\ action[i].state = "queued"
                      /\ row.state \in {"succeeded", "failed", "unclear"}
                      /\ row.state = "failed" => row.failedAt = Len(traces)
      PROVE  /\ action' \in Seq(ActionRow) /\ Len(action') = Len(action)
             /\ \A j \in Links : ActionStep(j)
  BY <1>1, <1>2 DEF ActionStep
<1>3. ASSUME NEW i \in Links, NEW reply \in {"created", "refused", "error"}, Arrive(i, reply)
      PROVE  /\ action' \in Seq(ActionRow) /\ Len(action') = Len(action)
             /\ \A j \in Links : ActionStep(j)
  <2> DEFINE state == IF reply = "created" THEN Created(ledger[i].tool) ELSE "absent"
             row == [action[i] EXCEPT !.flying = FALSE, !.state = state]
  <2>1. state \in {"absent", "proposed", "queued"}
    BY CreatedIs
  <2>2. action' = [action EXCEPT ![i] = row] /\ action[i].flying /\ traces' = traces
    BY <1>3 DEF Arrive
  <2> HIDE DEF state
  <2>3. row \in ActionRow /\ ~row.flying /\ row.state = state
    BY <2>1, LinkTypes DEF ActionRow, States
  <2> HIDE DEF row
  <2> QED
    BY <1>2, <2>1, <2>2, <2>3
<1>4. ASSUME NEW i \in Links, RequestLost(i)
      PROVE  /\ action' \in Seq(ActionRow) /\ Len(action') = Len(action)
             /\ \A j \in Links : ActionStep(j)
  <2> DEFINE row == [action[i] EXCEPT !.flying = FALSE]
  <2>1. action' = [action EXCEPT ![i] = row] /\ action[i].flying /\ traces' = traces
    BY <1>4 DEF RequestLost
  <2>2. row \in ActionRow /\ ~row.flying /\ row.state = action[i].state
    BY LinkTypes DEF ActionRow
  <2> HIDE DEF row
  <2>3. \A j \in Links : j # i => action'[j] = action[j]
    BY <1>1, <2>1, <2>2
  <2> QED
    BY <1>1, <2>1, <2>2, <2>3 DEF ActionStep
<1>5. ASSUME NEW i \in Links, NEW from \in {"proposed", "queued"}, NEW state \in States,
             Service(i, from, state),
             \/ from = "proposed" /\ state \in {"queued", "rejected"}
             \/ from = "queued" /\ state \in {"succeeded", "failed", "unclear"}
      PROVE  /\ action' \in Seq(ActionRow) /\ Len(action') = Len(action)
             /\ \A j \in Links : ActionStep(j)
  <2> DEFINE at == IF state = "failed" THEN Len(traces) ELSE 0
             row == [action[i] EXCEPT !.state = state, !.failedAt = at]
  <2>1. action' = [action EXCEPT ![i] = row] /\ action[i].state = from /\ traces' = traces
    BY <1>5 DEF Service, Becomes
  <2>2. at \in Nat /\ (state = "failed" => at = Len(traces))
    BY LinkTypes
  <2> HIDE DEF at
  <2>3. /\ row \in ActionRow /\ row.flying = action[i].flying /\ row.state = state
        /\ row.failedAt = at
    BY <2>2, LinkTypes DEF ActionRow
  <2> HIDE DEF row
  <2> QED
    BY <1>2, <1>5, <2>1, <2>2, <2>3
<1>6. ASSUME NEW i \in Links, NEW decision \in {"approved", "rejected"}, Decide(i, decision)
      PROVE  /\ action' \in Seq(ActionRow) /\ Len(action') = Len(action)
             /\ \A j \in Links : ActionStep(j)
  <2> DEFINE state == IF decision = "approved" THEN "queued" ELSE "rejected"
  <2>1. Service(i, "proposed", state) /\ state \in {"queued", "rejected"} /\ state \in States
    BY <1>6 DEF Decide, States
  <2> QED
    BY <1>5, <2>1
<1> QED
  BY <1>3, <1>4, <1>5, <1>6 DEF ServiceStep, Expire, Settle, States

LEMMA ServiceTypes == ASSUME LedgerTypeOK, ServiceStep PROVE LedgerTypeOK'
<1>1. /\ UNCHANGED <<ledger, job, traces, run, trusted, tracker, age>>
      /\ \/ call' = call
         \/ \E i \in Links, state \in {"proposed", "queued", "refused", "error"} :
              /\ call.at = "acting" /\ call.of = i
              /\ call' = [call EXCEPT !.at = "answered", !.answer = Answer(state, "key")]
  BY CreatedIs DEF ServiceStep, Arrive, RequestLost, Decide, Expire, Settle, Service
<1>2. /\ call' \in CallType
      /\ call' # call => call'.at = "answered" /\ call'.of \in Links
  <2>1. \A state \in {"proposed", "queued", "refused", "error"} :
          Answer(state, "key") \in AnswerType
    BY DEF Answer, AnswerType, States
  <2> QED
    BY <1>1, <2>1, CallFields DEF CallType
<1> QED
  BY <1>1, <1>2, ServiceAction DEF LedgerTypeOK, AboutLink, Links

\* The rows a write leaves: one is new, the others are as they were.
LEMMA Written ==
  ASSUME LedgerTypeOK, NEW i \in Links, NEW row \in LinkRow, Write(i, row)
  PROVE  /\ ledger' \in Seq(LinkRow) /\ Len(ledger') = Len(ledger) /\ Links' = Links
         /\ ledger'[i] = row /\ \A j \in Links : j # i => ledger'[j] = ledger[j]
<1>1. i \in 1..Len(ledger) /\ Links = 1..Len(ledger) /\ ledger \in Seq(LinkRow)
  BY LinkTypes DEF LedgerTypeOK
<1> QED
  BY <1>1, SeqReplace DEF Write, Links

\* The end of a call: the row is found or not; then the run is done with it,
\* takes the diagnosis there is, or begins another one.
LEMMA FinishIs ==
  ASSUME LedgerTypeOK, Finish,
         NEW i, i = call.of, NEW row, row = Saved(ledger[i], call.answer)
  PROVE  /\ i \in Links /\ row \in LinkRow /\ SameRepair(row, ledger[i])
         /\ UNCHANGED <<catalogue, run, action, traces, job, tracker, age, quota>>
         /\ \/ call' = NoCall /\ UNCHANGED <<ledger, trusted>>
            \/ call' = NoCall /\ Write(i, row) /\ UNCHANGED trusted
            \/ /\ call' = NoCall /\ Write(i, row) /\ row.redo.id # 0
               /\ trusted' = [trusted EXCEPT ![row.device] = row.redo.id]
            \/ /\ row.outcome = "failed" /\ Write(i, [row EXCEPT !.redo = NoRedo])
               /\ call' = [call EXCEPT !.at = "redoing", !.answer = row.saved]
               /\ UNCHANGED trusted
<1>1. i \in Links
  BY DEF Finish, LedgerTypeOK, AboutLink
<1>2. row \in LinkRow /\ SameRepair(row, ledger[i])
  BY <1>1, LinkTypes, CallFields, SavedRow
<1> QED
  BY <1>1, <1>2 DEF Finish, AfterSave, Redone

\* Dropping or storing the second diagnosis changes nothing else in a row.
LEMMA RedoRow ==
  ASSUME NEW row \in LinkRow, NEW redo \in RedoType, NEW new, new = [row EXCEPT !.redo = redo]
  PROVE  /\ new \in LinkRow /\ new.redo = redo
         /\ new.server = row.server /\ new.device = row.device /\ new.tool = row.tool
         /\ new.diagnosis = row.diagnosis /\ new.reservation = row.reservation
         /\ new.outcome = row.outcome /\ new.saved = row.saved
         /\ new.feedback = row.feedback /\ new.overtaken = row.overtaken
  BY DEF LinkRow

LEMMA FinishTypes == ASSUME LedgerTypeOK, Finish PROVE LedgerTypeOK'
<1> DEFINE i == call.of
           row == Saved(ledger[i], call.answer)
           none == [row EXCEPT !.redo = NoRedo]
<1>1. /\ i \in Links /\ row \in LinkRow /\ SameRepair(row, ledger[i])
      /\ UNCHANGED <<catalogue, run, action, traces, job, tracker, age, quota>>
      /\ \/ call' = NoCall /\ UNCHANGED <<ledger, trusted>>
         \/ call' = NoCall /\ Write(i, row) /\ UNCHANGED trusted
         \/ /\ call' = NoCall /\ Write(i, row) /\ row.redo.id # 0
            /\ trusted' = [trusted EXCEPT ![row.device] = row.redo.id]
         \/ /\ row.outcome = "failed" /\ Write(i, none)
            /\ call' = [call EXCEPT !.at = "redoing", !.answer = row.saved]
            /\ UNCHANGED trusted
  BY FinishIs
<1> HIDE DEF row
<1>2. none \in LinkRow
  BY <1>1, RedoRow, Values
<1>3. /\ row.device \in Devices /\ row.redo.id \in Nat /\ row.saved \in AnswerType
  BY <1>1 DEF LinkRow, RedoType, SavedType, AnswerType
<1> HIDE DEF none
<1>4. /\ ledger' \in Seq(LinkRow) /\ Len(ledger') = Len(ledger) /\ Links' = Links
  BY <1>1, <1>2, Written DEF LedgerTypeOK, Links
<1>5. trusted' \in [Devices -> Nat]
  BY <1>1, <1>3 DEF LedgerTypeOK
<1>6. call' \in CallType /\ (call' = NoCall \/ (call'.at = "redoing" /\ call'.of = i))
  <2>1. NoCall \in CallType
    BY Values
  <2>2. [call EXCEPT !.at = "redoing", !.answer = row.saved] \in CallType
        /\ [call EXCEPT !.at = "redoing", !.answer = row.saved].at = "redoing"
        /\ [call EXCEPT !.at = "redoing", !.answer = row.saved].of = i
    BY <1>3, CallFields DEF CallType
  <2> QED
    BY <1>1, <2>1, <2>2
<1> QED
  BY <1>1, <1>4, <1>5, <1>6, Values DEF LedgerTypeOK, AboutLink

LEMMA RedoStoreIs ==
  ASSUME LedgerTypeOK, NEW fresh \in BOOLEAN, RedoStore(fresh),
         NEW i, i = call.of,
         NEW redo, redo = [of |-> call.answer, id |-> call.step, fresh |-> fresh]
  PROVE  /\ i \in Links /\ redo \in RedoType /\ call.at = "redone" /\ call' = NoCall
         /\ UNCHANGED <<catalogue, run, action, traces, job, tracker, age, quota>>
         /\ \/ UNCHANGED <<ledger, trusted>>
            \/ /\ Write(i, [ledger[i] EXCEPT !.redo = redo])
               /\ trusted' = [trusted EXCEPT ![ledger[i].device] = call.step]
<1>1. i \in Links
  BY DEF RedoStore, LedgerTypeOK, AboutLink
<1>2. redo \in RedoType
  BY CallFields DEF RedoType
<1>3. Write(i, [ledger[i] EXCEPT !.redo = redo])
        <=> ledger' = [ledger EXCEPT ![i].redo = redo]
  BY DEF Write
<1> QED
  BY <1>1, <1>2, <1>3 DEF RedoStore

LEMMA RedoStoreTypes ==
  ASSUME LedgerTypeOK, NEW fresh \in BOOLEAN, RedoStore(fresh)
  PROVE  LedgerTypeOK'
<1> DEFINE i == call.of
           redo == [of |-> call.answer, id |-> call.step, fresh |-> fresh]
           row == [ledger[i] EXCEPT !.redo = redo]
<1>1. /\ i \in Links /\ redo \in RedoType /\ call' = NoCall
      /\ UNCHANGED <<catalogue, run, action, traces, job, tracker, age, quota>>
      /\ \/ UNCHANGED <<ledger, trusted>>
         \/ /\ Write(i, row)
            /\ trusted' = [trusted EXCEPT ![ledger[i].device] = call.step]
  BY RedoStoreIs
<1> HIDE DEF redo
<1>2. row \in LinkRow
  BY <1>1, LinkTypes, RedoRow
<1> HIDE DEF row
<1>3. /\ ledger' \in Seq(LinkRow) /\ Len(ledger') = Len(ledger) /\ Links' = Links
  BY <1>1, <1>2, Written DEF LedgerTypeOK, Links
<1>4. trusted' \in [Devices -> Nat]
  BY <1>1, LinkTypes, CallFields DEF LedgerTypeOK
<1> QED
  BY <1>1, <1>3, <1>4, Values DEF LedgerTypeOK, AboutLink

\* The job of one link is written.
LEMMA JobWritten ==
  ASSUME LedgerTypeOK, NEW i \in Links, NEW row \in JobRow, job' = [job EXCEPT ![i] = row]
  PROVE  /\ job' \in Seq(JobRow) /\ Len(job') = Len(job)
         /\ job'[i] = row /\ \A j \in Links : j # i => job'[j] = job[j]
<1>1. i \in 1..Len(job) /\ Links = 1..Len(job) /\ job \in Seq(JobRow)
  BY LinkTypes DEF LedgerTypeOK
<1> QED
  BY <1>1, SeqReplace

\* A failed attempt, an end and a new job are the ways a job is written.
LEMMA JobIs ==
  ASSUME LedgerTypeOK, NEW i \in Links
  PROVE  /\ FailedAttempt(i) => /\ job' \in Seq(JobRow) /\ Len(job') = Len(job)
                                /\ job'[i].state \in {"due", "failed"}
                                /\ \A j \in Links : j # i => job'[j] = job[j]
         /\ Done(i) => /\ job' \in Seq(JobRow) /\ Len(job') = Len(job)
                       /\ \A j \in Links : j # i => job'[j] = job[j]
         /\ \A n \in Nat : job' = [job EXCEPT ![i] = [state |-> "due", attempts |-> n]] =>
              /\ job' \in Seq(JobRow) /\ Len(job') = Len(job)
              /\ job'[i].state = "due"
              /\ \A j \in Links : j # i => job'[j] = job[j]
<1>1. Attempted(i) \in Nat
  BY LinkTypes DEF Attempted, JobRow
<1>2. ASSUME FailedAttempt(i)
      PROVE  /\ job' \in Seq(JobRow) /\ Len(job') = Len(job)
             /\ job'[i].state \in {"due", "failed"}
             /\ \A j \in Links : j # i => job'[j] = job[j]
  <2> DEFINE state == IF Attempted(i) >= MaxAttempts THEN "failed" ELSE "due"
             row == [state |-> state, attempts |-> Attempted(i)]
  <2>1. state \in {"due", "failed"} /\ job' = [job EXCEPT ![i] = row]
    BY <1>2 DEF FailedAttempt
  <2> HIDE DEF state
  <2>2. row \in JobRow /\ row.state = state
    BY <1>1, <2>1 DEF JobRow
  <2> HIDE DEF row
  <2> QED
    BY <2>1, <2>2, JobWritten
<1>3. ASSUME Done(i)
      PROVE  /\ job' \in Seq(JobRow) /\ Len(job') = Len(job)
             /\ \A j \in Links : j # i => job'[j] = job[j]
  <2> DEFINE row == [job[i] EXCEPT !.state = "done"]
  <2>1. row \in JobRow /\ job' = [job EXCEPT ![i] = row]
    BY <1>3, LinkTypes DEF JobRow, Done
  <2> HIDE DEF row
  <2> QED
    BY <2>1, JobWritten
<1>4. ASSUME NEW n \in Nat, job' = [job EXCEPT ![i] = [state |-> "due", attempts |-> n]]
      PROVE  /\ job' \in Seq(JobRow) /\ Len(job') = Len(job)
             /\ job'[i].state = "due"
             /\ \A j \in Links : j # i => job'[j] = job[j]
  <2> DEFINE row == [state |-> "due", attempts |-> n]
  <2>1. row \in JobRow /\ row.state = "due"
    BY DEF JobRow
  <2> HIDE DEF row
  <2> QED
    BY <1>4, <2>1, JobWritten DEF row
<1> QED
  BY <1>2, <1>3, <1>4

TrackStep ==
  \/ \E i \in Links : TrackReleased(i) \/ TrackAsk(i) \/ TrackFails(i)
  \/ Crash

LEMMA QueryByIs == \A i : QueryBy(i) \in {"command", "proposal", "key"}
  BY DEF QueryBy

LEMMA TrackTypes == ASSUME LedgerTypeOK, TrackStep PROVE LedgerTypeOK'
<1>1. ASSUME NEW i \in Links, TrackReleased(i) \/ TrackFails(i) PROVE LedgerTypeOK'
  <2>1. job' \in Seq(JobRow) /\ Len(job') = Len(job)
    BY <1>1, JobIs DEF TrackReleased, TrackFails
  <2> QED
    BY <1>1, <2>1 DEF TrackReleased, TrackFails, LedgerTypeOK, AboutLink, Links
<1>2. ASSUME NEW i \in Links, TrackAsk(i) PROVE LedgerTypeOK'
  <2>1. UNCHANGED <<run, trusted, call, ledger, action, traces, age>>
    BY <1>2 DEF TrackAsk
  <2>2. CASE tracker' = tracker
    <3>1. job' \in Seq(JobRow) /\ Len(job') = Len(job)
      BY <1>2, <2>2, JobIs, Values DEF TrackAsk, CanTrack, LedgerTypeOK
    <3> QED
      BY <2>1, <2>2, <3>1 DEF LedgerTypeOK, AboutLink, Links
  <2>3. CASE tracker' # tracker
    <3> DEFINE answer == Answer(action[i].state, QueryBy(i))
    <3>1. tracker' = [at |-> "saving", of |-> i, answer |-> answer] /\ job' = job
      BY <1>2, <2>3 DEF TrackAsk
    <3>2. answer \in AnswerType /\ i \in Nat
      BY LinkTypes, QueryByIs DEF Answer, AnswerType, ActionRow
    <3> HIDE DEF answer
    <3>3. tracker' \in AskType /\ tracker'.of = i
      BY <3>1, <3>2 DEF AskType
    <3> QED
      BY <2>1, <3>1, <3>3 DEF LedgerTypeOK, AboutLink, Links
  <2> QED
    BY <2>2, <2>3
<1>3. CASE Crash
  <2>1. tracker.of \in Links /\ Attempted(tracker.of) \in Nat
    BY <1>3, LinkTypes DEF Crash, LedgerTypeOK, Attempted, JobRow
  <2>2. job' \in Seq(JobRow) /\ Len(job') = Len(job)
    BY <1>3, <2>1, JobIs DEF Crash
  <2>3. run' \in RunType
    <3> DEFINE status == IF Live THEN "failed" ELSE run.status
    <3>1. status \in {"queued", "running", "completed", "failed"}
      BY CallFields DEF RunType
    <3>2. run' = [run EXCEPT !.status = status]
      BY <1>3 DEF Crash
    <3> HIDE DEF status
    <3> QED
      BY <3>1, <3>2, CallFields DEF RunType
  <2> QED
    BY <1>3, <2>2, <2>3, Values DEF Crash, LedgerTypeOK, AboutLink, Links
<1> QED
  BY <1>1, <1>2, <1>3 DEF TrackStep

\* What is saved by the worker, and when it asks again.
LEMMA TrackSaveIs ==
  ASSUME LedgerTypeOK, TrackSave,
         NEW i, i = tracker.of, NEW row, row = Saved(ledger[i], tracker.answer)
  PROVE  /\ i \in Links /\ row \in LinkRow /\ SameRepair(row, ledger[i])
         /\ tracker.at = "saving" /\ tracker' = Asking
         /\ UNCHANGED <<catalogue, run, trusted, call, action, traces, age, quota>>
         /\ Write(i, row) /\ ledger'[i] = row
         /\ job' \in Seq(JobRow) /\ Len(job') = Len(job)
         /\ \A j \in Links : j # i => job'[j] = job[j]
         /\ job'[i].state = "due" \/ row.outcome \notin {"pending", "inconclusive"} \/ age = "past"
<1>1. i \in Links /\ tracker.at = "saving"
  BY DEF TrackSave, LedgerTypeOK
<1>2. row \in LinkRow /\ SameRepair(row, ledger[i])
  BY <1>1, LinkTypes, CallFields, SavedRow
<1>3. Write(i, row) /\ ledger'[i] = row
  <2>1. Write(i, row)
    BY DEF TrackSave
  <2> QED
    BY <1>1, <1>2, <2>1, Written
<1>4. /\ tracker' = Asking
      /\ UNCHANGED <<catalogue, run, trusted, call, action, traces, age, quota>>
      /\ IF row.outcome \in {"pending", "inconclusive"} /\ age # "past"
         THEN job' = [job EXCEPT ![i] = [state |-> "due", attempts |-> 0]]
         ELSE Done(i)
  BY <1>3 DEF TrackSave
<1>5. /\ job' \in Seq(JobRow) /\ Len(job') = Len(job)
      /\ \A j \in Links : j # i => job'[j] = job[j]
      /\ job'[i].state = "due" \/ row.outcome \notin {"pending", "inconclusive"} \/ age = "past"
  BY <1>1, <1>4, JobIs
<1> QED
  BY <1>1, <1>2, <1>3, <1>4, <1>5

LEMMA TrackSaveTypes == ASSUME LedgerTypeOK, TrackSave PROVE LedgerTypeOK'
<1> DEFINE i == tracker.of
           row == Saved(ledger[i], tracker.answer)
<1>1. /\ i \in Links /\ row \in LinkRow /\ tracker' = Asking /\ Write(i, row)
      /\ UNCHANGED <<catalogue, run, trusted, call, action, traces, age, quota>>
      /\ job' \in Seq(JobRow) /\ Len(job') = Len(job)
  BY TrackSaveIs
<1> HIDE DEF row
<1>2. /\ ledger' \in Seq(LinkRow) /\ Len(ledger') = Len(ledger) /\ Links' = Links
  BY <1>1, Written
<1> QED
  BY <1>1, <1>2, Values DEF LedgerTypeOK, AboutLink

LEMMA NextTypes == LedgerTypeOK /\ [Next]_vars => LedgerTypeOK'
<1> SUFFICES ASSUME LedgerTypeOK, [Next]_vars PROVE LedgerTypeOK'
  OBVIOUS
<1>1. CASE UNCHANGED ledgerVars
  BY <1>1 DEF ledgerVars, LedgerTypeOK, AboutLink, Links
<1>2. CASE UNCHANGED vars
  BY <1>1, <1>2 DEF vars
<1> QED
  BY <1>1, <1>2, RunTypes, AgentTypes, DiagnosisTypes, ReserveTypes, ServiceTypes, FinishTypes,
     RedoStoreTypes, TrackTypes, TrackSaveTypes DEF Next, ServiceStep, TrackStep

\* Every row, answer, job and diagnosis is a legal one, about a link there is,
\* however many repairs a run makes.
THEOREM LedgerTypesHold == Spec => []LedgerTypeOK
  BY InitTypes, NextTypes, PTL DEF Spec

-----------------------------------------------------------------------------
(* The service, and what is known of its actions.                           *)

\* Of all that is known of an action nothing is undone by the service: what an
\* answer has told stays true, and what cannot reach the device any more, or
\* has failed, stays as it is.
LEMMA ActionMoves ==
  ASSUME LedgerTypeOK, NEW i \in Links, ActionStep(i), action[i].flying => action[i].state = "absent"
  PROVE  /\ action'[i].flying => action'[i].state = "absent"
         /\ ~action[i].flying /\ action[i].state \notin {"proposed", "queued"} =>
              action'[i] = action[i]
         /\ \A answer : Tells(answer, action[i]) => Tells(answer, action'[i])
         /\ action'[i].state = "failed" /\ action[i].state # "failed" =>
              action'[i].failedAt = Len(traces)
<1>1. action'[i].flying => action'[i].state = "absent"
  BY DEF ActionStep
<1>2. ~action[i].flying /\ action[i].state \notin {"proposed", "queued"} => action'[i] = action[i]
  BY DEF ActionStep
<1>3. ASSUME NEW answer, Tells(answer, action[i]) PROVE Tells(answer, action'[i])
  BY <1>3 DEF ActionStep, Tells, HasCommand
<1>4. action'[i].state = "failed" /\ action[i].state # "failed" => action'[i].failedAt = Len(traces)
  BY DEF ActionStep
<1> QED
  BY <1>1, <1>2, <1>3, <1>4

\* What a row says stays true of the action.
LEMMA RowStays ==
  ASSUME LedgerTypeOK, NEW i \in Links, ActionStep(i), NEW row, RowOf(row, action[i])
  PROVE  RowOf(row, action'[i])
<1>1. action[i].flying => action[i].state = "absent"
  BY DEF RowOf
<1>2. /\ action'[i].flying => action'[i].state = "absent"
      /\ ~action[i].flying /\ action[i].state \notin {"proposed", "queued"} =>
           action'[i] = action[i]
      /\ \A answer : Tells(answer, action[i]) => Tells(answer, action'[i])
  BY <1>1, ActionMoves
<1>3. row.saved = NoAnswer \/ Tells(row.saved, action'[i])
  BY <1>2 DEF RowOf
<1>4. /\ row.reservation = "released" => ~Reaches(action'[i])
      /\ row.outcome \in {"succeeded", "failed"} =>
           action'[i].state = row.outcome /\ row.saved.state = row.outcome
      /\ row.feedback \in {"succeeded", "failed"} => action'[i].state = row.feedback
  BY <1>1, <1>2 DEF RowOf, Reaches
<1> QED
  BY <1>2, <1>3, <1>4 DEF RowOf

\* An answer that is true of the action leaves a row that is.  An attempt that
\* was given back stays so, and credit or blame stands.
LEMMA SavedIsTrue ==
  ASSUME LedgerTypeOK, NEW row \in LinkRow, NEW answer \in AnswerType, NEW act \in ActionRow,
         RowOf(row, act), Tells(answer, act), NEW new, new = Saved(row, answer)
  PROVE  /\ RowOf(new, act)
         /\ row.reservation = "released" => new.reservation = "released"
         /\ row.feedback \in {"succeeded", "failed"} => new.feedback = row.feedback
<1>1. CASE answer.state = "refused"
  <2>1. new = [row EXCEPT !.reservation = "released", !.outcome = "not_executed"]
    BY <1>1, SavedRefusal
  <2>2. /\ new.saved = row.saved /\ new.feedback = row.feedback /\ new.outcome = "not_executed"
        /\ new.reservation = "released"
    BY <2>1 DEF LinkRow
  <2> QED
    BY <1>1, <2>2 DEF RowOf, Tells, Reaches
<1>2. CASE answer.state = "error"
  BY <1>2, SavedError
<1>3. HasCommand(answer.state) => Reaches(act)
  BY DEF Tells, HasCommand, Reaches
<1>4. CASE answer = row.saved
  <2>1. /\ new.reservation = IF HasCommand(answer.state) THEN "used" ELSE row.reservation
        /\ new.outcome = row.outcome /\ new.saved = row.saved /\ new.feedback = row.feedback
    BY <1>4, SavedAgain, IdentifiedRow
  <2> QED
    BY <1>3, <2>1 DEF RowOf
<1>5. CASE answer.state \notin {"refused", "error"} /\ answer # row.saved
  <2>1. answer \in SavedType /\ new = Resolved(row, answer)
    BY <1>5, SavedNews DEF AnswerType, SavedType
  <2>2. /\ new.reservation = IF answer.state = "rejected" THEN "released"
                             ELSE IF HasCommand(answer.state) THEN "used" ELSE row.reservation
        /\ new.outcome = Outcome(answer.state) /\ new.saved = answer
        /\ new.feedback \in {row.feedback, Feedback(row, Outcome(answer.state))}
    BY <2>1, ResolvedRow DEF LedgerTypeOK, RunType
  <2>3. /\ new.outcome = "succeeded" <=> answer.state = "succeeded"
        /\ new.outcome = "failed" <=> answer.state = "failed"
        /\ new.outcome = "not_executed" <=> answer.state = "rejected"
    BY <2>2, OutcomeIs
  <2>4. /\ new.feedback \in {row.feedback, new.outcome}
        /\ row.feedback \in {"succeeded", "failed"} => new.feedback = row.feedback
    BY <2>2 DEF Feedback
  <2>5. new.reservation = "released" => ~Reaches(act)
    BY <1>3, <2>2 DEF RowOf, Tells, Reaches
  <2>6. new.outcome \in {"succeeded", "failed"} => act.state = new.outcome
    BY <2>3 DEF Tells
  <2>7. new.feedback \in {"succeeded", "failed"} => act.state = new.feedback
    BY <2>4, <2>6 DEF RowOf
  <2>8. row.reservation = "released" => new.reservation = "released"
    BY <1>3, <2>2 DEF RowOf
  <2> QED
    BY <2>2, <2>3, <2>4, <2>5, <2>6, <2>7, <2>8 DEF RowOf
<1> QED
  BY <1>1, <1>2, <1>4, <1>5

-----------------------------------------------------------------------------
(* A step that reserves no new repair.                                      *)

\* What such a step does to a repair: the service moves the action on, and the
\* row is one that was true of the action before.
LinkStep(i) ==
  /\ ActionStep(i)
  /\ ledger'[i].server = ledger[i].server /\ ledger'[i].device = ledger[i].device
  /\ ledger'[i].diagnosis = ledger[i].diagnosis
  /\ RowOf(ledger'[i], action[i])
  /\ ledger[i].reservation = "released" => ledger'[i].reservation = "released"
  /\ ledger[i].feedback \in {"succeeded", "failed"} => ledger'[i].feedback = ledger[i].feedback
  /\ \/ ledger'[i].redo.id \in {ledger[i].redo.id, 0}
     \/ /\ action[i].state = "failed" /\ ledger'[i].redo.id > action[i].failedAt
        /\ DiagnosisOf(ledger'[i].redo.id, ledger[i].device)

LinksStep == Links' = Links /\ \A i \in Links : LinkStep(i)

TracesStep == traces' = traces \/ \E d \in Devices : traces' = Append(traces, d)

LEMMA TracesGrow ==
  ASSUME LedgerTypeOK, TracesStep
  PROVE  /\ Len(traces) \in Nat /\ Len(traces') \in Nat /\ Len(traces) <= Len(traces')
         /\ DOMAIN traces = 1..Len(traces) /\ DOMAIN traces' = 1..Len(traces')
         /\ \A n, d : DiagnosisOf(n, d) => n \in DOMAIN traces' /\ traces'[n] = d
<1>1. Len(traces) \in Nat /\ DOMAIN traces = 1..Len(traces)
  BY LinkTypes
<1>2. CASE traces' = traces
  BY <1>1, <1>2 DEF DiagnosisOf
<1>3. ASSUME NEW d \in Devices, traces' = Append(traces, d)
      PROVE  /\ Len(traces') = Len(traces) + 1 /\ DOMAIN traces' = 1..(Len(traces) + 1)
             /\ \A n \in DOMAIN traces : traces'[n] = traces[n]
  BY <1>3, DiagnosisAdded
<1>4. CASE traces' # traces
  BY <1>1, <1>3, <1>4 DEF TracesStep, DiagnosisOf
<1> QED
  BY <1>2, <1>4

LEMMA HeldIsFinite ==
  ASSUME LedgerTypeOK
  PROVE  IsFiniteSet(Links) /\ IsFiniteSet(Held) /\ Cardinality(Held) \in Nat /\ Held \subseteq Links
<1>1. IsFiniteSet(Links)
  BY LinkTypes, FS_Interval
<1>2. Held \subseteq Links
  BY DEF Held
<1> QED
  BY <1>1, <1>2, FS_Subset, FS_CardinalityType

\* A repair that is over - refused, rejected or failed - before another one of
\* the device.
Over(act) == ~act.flying /\ act.state \in {"absent", "rejected", "failed"}

LEMMA LinksStepRows ==
  ASSUME LedgerTypeOK, LedgerTypeOK', LinksStep, TracesStep, run'.limit = run.limit,
         RowsInv, HeldInv, FailuresInv, RepairsFollowFailures
  PROVE  RowsInv' /\ HeldInv' /\ FailuresInv' /\ RepairsFollowFailures'
<1>1. /\ Links' = Links
      /\ \A i \in Links : LinkStep(i) /\ RowOf(ledger[i], action[i])
      /\ \A i \in Links : action[i].flying => action[i].state = "absent"
  BY DEF LinksStep, RowsInv, RowOf
<1>2. RowsInv'
  <2>1. ASSUME NEW i \in Links PROVE RowOf(ledger'[i], action'[i])
    BY <1>1, RowStays DEF LinkStep
  <2> QED
    BY <1>1, <2>1 DEF RowsInv
<1>3. HeldInv'
  <2>1. Held' \subseteq Held
    BY <1>1 DEF Held, LinkStep
  <2>2. Cardinality(Held') \in Nat /\ Cardinality(Held') <= Cardinality(Held)
    BY <2>1, HeldIsFinite, FS_Subset, FS_CardinalityType
  <2>3. run.limit \in Nat
    BY CallFields DEF RunType
  <2> QED
    BY <2>2, <2>3, HeldIsFinite DEF HeldInv
<1>4. /\ Len(traces) \in Nat /\ Len(traces') \in Nat /\ Len(traces) <= Len(traces')
      /\ DOMAIN traces = 1..Len(traces) /\ DOMAIN traces' = 1..Len(traces')
      /\ \A n, d : DiagnosisOf(n, d) => n \in DOMAIN traces' /\ traces'[n] = d
  BY TracesGrow
<1>5. \A i \in Links : Over(action[i]) => action'[i] = action[i]
  BY <1>1, ActionMoves DEF LinkStep, Over
<1>6. FailuresInv'
  <2> SUFFICES ASSUME NEW i \in Links
               PROVE  /\ action'[i].state = "failed" =>
                           /\ ledger'[i].diagnosis <= action'[i].failedAt
                           /\ action'[i].failedAt <= Len(traces')
                      /\ ledger'[i].redo.id # 0 =>
                           /\ action'[i].state = "failed"
                           /\ ledger'[i].redo.id > action'[i].failedAt
                           /\ ledger'[i].redo.id \in DOMAIN traces'
                           /\ traces'[ledger'[i].redo.id] = ledger'[i].device
    BY <1>1 DEF FailuresInv, DiagnosisOf
  <2>1. /\ LinkStep(i) /\ ledger[i].diagnosis \in DOMAIN traces
        /\ ledger[i].diagnosis \in Nat /\ action[i].failedAt \in Nat
    BY <1>1, LinkTypes DEF RepairsFollowFailures
  <2>2. /\ action[i].state = "failed" =>
             ledger[i].diagnosis <= action[i].failedAt /\ action[i].failedAt <= Len(traces)
        /\ ledger[i].redo.id # 0 =>
             /\ action[i].state = "failed" /\ ledger[i].redo.id > action[i].failedAt
             /\ DiagnosisOf(ledger[i].redo.id, ledger[i].device)
    BY DEF FailuresInv
  <2>3. action[i].state = "failed" => action'[i] = action[i]
    BY <1>1, <1>5 DEF Over
  <2>4. action'[i].state = "failed" /\ action[i].state # "failed" =>
          action'[i].failedAt = Len(traces)
    BY <1>1, ActionMoves DEF LinkStep
  <2>5. action'[i].state = "failed" =>
          ledger'[i].diagnosis <= action'[i].failedAt /\ action'[i].failedAt <= Len(traces')
    <3>1. CASE action[i].state = "failed"
      BY <1>4, <2>1, <2>2, <2>3, <3>1 DEF LinkStep
    <3>2. CASE action[i].state # "failed"
      BY <1>4, <2>1, <2>4, <3>2 DEF LinkStep
    <3> QED
      BY <3>1, <3>2
  <2>6. ledger'[i].redo.id # 0 =>
          /\ action[i].state = "failed" /\ ledger'[i].redo.id > action[i].failedAt
          /\ DiagnosisOf(ledger'[i].redo.id, ledger[i].device)
    BY <2>1, <2>2 DEF LinkStep
  <2> QED
    BY <1>4, <2>1, <2>3, <2>5, <2>6 DEF LinkStep
<1>7. RepairsFollowFailures'
  <2> SUFFICES ASSUME NEW j \in Links
               PROVE  /\ ledger'[j].diagnosis \in DOMAIN traces'
                      /\ traces'[ledger'[j].diagnosis] = ledger'[j].device
                      /\ \A i \in 1..(j - 1) :
                           /\ ledger'[i].server = ledger'[j].server
                           /\ ledger'[i].device = ledger'[j].device
                           => /\ ~action'[i].flying
                              /\ action'[i].state \in {"absent", "rejected", "failed"}
                              /\ action'[i].state = "failed" =>
                                   ledger'[j].diagnosis > action'[i].failedAt
    BY <1>1 DEF RepairsFollowFailures, Same
  <2>1. DiagnosisOf(ledger[j].diagnosis, ledger[j].device) /\ LinkStep(j)
    BY <1>1 DEF RepairsFollowFailures, DiagnosisOf
  <2>2. ASSUME NEW i \in 1..(j - 1), ledger'[i].server = ledger'[j].server,
               ledger'[i].device = ledger'[j].device
        PROVE  /\ ~action'[i].flying
               /\ action'[i].state \in {"absent", "rejected", "failed"}
               /\ action'[i].state = "failed" => ledger'[j].diagnosis > action'[i].failedAt
    <3>1. i \in Links
      BY LinkTypes
    <3>2. LinkStep(i) /\ Same(i, j)
      BY <1>1, <2>1, <2>2, <3>1 DEF LinkStep, Same
    <3>3. /\ Over(action[i])
          /\ action[i].state = "failed" => ledger[j].diagnosis > action[i].failedAt
      BY <3>2 DEF RepairsFollowFailures, Over
    <3> QED
      BY <1>5, <2>1, <3>1, <3>3 DEF Over, LinkStep
  <2> QED
    BY <1>4, <2>1, <2>2 DEF LinkStep
<1> QED
  BY <1>2, <1>3, <1>6, <1>7

\* A step that writes no row.
LEMMA QuietLinks ==
  ASSUME LedgerTypeOK, RowsInv, UNCHANGED ledger, \A i \in Links : ActionStep(i)
  PROVE  LinksStep
  BY DEF LinksStep, LinkStep, RowsInv, Links

\* An end that is known stays known; an older answer is no final one.
LEMMA QuietTracks ==
  ASSUME LedgerTypeOK, RowsInv, TracksInv, UNCHANGED ledger, \A i \in Links : ActionStep(i),
         age = "past" => age' = "past",
         \A i \in Links : \/ job'[i] = job[i] \/ job'[i].state \in {"due", "failed"}
                          \/ ledger[i].reservation = "released",
         \/ call'.at # "answered" \/ call' = call
         \/ call'.of \in Links /\ (Final(action[call'.of].state) => Final(call'.answer.state))
  PROVE  TracksInv'
<1> SUFFICES ASSUME NEW i \in Links PROVE Tracked(i)'
  BY DEF TracksInv, Links
<1>1. Tracked(i)
  BY DEF TracksInv
<1>2. CASE \/ job'[i].state \in {"due", "failed"} \/ age' = "past"
           \/ ledger[i].reservation = "released"
  BY <1>2 DEF Tracked
<1>3. ASSUME Final(action[i].state) PROVE action'[i] = action[i]
  BY <1>3, ActionMoves DEF RowsInv, RowOf, Final
<1>4. CASE Learned(ledger[i], action[i])
  BY <1>3, <1>4 DEF Learned, Tracked
<1>5. CASE Overtaken(i)
  <2>1. action'[i] = action[i]
    BY <1>3, <1>5 DEF Overtaken
  <2>2. call'.at = "answered" /\ call'.of = i => Final(call'.answer.state)
    BY <1>5 DEF Overtaken
  <2>3. Overtaken(i)'
    BY <1>5, <2>1, <2>2 DEF Overtaken
  <2> QED
    BY <2>3 DEF Tracked
<1> QED
  BY <1>1, <1>2, <1>4, <1>5 DEF Tracked

\* What was answered stays true.
LEMMA QuietAnswers ==
  ASSUME LedgerTypeOK, RowsInv, AnswersInv, \A i \in Links : ActionStep(i),
         \/ call'.at # "answered" \/ call' = call \/ Tells(call'.answer, action'[call'.of]),
         \/ tracker'.at # "saving"
         \/ tracker' = tracker /\ job'[tracker.of].state = "due"
         \/ /\ Tells(tracker'.answer, action'[tracker'.of])
            /\ tracker'.answer.state \notin {"refused", "error"}
            /\ job'[tracker'.of].state = "due"
  PROVE  AnswersInv'
<1>1. ASSUME NEW i \in Links, NEW answer, Tells(answer, action[i]) PROVE Tells(answer, action'[i])
  BY <1>1, ActionMoves DEF RowsInv, RowOf
<1>2. /\ call.at = "answered" => call.of \in Links
      /\ tracker.at = "saving" => tracker.of \in Links
  BY DEF LedgerTypeOK, AboutLink
<1>3. call'.at = "answered" => Tells(call'.answer, action'[call'.of])
  BY <1>1, <1>2 DEF AnswersInv
<1>4. tracker'.at = "saving" =>
        /\ Tells(tracker'.answer, action'[tracker'.of])
        /\ tracker'.answer.state \notin {"refused", "error"}
        /\ job'[tracker'.of].state = "due"
  BY <1>1, <1>2 DEF AnswersInv
<1> QED
  BY <1>3, <1>4 DEF AnswersInv

\* The diagnoses a run trusts or is making.
LEMMA QuietDiagnoses ==
  ASSUME LedgerTypeOK, RowsInv, DiagnosesInv, LinksStep, TracesStep,
         \A d \in Devices : \/ trusted'[d] \in {0, trusted[d]} \/ DiagnosisOf(trusted'[d], d)
                            \/ trusted'[d] \in DOMAIN traces' /\ traces'[trusted'[d]] = d,
         \/ call'.at \notin {"redoing", "redone"} \/ call' = call
         \/ call'.at = "redoing" /\ call'.of \in Links /\ action[call'.of].state = "failed"
         \/ /\ call'.of \in Links /\ action[call'.of].state = "failed"
            /\ call'.step > action[call'.of].failedAt
            /\ call'.step \in DOMAIN traces' /\ traces'[call'.step] = ledger[call'.of].device
  PROVE  DiagnosesInv'
<1>1. \A n, d : DiagnosisOf(n, d) => n \in DOMAIN traces' /\ traces'[n] = d
  BY TracesGrow
<1>2. \A d \in Devices :
        trusted'[d] # 0 => trusted'[d] \in DOMAIN traces' /\ traces'[trusted'[d]] = d
  BY <1>1 DEF DiagnosesInv
<1>3. \A i \in Links : action[i].state = "failed" => action'[i] = action[i]
  BY ActionMoves DEF LinksStep, LinkStep, RowsInv, RowOf
<1>4. \A i \in Links : ledger'[i].device = ledger[i].device
  BY DEF LinksStep, LinkStep
<1>5. call.at \in {"redoing", "redone"} => call.of \in Links
  BY DEF LedgerTypeOK, AboutLink
<1>6. call'.at \in {"redoing", "redone"} => call'.of \in Links /\ action[call'.of].state = "failed"
  BY <1>5 DEF DiagnosesInv
<1>7. call'.at = "redone" =>
        /\ call'.step > action[call'.of].failedAt
        /\ call'.step \in DOMAIN traces' /\ traces'[call'.step] = ledger[call'.of].device
  BY <1>1, <1>5 DEF DiagnosesInv
<1> QED
  BY <1>2, <1>3, <1>4, <1>6, <1>7 DEF DiagnosesInv, DiagnosisOf

-----------------------------------------------------------------------------
(* The steps that reserve no repair, each in turn.                          *)

\* What is left to show of such a step: see LinksStepRows.
Keeps ==
  /\ LinksStep /\ TracesStep /\ run'.limit = run.limit
  /\ AnswersInv' /\ DiagnosesInv' /\ TracksInv'

LEMMA ActionsStay ==
  ASSUME UNCHANGED action
  PROVE  \A i \in Links : ActionStep(i)
  BY DEF ActionStep

LEMMA UnchangedKeeps ==
  ASSUME LedgerTypeOK, RepairInv, UNCHANGED ledgerVars
  PROVE  Keeps
<1> USE DEF ledgerVars
<1>1. LinksStep /\ TracesStep /\ \A i \in Links : ActionStep(i)
  BY ActionsStay, QuietLinks DEF RepairInv, TracesStep
<1>2. AnswersInv' /\ DiagnosesInv'
  BY DEF RepairInv, AnswersInv, DiagnosesInv, DiagnosisOf
<1>3. TracksInv'
  BY <1>1, QuietTracks DEF RepairInv
<1> QED
  BY <1>1, <1>2, <1>3 DEF Keeps

LEMMA RunKeeps ==
  ASSUME LedgerTypeOK, RepairInv,
         \/ Begin \/ RunCompletes \/ RunStops \/ DeadlinePasses \/ LinksAge
  PROVE  Keeps
<1>1. /\ UNCHANGED <<ledger, action, traces, job, tracker, trusted>>
      /\ call' \in {call, NoCall}
      /\ age = "past" => age' = "past"
  BY DEF Begin, RunCompletes, RunStops, DeadlinePasses, LinksAge
<1>2. run'.limit = run.limit
  BY CallFields DEF Begin, RunCompletes, RunStops, DeadlinePasses, LinksAge, RunType
<1>3. LinksStep /\ TracesStep /\ \A i \in Links : ActionStep(i)
  BY <1>1, ActionsStay, QuietLinks DEF RepairInv, TracesStep
<1>4. AnswersInv'
  BY <1>1, <1>3, Values, QuietAnswers DEF RepairInv, AnswersInv
<1>5. DiagnosesInv'
  BY <1>1, <1>3, Values, QuietDiagnoses DEF RepairInv
<1>6. TracksInv'
  BY <1>1, <1>3, Values, QuietTracks DEF RepairInv
<1> QED
  BY <1>2, <1>3, <1>4, <1>5, <1>6 DEF Keeps

\* An answer tells what the action is.
LEMMA AnswerTells ==
  ASSUME NEW act, NEW by, act.state \in States, act.state # "absent"
  PROVE  /\ Tells(Answer(act.state, by), act) /\ Answer(act.state, by).state = act.state
         /\ act.state \notin {"refused", "error"}
  BY DEF Tells, Answer, States, HasCommand

LEMMA LimitStays ==
  ASSUME LedgerTypeOK, run' = run \/ run' = [run EXCEPT !.reads = run.reads + 1]
  PROVE  run'.limit = run.limit
<1>1. run \in RunType /\ run.reads + 1 \in Nat
  BY CallFields
<1> QED
  BY <1>1, CounterTypes

LEMMA AgentKeeps ==
  ASSUME LedgerTypeOK, RepairInv,
         \/ \E d \in Devices : Diagnose(d)
         \/ \E i \in Links, by \in {"command", "proposal"} : AskResult(i, by)
         \/ RedoRead \/ CallFails \/ RedoRefused
  PROVE  Keeps
<1>1. /\ UNCHANGED <<ledger, action, traces, job, tracker, age>>
      /\ \A d \in Devices : trusted'[d] \in {0, trusted[d]}
  BY DEF Diagnose, AskResult, RedoRead, CallFails, RedoRefused, LedgerTypeOK
<1>2. run'.limit = run.limit
  BY LimitStays DEF Diagnose, AskResult, RedoRead, CallFails, RedoRefused
<1>3. LinksStep /\ TracesStep /\ \A i \in Links : ActionStep(i)
  BY <1>1, ActionsStay, QuietLinks DEF RepairInv, TracesStep
<1>4. \/ call'.at \notin {"answered", "redoing", "redone"}
      \/ call.at = "redoing" /\ call'.at = "redoing" /\ call'.of = call.of
      \/ \E i \in Links, by \in {"command", "proposal"} :
           /\ action[i].state # "absent"
           /\ call'.at = "answered" /\ call'.of = i /\ call'.answer = Answer(action[i].state, by)
  <2>1. CASE \E d \in Devices : Diagnose(d)
    BY <2>1 DEF Diagnose, NoCall
  <2>2. CASE CallFails \/ RedoRefused
    BY <2>2, Values DEF CallFails, RedoRefused
  <2>3. CASE RedoRead
    <3>1. call' = [call EXCEPT !.step = call.step + 1] /\ call.step + 1 \in Nat
          /\ call.at = "redoing"
      BY <2>3, CallFields DEF RedoRead, CanRead
    <3> QED
      BY <3>1, CallFields, CounterTypes
  <2>4. CASE \E i \in Links, by \in {"command", "proposal"} : AskResult(i, by)
    BY <2>4 DEF AskResult, NoCall
  <2> QED
    BY <2>1, <2>2, <2>3, <2>4
<1>5. \A i \in Links : action[i].state \in States
  BY LinkTypes DEF ActionRow
<1>6. AnswersInv'
  BY <1>1, <1>3, <1>4, <1>5, AnswerTells, QuietAnswers DEF RepairInv, AnswersInv
<1>7. DiagnosesInv'
  BY <1>1, <1>3, <1>4, QuietDiagnoses DEF RepairInv, DiagnosesInv, LedgerTypeOK, AboutLink
<1>8. TracksInv'
  BY <1>1, <1>3, <1>4, <1>5, AnswerTells, QuietTracks DEF RepairInv
<1> QED
  BY <1>2, <1>3, <1>6, <1>7, <1>8 DEF Keeps

LEMMA DiagnosisKeeps ==
  ASSUME LedgerTypeOK, RepairInv, DiagnosisReturns \/ RedoDiagnose
  PROVE  Keeps
<1>1. /\ UNCHANGED <<ledger, action, job, tracker, age>>
      /\ call'.at \notin {"answered", "redoing"}
      /\ run' = run \/ run' = [run EXCEPT !.reads = run.reads + 1]
  BY Values, CallFields DEF DiagnosisReturns, RedoDiagnose, CallType
<1>2. \A i \in Links : ActionStep(i)
  BY <1>1, ActionsStay
<1>3. LinksStep
  BY <1>1, <1>2, QuietLinks DEF RepairInv
<1>4. AnswersInv'
  BY <1>1, <1>2, QuietAnswers DEF RepairInv, AnswersInv
<1>5. TracksInv'
  BY <1>1, <1>2, QuietTracks DEF RepairInv
<1>6. CASE DiagnosisReturns
  <2>1. call.device \in Devices /\ traces' = Append(traces, call.device)
    BY <1>6 DEF DiagnosisReturns, LedgerTypeOK
  <2>2. /\ Len(traces') \in DOMAIN traces' /\ traces'[Len(traces')] = call.device
        /\ TracesStep
    <3> DEFINE d == call.device
    <3>1. d \in Devices /\ traces' = Append(traces, d)
      BY <2>1
    <3>2. TracesStep
      BY <3>1 DEF TracesStep
    <3> HIDE DEF d
    <3>3. /\ Len(traces') = Len(traces) + 1 /\ DOMAIN traces' = 1..(Len(traces) + 1)
          /\ traces'[Len(traces')] = d
      BY <3>1, DiagnosisAdded
    <3> QED
      BY <3>2, <3>3, LinkTypes DEF d
  <2>3. \A d \in Devices : \/ trusted'[d] = trusted[d]
                           \/ trusted'[d] \in DOMAIN traces' /\ traces'[trusted'[d]] = d
    BY <1>6, <2>2 DEF DiagnosisReturns, LedgerTypeOK
  <2>4. call'.at = "none"
    BY <1>6, Values DEF DiagnosisReturns
  <2>5. DiagnosesInv'
    BY <1>3, <2>2, <2>3, <2>4, QuietDiagnoses DEF RepairInv
  <2> QED
    BY <1>1, <1>3, <1>4, <1>5, <2>2, <2>5, LimitStays DEF Keeps
<1>7. CASE RedoDiagnose
  <2> DEFINE i == call.of
  <2>1. /\ i \in Links /\ traces' = Append(traces, ledger[i].device)
        /\ action[i].state = "failed" /\ trusted' = trusted
    BY <1>7 DEF RedoDiagnose, CanRead, LedgerTypeOK, AboutLink, RepairInv, DiagnosesInv
  <2>2. /\ Len(traces') = Len(traces) + 1 /\ Len(traces) \in Nat
        /\ Len(traces') \in DOMAIN traces' /\ traces'[Len(traces')] = ledger[i].device
        /\ TracesStep
    <3> DEFINE d == ledger[i].device
    <3>1. d \in Devices /\ traces' = Append(traces, d)
      BY <2>1, LinkTypes
    <3>2. TracesStep
      BY <3>1 DEF TracesStep
    <3> HIDE DEF d
    <3>3. /\ Len(traces') = Len(traces) + 1 /\ DOMAIN traces' = 1..(Len(traces) + 1)
          /\ traces'[Len(traces')] = d
      BY <3>1, DiagnosisAdded
    <3> QED
      BY <3>2, <3>3, LinkTypes DEF d
  <2>3. call'.at = "redone" /\ call'.of = i /\ call'.step = Len(traces')
    BY <1>7, CallFields DEF RedoDiagnose, CallType
  <2>4. call'.step > action[i].failedAt
    BY <2>1, <2>2, <2>3, LinkTypes DEF RepairInv, FailuresInv
  <2>5. DiagnosesInv'
    BY <1>3, <2>1, <2>2, <2>3, <2>4, QuietDiagnoses DEF RepairInv
  <2> QED
    BY <1>1, <1>3, <1>4, <1>5, <2>2, <2>5, LimitStays DEF Keeps
<1> QED
  BY <1>6, <1>7

\* The response of a request tells what has become of it.
LEMMA ResponseTells ==
  ASSUME LedgerTypeOK, RowsInv, NEW i \in Links, NEW reply \in {"created", "refused", "error"},
         Arrive(i, reply), call' # call
  PROVE  /\ call'.at = "answered" /\ call'.of = i /\ action[i].state = "absent"
         /\ Tells(call'.answer, action'[i])
<1> DEFINE state == IF reply = "created" THEN Created(ledger[i].tool) ELSE "absent"
           told == IF reply = "created" THEN Created(ledger[i].tool) ELSE reply
<1>1. action' = [action EXCEPT ![i] = [action[i] EXCEPT !.flying = FALSE, !.state = state]]
      /\ action[i].flying
  BY DEF Arrive
<1>2. call' = [call EXCEPT !.at = "answered", !.answer = Answer(told, "key")] /\ call.of = i
  BY DEF Arrive
<1>3. \/ state \in {"proposed", "queued"} /\ told = state
      \/ state = "absent" /\ told \in {"refused", "error"}
  <2>1. CASE reply = "created"
    <3>1. Created(ledger[i].tool) \in {"proposed", "queued"}
      BY CreatedIs
    <3> QED
      BY <2>1, <3>1
  <2>2. CASE reply # "created"
    BY <2>2
  <2> QED
    BY <2>1, <2>2
<1> HIDE DEF state, told
<1>4. action'[i].state = state /\ ~action'[i].flying
  BY <1>1, LinkTypes DEF ActionRow
<1>5. call'.at = "answered" /\ call'.of = i /\ call'.answer.state = told
  BY <1>2, CallFields DEF CallType, Answer
<1>6. Tells(call'.answer, action'[i])
  BY <1>3, <1>4, <1>5 DEF Tells, HasCommand
<1> QED
  BY <1>1, <1>5, <1>6 DEF RowsInv, RowOf

LEMMA ServiceKeeps == ASSUME LedgerTypeOK, RepairInv, ServiceStep PROVE Keeps
<1>1. /\ UNCHANGED <<ledger, job, traces, run, trusted, tracker, age>>
      /\ \/ call' = call
         \/ \E i \in Links, reply \in {"created", "refused", "error"} : Arrive(i, reply)
  BY DEF ServiceStep, Arrive, RequestLost, Decide, Expire, Settle, Service
<1>2. \/ call' = call
      \/ /\ call'.at = "answered" /\ call'.of \in Links /\ action[call'.of].state = "absent"
         /\ Tells(call'.answer, action'[call'.of])
  BY <1>1, ResponseTells DEF RepairInv
<1>3. \A i \in Links : ActionStep(i)
  BY ServiceAction
<1>4. LinksStep /\ TracesStep
  BY <1>1, <1>3, QuietLinks DEF RepairInv, TracesStep
<1>5. AnswersInv'
  BY <1>1, <1>2, <1>3, QuietAnswers DEF RepairInv, AnswersInv
<1>6. DiagnosesInv'
  BY <1>1, <1>2, <1>4, QuietDiagnoses DEF RepairInv
<1>7. TracksInv'
  BY <1>1, <1>2, <1>3, QuietTracks DEF RepairInv, Final
<1> QED
  BY <1>1, <1>4, <1>5, <1>6, <1>7 DEF Keeps

LEMMA TrackKeeps == ASSUME LedgerTypeOK, RepairInv, TrackStep PROVE Keeps
<1>1. /\ UNCHANGED <<ledger, action, traces, trusted, age>>
      /\ call' \in {call, NoCall}
  BY DEF TrackStep, TrackReleased, TrackAsk, TrackFails, Crash
<1>2. run'.limit = run.limit
  BY CallFields DEF TrackStep, TrackReleased, TrackAsk, TrackFails, Crash, RunType
<1>3. LinksStep /\ TracesStep /\ \A i \in Links : ActionStep(i)
  BY <1>1, ActionsStay, QuietLinks DEF RepairInv, TracesStep
<1>4. DiagnosesInv'
  BY <1>1, <1>3, Values, QuietDiagnoses DEF RepairInv
<1>5. /\ \A i \in Links : \/ job'[i] = job[i] \/ job'[i].state \in {"due", "failed"}
                          \/ ledger[i].reservation = "released"
      /\ \/ tracker'.at # "saving"
         \/ tracker' = tracker /\ job'[tracker.of].state = "due"
         \/ /\ Tells(tracker'.answer, action[tracker'.of])
            /\ tracker'.answer.state \notin {"refused", "error"}
            /\ job'[tracker'.of].state = "due"
  <2>1. ASSUME NEW i \in Links, TrackReleased(i) \/ TrackFails(i)
        PROVE  /\ tracker' = tracker /\ tracker.at = "idle"
               /\ job'[i].state \in {"due", "failed"} \/ ledger[i].reservation = "released"
               /\ \A j \in Links : j # i => job'[j] = job[j]
    BY <2>1, JobIs DEF TrackReleased, TrackFails, CanTrack
  <2>2. ASSUME NEW i \in Links, TrackAsk(i), tracker' = tracker
        PROVE  /\ tracker.at = "idle" /\ job'[i].state \in {"due", "failed"}
               /\ \A j \in Links : j # i => job'[j] = job[j]
    BY <2>2, JobIs, Values DEF TrackAsk, CanTrack
  <2>3. ASSUME NEW i \in Links, TrackAsk(i), tracker' # tracker
        PROVE  /\ job' = job /\ job[i].state = "due" /\ tracker'.of = i
               /\ Tells(tracker'.answer, action[i])
               /\ tracker'.answer.state \notin {"refused", "error"}
    <3>1. /\ tracker' = [at |-> "saving", of |-> i, answer |-> Answer(action[i].state, QueryBy(i))]
          /\ job' = job /\ job[i].state = "due" /\ action[i].state # "absent"
      BY <2>3 DEF TrackAsk, CanTrack
    <3>2. action[i].state \in States
      BY LinkTypes DEF ActionRow
    <3> QED
      BY <3>1, <3>2, AnswerTells
  <2>4. CASE Crash
    <3>1. tracker.of \in Links /\ Attempted(tracker.of) \in Nat
      BY <2>4, LinkTypes DEF Crash, LedgerTypeOK, Attempted, JobRow
    <3>2. /\ job'[tracker.of].state = "due"
          /\ \A j \in Links : j # tracker.of => job'[j] = job[j]
      BY <2>4, <3>1, JobIs DEF Crash
    <3>3. tracker'.at = "idle"
      BY <2>4, Values DEF Crash
    <3> QED
      BY <3>2, <3>3
  <2> QED
    BY <2>1, <2>2, <2>3, <2>4 DEF TrackStep
<1>6. AnswersInv'
  BY <1>1, <1>3, <1>5, Values, QuietAnswers DEF RepairInv
<1>7. TracksInv'
  BY <1>1, <1>3, <1>5, Values, QuietTracks DEF RepairInv
<1> QED
  BY <1>2, <1>3, <1>4, <1>6, <1>7 DEF Keeps

\* One row is written, and it is true of its action.
LEMMA WrittenLinks ==
  ASSUME LedgerTypeOK, RowsInv, UNCHANGED action, NEW i \in Links, NEW row \in LinkRow, Write(i, row),
         row.server = ledger[i].server, row.device = ledger[i].device,
         row.diagnosis = ledger[i].diagnosis,
         RowOf(row, action[i]),
         ledger[i].reservation = "released" => row.reservation = "released",
         ledger[i].feedback \in {"succeeded", "failed"} => row.feedback = ledger[i].feedback,
         \/ row.redo.id \in {ledger[i].redo.id, 0}
         \/ /\ action[i].state = "failed" /\ row.redo.id > action[i].failedAt
            /\ DiagnosisOf(row.redo.id, ledger[i].device)
  PROVE  LinksStep
<1>1. Links' = Links /\ ledger'[i] = row /\ \A j \in Links : j # i => ledger'[j] = ledger[j]
  BY Written
<1>2. \A j \in Links : ActionStep(j)
  BY ActionsStay
<1>3. LinkStep(i)
  BY <1>1, <1>2 DEF LinkStep
<1>4. ASSUME NEW j \in Links, j # i PROVE LinkStep(j)
  BY <1>1, <1>2, <1>4 DEF LinkStep, RowsInv
<1> QED
  BY <1>1, <1>3, <1>4 DEF LinksStep

LEMMA WrittenTracks ==
  ASSUME LedgerTypeOK, TracksInv, UNCHANGED <<action, age>>, NEW i \in Links, NEW row \in LinkRow,
         Write(i, row), \A j \in Links : j # i => job'[j] = job[j],
         call' = call \/ call'.at # "answered",
         \/ job'[i].state \in {"due", "failed"} \/ age = "past" \/ row.reservation = "released"
         \/ Learned(row, action[i])
         \/ /\ call'.at # "answered"
            /\ row.overtaken /\ Final(action[i].state) /\ ~Final(row.saved.state)
  PROVE  TracksInv'
<1>1. Links' = Links /\ ledger'[i] = row /\ \A j \in Links : j # i => ledger'[j] = ledger[j]
  BY Written
<1>2. Tracked(i)'
  BY <1>1 DEF Tracked, Overtaken
<1>3. ASSUME NEW j \in Links, j # i PROVE Tracked(j)'
  BY <1>1, <1>3 DEF TracksInv, Tracked, Overtaken
<1> QED
  BY <1>1, <1>2, <1>3 DEF TracksInv

\* An end that was known, or heard again by the agent, is known or overtaken.
LEMMA SavedEnd ==
  ASSUME LedgerTypeOK, NEW row \in LinkRow, NEW answer \in AnswerType, NEW act \in ActionRow,
         Tells(answer, act), NEW new, new = Saved(row, answer),
         \/ Learned(row, act)
         \/ Final(act.state) /\ row.overtaken /\ ~Final(row.saved.state) /\ Final(answer.state)
  PROVE  \/ Learned(new, act)
         \/ Final(act.state) /\ new.overtaken /\ ~Final(new.saved.state)
<1>1. Final(act.state)
  BY DEF Learned
<1>2. answer.state # "refused"
  BY <1>1 DEF Tells, Final
<1>3. CASE answer.state = "error"
  <2>1. new = row /\ ~Final(answer.state)
    BY <1>3, SavedError DEF Final
  <2> QED
    BY <2>1
<1>4. CASE answer = row.saved
  <2>1. new.outcome = row.outcome /\ new.saved = row.saved
    BY <1>4, SavedAgain, IdentifiedRow
  <2> QED
    BY <1>4, <2>1 DEF Learned
<1>5. CASE answer.state \notin {"refused", "error"} /\ answer # row.saved
  <2>1. answer \in SavedType /\ new = Resolved(row, answer)
    BY <1>5, SavedNews DEF AnswerType, SavedType
  <2>2. /\ new.outcome = Outcome(answer.state) /\ new.saved = answer
        /\ new.overtaken = (Final(row.saved.state) /\ ~Final(answer.state))
    BY <2>1, ResolvedRow DEF LedgerTypeOK, RunType
  <2>3. CASE Final(answer.state)
    <3>1. act.state = answer.state
      BY <2>3 DEF Tells, Final
    <3>2. new.outcome = IF act.state = "rejected" THEN "not_executed" ELSE act.state
      BY <1>1, <2>2, <3>1, OutcomeIs DEF Final
    <3> QED
      BY <1>1, <2>2, <3>1, <3>2 DEF Learned
  <2>4. CASE ~Final(answer.state)
    BY <1>1, <2>2, <2>4 DEF Learned
  <2> QED
    BY <2>3, <2>4
<1> QED
  BY <1>2, <1>3, <1>4, <1>5

LEMMA FinishKeeps == ASSUME LedgerTypeOK, RepairInv, Finish PROVE Keeps
<1> DEFINE i == call.of
           act == action[i]
           row == Saved(ledger[i], call.answer)
           none == [row EXCEPT !.redo = NoRedo]
<1>1. /\ i \in Links /\ row \in LinkRow /\ SameRepair(row, ledger[i])
      /\ UNCHANGED <<catalogue, run, action, traces, job, tracker, age, quota>>
      /\ \/ call' = NoCall /\ UNCHANGED <<ledger, trusted>>
         \/ call' = NoCall /\ Write(i, row) /\ UNCHANGED trusted
         \/ /\ call' = NoCall /\ Write(i, row) /\ row.redo.id # 0
            /\ trusted' = [trusted EXCEPT ![row.device] = row.redo.id]
         \/ /\ row.outcome = "failed" /\ Write(i, none)
            /\ call' = [call EXCEPT !.at = "redoing", !.answer = row.saved]
            /\ UNCHANGED trusted
  BY FinishIs
<1>2. /\ ledger[i] \in LinkRow /\ act \in ActionRow /\ call.answer \in AnswerType
      /\ call.at = "answered" /\ Tells(call.answer, act) /\ RowOf(ledger[i], act)
  BY <1>1, LinkTypes, CallFields DEF Finish, RepairInv, AnswersInv, RowsInv
<1>3. /\ RowOf(row, act)
      /\ ledger[i].reservation = "released" => row.reservation = "released"
      /\ ledger[i].feedback \in {"succeeded", "failed"} => row.feedback = ledger[i].feedback
  BY <1>2, SavedIsTrue
<1>4. \/ job[i].state \in {"due", "failed"} \/ age = "past" \/ row.reservation = "released"
      \/ Learned(row, act)
      \/ Final(act.state) /\ row.overtaken /\ ~Final(row.saved.state)
  <2>1. Tracked(i)
    BY <1>1 DEF RepairInv, TracksInv
  <2>2. \/ job[i].state \in {"due", "failed"} \/ age = "past"
        \/ ledger[i].reservation = "released"
        \/ Learned(ledger[i], act)
        \/ /\ Final(act.state) /\ ledger[i].overtaken /\ ~Final(ledger[i].saved.state)
           /\ Final(call.answer.state)
    BY <1>2, <2>1 DEF Tracked, Overtaken
  <2> QED
    BY <1>2, <1>3, <2>2, SavedEnd
<1> HIDE DEF row
<1>5. /\ none \in LinkRow /\ none.redo = NoRedo
      /\ none.server = row.server /\ none.device = row.device /\ none.diagnosis = row.diagnosis
      /\ none.reservation = row.reservation /\ none.outcome = row.outcome
      /\ none.saved = row.saved /\ none.feedback = row.feedback /\ none.overtaken = row.overtaken
  BY <1>1, RedoRow, Values
<1>6. none.redo.id = 0
  BY <1>5 DEF NoRedo
<1> HIDE DEF none
<1>7. RowOf(none, act)
  BY <1>3, <1>5 DEF RowOf
<1>8. call'.at # "answered" /\ (call'.at = "redoing" => call'.of = i /\ act.state = "failed")
      /\ call'.at # "redone"
  <2>1. CASE call' = NoCall
    BY <2>1, Values
  <2>2. CASE /\ row.outcome = "failed"
             /\ call' = [call EXCEPT !.at = "redoing", !.answer = row.saved]
    BY <1>3, <2>2, CallFields DEF CallType, RowOf
  <2> QED
    BY <1>1, <2>1, <2>2
<1>9. TracesStep /\ run'.limit = run.limit
  BY <1>1 DEF TracesStep
<1>10. \A j \in Links : ActionStep(j)
  BY <1>1, ActionsStay
<1>11. AnswersInv'
  BY <1>1, <1>8, <1>10, QuietAnswers DEF RepairInv, AnswersInv
<1>12. LinksStep /\ TracksInv'
  <2>1. CASE UNCHANGED ledger
    BY <1>1, <1>8, <1>10, <2>1, QuietLinks, QuietTracks DEF RepairInv
  <2>2. ASSUME NEW new \in {row, none}, Write(i, new) PROVE LinksStep /\ TracksInv'
    <3>1. /\ new \in LinkRow /\ RowOf(new, act)
          /\ new.server = row.server /\ new.device = row.device /\ new.diagnosis = row.diagnosis
          /\ new.reservation = row.reservation /\ new.outcome = row.outcome
          /\ new.saved = row.saved /\ new.feedback = row.feedback /\ new.overtaken = row.overtaken
          /\ new.redo.id \in {row.redo.id, 0}
      BY <1>1, <1>3, <1>5, <1>6, <1>7
    <3>2. LinksStep
      BY <1>1, <1>3, <2>2, <3>1, WrittenLinks DEF RepairInv, SameRepair
    <3>3. Learned(row, act) => Learned(new, act)
      BY <3>1 DEF Learned
    <3>4. TracksInv'
      BY <1>1, <1>4, <1>8, <2>2, <3>1, <3>3, WrittenTracks DEF RepairInv
    <3> QED
      BY <3>2, <3>4
  <2> QED
    BY <1>1, <2>1, <2>2
<1>13. DiagnosesInv'
  <2>1. row.redo.id # 0 => DiagnosisOf(row.redo.id, row.device)
    BY <1>1 DEF RepairInv, FailuresInv, SameRepair
  <2>2. \A d \in Devices : trusted'[d] = trusted[d] \/ DiagnosisOf(trusted'[d], d)
    BY <1>1, <2>1 DEF LedgerTypeOK
  <2> QED
    BY <1>1, <1>8, <1>9, <1>12, <2>2, QuietDiagnoses DEF RepairInv
<1> QED
  BY <1>9, <1>11, <1>12, <1>13 DEF Keeps

LEMMA RedoStoreKeeps ==
  ASSUME LedgerTypeOK, RepairInv, NEW fresh \in BOOLEAN, RedoStore(fresh)
  PROVE  Keeps
<1> DEFINE i == call.of
           act == action[i]
           redo == [of |-> call.answer, id |-> call.step, fresh |-> fresh]
           row == [ledger[i] EXCEPT !.redo = redo]
<1>1. /\ i \in Links /\ redo \in RedoType /\ call.at = "redone" /\ call' = NoCall
      /\ UNCHANGED <<catalogue, run, action, traces, job, tracker, age, quota>>
      /\ \/ UNCHANGED <<ledger, trusted>>
         \/ /\ Write(i, row)
            /\ trusted' = [trusted EXCEPT ![ledger[i].device] = call.step]
  BY RedoStoreIs
<1>2. /\ act.state = "failed" /\ call.step > act.failedAt
      /\ DiagnosisOf(call.step, ledger[i].device)
  BY <1>1 DEF RepairInv, DiagnosesInv
<1>3. redo.id = call.step
  OBVIOUS
<1> HIDE DEF redo
<1>4. /\ row \in LinkRow /\ row.redo = redo
      /\ row.server = ledger[i].server /\ row.device = ledger[i].device
      /\ row.diagnosis = ledger[i].diagnosis /\ row.reservation = ledger[i].reservation
      /\ row.outcome = ledger[i].outcome /\ row.saved = ledger[i].saved
      /\ row.feedback = ledger[i].feedback /\ row.overtaken = ledger[i].overtaken
  BY <1>1, LinkTypes, RedoRow
<1> HIDE DEF row
<1>5. RowOf(row, act)
  BY <1>1, <1>4 DEF RepairInv, RowsInv, RowOf
<1>6. TracesStep /\ run'.limit = run.limit /\ \A j \in Links : ActionStep(j)
  BY <1>1, ActionsStay DEF TracesStep
<1>7. AnswersInv'
  BY <1>1, <1>6, Values, QuietAnswers DEF RepairInv, AnswersInv
<1>8. LinksStep /\ TracksInv'
  <2>1. CASE UNCHANGED ledger
    BY <1>1, <1>6, <2>1, Values, QuietLinks, QuietTracks DEF RepairInv
  <2>2. CASE Write(i, row)
    <3>1. LinksStep
      BY <1>1, <1>2, <1>3, <1>4, <1>5, <2>2, WrittenLinks DEF RepairInv
    <3>2. Tracked(i) /\ (Learned(ledger[i], act) => Learned(row, act))
      BY <1>1, <1>4 DEF RepairInv, TracksInv, Learned
    <3>3. TracksInv'
      BY <1>1, <1>4, <2>2, <3>2, Values, WrittenTracks DEF RepairInv, Tracked, Overtaken
    <3> QED
      BY <3>1, <3>3
  <2> QED
    BY <1>1, <2>1, <2>2
<1>9. DiagnosesInv'
  <2>1. \A d \in Devices : trusted'[d] = trusted[d] \/ DiagnosisOf(trusted'[d], d)
    BY <1>1, <1>2 DEF LedgerTypeOK
  <2> QED
    BY <1>1, <1>6, <1>8, <2>1, Values, QuietDiagnoses DEF RepairInv
<1> QED
  BY <1>6, <1>7, <1>8, <1>9 DEF Keeps

LEMMA TrackSaveKeeps == ASSUME LedgerTypeOK, RepairInv, TrackSave PROVE Keeps
<1> DEFINE i == tracker.of
           act == action[i]
           row == Saved(ledger[i], tracker.answer)
<1>1. /\ i \in Links /\ row \in LinkRow /\ SameRepair(row, ledger[i])
      /\ tracker.at = "saving" /\ tracker' = Asking
      /\ UNCHANGED <<catalogue, run, trusted, call, action, traces, age, quota>>
      /\ Write(i, row)
      /\ \A j \in Links : j # i => job'[j] = job[j]
      /\ job'[i].state = "due" \/ row.outcome \notin {"pending", "inconclusive"} \/ age = "past"
  BY TrackSaveIs
<1>2. /\ RowOf(row, act)
      /\ ledger[i].reservation = "released" => row.reservation = "released"
      /\ ledger[i].feedback \in {"succeeded", "failed"} => row.feedback = ledger[i].feedback
  <2>1. /\ ledger[i] \in LinkRow /\ act \in ActionRow /\ tracker.answer \in AnswerType
        /\ Tells(tracker.answer, act) /\ RowOf(ledger[i], act)
    BY <1>1, LinkTypes, CallFields DEF RepairInv, AnswersInv, RowsInv
  <2> QED
    BY <2>1, SavedIsTrue
<1> HIDE DEF row
<1>3. TracesStep /\ run'.limit = run.limit /\ \A j \in Links : ActionStep(j)
  BY <1>1, ActionsStay DEF TracesStep
<1>4. AnswersInv'
  BY <1>1, <1>3, Values, QuietAnswers DEF RepairInv
<1>5. LinksStep
  BY <1>1, <1>2, WrittenLinks DEF RepairInv, SameRepair
<1>6. DiagnosesInv'
  BY <1>1, <1>3, <1>5, QuietDiagnoses DEF RepairInv
<1>7. row.outcome \notin {"pending", "inconclusive"} =>
        Learned(row, act) \/ row.reservation = "released"
  BY <1>1, <1>2 DEF RowOf, Learned, LinkRow, Final
<1>8. TracksInv'
  BY <1>1, <1>7, WrittenTracks DEF RepairInv
<1> QED
  BY <1>3, <1>4, <1>5, <1>6, <1>8 DEF Keeps

Reserving == \E s \in Servers, t \in Tools, d \in Devices : Reserve(s, t, d)

LEMMA StepKeeps == ASSUME LedgerTypeOK, RepairInv, [Next]_vars PROVE Reserving \/ Keeps
<1>1. CASE UNCHANGED vars \/ (Administration /\ UNCHANGED ledgerVars)
  BY <1>1, UnchangedKeeps DEF vars
<1> QED
  BY <1>1, RunKeeps, AgentKeeps, DiagnosisKeeps, ServiceKeeps, FinishKeeps, RedoStoreKeeps,
     TrackKeeps, TrackSaveKeeps DEF Next, ServiceStep, TrackStep, Reserving

LEMMA KeepsInv ==
  ASSUME LedgerTypeOK, LedgerTypeOK', RepairInv, Keeps
  PROVE  RepairInv'
  BY LinksStepRows DEF Keeps, RepairInv

-----------------------------------------------------------------------------
(* reserve: another repair.                                                 *)

\* Of some numbers up to n one is the last.
LEMMA LatestExists ==
  ASSUME NEW n \in Nat, NEW S, S \subseteq 1..n, S # {}
  PROVE  \E m \in S : \A k \in S : k <= m
<1> DEFINE R == OpToRel(<, Nat)
           T == {k \in Nat : n - k \in S}
<1>1. IsWellFoundedOn(R, Nat)
  BY NatLessThanWellFounded
<1>2. \A x, y \in Nat : x < y => <<x, y>> \in R
  BY DEF OpToRel
<1>3. T \subseteq Nat /\ T # {}
  <2>1. PICK k \in S : TRUE
    OBVIOUS
  <2>2. n - k \in Nat /\ n - (n - k) = k
    BY <2>1
  <2> QED
    BY <2>1, <2>2
<1> HIDE DEF R
<1>4. PICK x \in T : \A y \in T : ~(<<y, x>> \in R)
  <2> HIDE DEF T
  <2> QED
    BY <1>1, <1>3, WFMin
<1>5. x \in Nat /\ n - x \in S
  BY <1>4
<1>6. ASSUME NEW k \in S PROVE k <= n - x
  <2>1. n - k \in Nat /\ n - (n - k) = k /\ k \in Int
    BY <1>6
  <2>2. n - k \in T
    BY <2>1
  <2>3. ~(n - k < x)
    BY <1>2, <1>4, <1>5, <2>1, <2>2
  <2> QED
    BY <1>5, <2>1, <2>3
<1> QED
  BY <1>5, <1>6

\* What the checks of reserve say of an earlier repair of the same device: it
\* is over, and if it has failed the diagnosis of the new one is later.
LEMMA EarlierIsOver ==
  ASSUME LedgerTypeOK, RepairInv, NEW s \in Servers, NEW t \in Tools, NEW d \in Devices,
         Reserve(s, t, d), NEW i \in OfDevice(s, d)
  PROVE  /\ Over(action[i])
         /\ action[i].state = "failed" => trusted[d] > action[i].failedAt
<1>1. i \in Links /\ ledger[i].server = s /\ ledger[i].device = d
  BY DEF OfDevice
<1>2. RowOf(ledger[i], action[i]) /\ ledger[i] \in LinkRow
  BY <1>1, LinkTypes DEF RepairInv, RowsInv
<1>3. ledger[i].outcome \in {"failed", "not_executed"} \/ i \notin Held
  BY <1>2 DEF Reserve, Recovered, Unresolved, LinkRow
<1>4. \/ ~Reaches(action[i])
      \/ action[i].state = "failed" /\ ~action[i].flying /\ i \in FailedLinks(s, d)
  BY <1>1, <1>2, <1>3 DEF RowOf, Held, FailedLinks
<1>5. Over(action[i])
  BY <1>2, <1>4, LinkTypes DEF Reaches, Over, ActionRow, States
<1>6. ASSUME action[i].state = "failed" PROVE trusted[d] > action[i].failedAt
  <2>1. i \in FailedLinks(s, d)
    BY <1>4, <1>6 DEF Reaches
  <2>2. FailedLinks(s, d) \subseteq 1..Len(ledger) /\ Len(ledger) \in Nat
    BY LinkTypes DEF FailedLinks, OfDevice
  <2>3. PICK last \in FailedLinks(s, d) : \A j \in FailedLinks(s, d) : j <= last
    BY <2>1, <2>2, LatestExists
  <2>4. ledger[last].redo.id # 0 /\ ledger[last].redo.id = trusted[d]
    BY <2>3 DEF Reserve, DiagnosedAgain
  <2>5. last \in Links /\ Same(i, last)
    BY <1>1, <2>3 DEF FailedLinks, OfDevice, Same
  <2>6. action[last].state = "failed" /\ ledger[last].redo.id > action[last].failedAt
        /\ ledger[last].diagnosis <= action[last].failedAt
    BY <2>4, <2>5 DEF RepairInv, FailuresInv
  <2>7. /\ ledger[last].redo.id \in Nat /\ ledger[last].diagnosis \in Nat
        /\ action[last].failedAt \in Nat /\ action[i].failedAt \in Nat
        /\ last \in Nat /\ i \in Nat /\ i <= last
    BY <1>1, <2>1, <2>3, <2>5, LinkTypes
  <2>8. CASE i = last
    BY <2>4, <2>6, <2>8
  <2>9. CASE i # last
    <3>1. i \in 1..(last - 1)
      BY <1>1, <2>7, <2>9, LinkTypes
    <3>2. ledger[last].diagnosis > action[i].failedAt
      BY <1>6, <2>5, <3>1 DEF RepairInv, RepairsFollowFailures
    <3> QED
      BY <2>4, <2>6, <2>7, <3>2
  <2> QED
    BY <2>8, <2>9
<1> QED
  BY <1>5, <1>6

LEMMA ReserveKeeps ==
  ASSUME LedgerTypeOK, LedgerTypeOK', RepairInv,
         NEW s \in Servers, NEW t \in Tools, NEW d \in Devices, Reserve(s, t, d)
  PROVE  RepairInv'
<1>0. PICK n : n = Len(ledger) + 1
  OBVIOUS
<1>1. /\ Links' = 1..n /\ Links = 1..Len(ledger) /\ Len(ledger) \in Nat
      /\ \A i \in Links : ledger'[i] = ledger[i] /\ action'[i] = action[i] /\ job'[i] = job[i]
      /\ ledger'[n] = Reserved(s, t, d) /\ action'[n] = Requested /\ job'[n].state = "due"
  BY <1>0, ReserveAppends, LinkTypes
<1>2. call'.at = "acting"
  BY DEF Reserve, NoCall
<1>3. UNCHANGED <<run, trusted, traces, tracker, age>>
  BY DEF Reserve
<1>4. /\ Links' = Links \cup {n} /\ n \notin Links /\ n \in Nat
      /\ \A j \in Links' : \A i \in 1..(j - 1) : i \in Links
  BY <1>0, <1>1
<1>5. /\ action'[n].state = "absent" /\ action'[n].flying
      /\ ledger'[n].saved = NoAnswer /\ ledger'[n].reservation = "reserved"
      /\ ledger'[n].outcome = "pending" /\ ledger'[n].feedback = "none"
      /\ ledger'[n].redo.id = 0 /\ ledger'[n].diagnosis = trusted[d]
      /\ ledger'[n].server = s /\ ledger'[n].device = d
  BY <1>1 DEF Reserved, Requested, NoRedo
<1>6. RowsInv'
  BY <1>1, <1>4, <1>5 DEF RepairInv, RowsInv, RowOf
<1>7. HeldInv'
  <2>1. Held' = Held \cup {n} /\ n \notin Held
    BY <1>1, <1>4, <1>5 DEF Held
  <2>2. Cardinality(Held \cup {n}) = Cardinality(Held) + 1
    BY <2>1, HeldIsFinite, FS_AddElement
  <2>3. Cardinality(Held) < run.limit
    BY DEF Reserve, Room
  <2>4. run.limit \in Nat
    BY CallFields DEF RunType
  <2> QED
    BY <1>3, <2>1, <2>2, <2>3, <2>4, HeldIsFinite DEF HeldInv
<1>8. FailuresInv'
  BY <1>1, <1>3, <1>4, <1>5 DEF RepairInv, FailuresInv, DiagnosisOf
<1>9. DiagnosesInv'
  BY <1>2, <1>3 DEF RepairInv, DiagnosesInv, DiagnosisOf
<1>10. AnswersInv'
  BY <1>1, <1>2, <1>3 DEF RepairInv, AnswersInv, LedgerTypeOK
<1>11. TracksInv'
  <2>1. Tracked(n)'
    BY <1>1 DEF Tracked
  <2>2. ASSUME NEW i \in Links PROVE Tracked(i)'
    BY <1>1, <1>2, <1>3, <2>2 DEF RepairInv, TracksInv, Tracked, Overtaken
  <2> QED
    BY <1>4, <2>1, <2>2 DEF TracksInv
<1>12. RepairsFollowFailures'
  <2>1. DiagnosisOf(trusted[d], d)
    BY DEF Reserve, Trusts, RepairInv, DiagnosesInv
  <2>2. ASSUME NEW j \in Links'
        PROVE  /\ ledger'[j].diagnosis \in DOMAIN traces
               /\ traces[ledger'[j].diagnosis] = ledger'[j].device
    BY <1>1, <1>4, <1>5, <2>1 DEF RepairInv, RepairsFollowFailures, DiagnosisOf
  <2>3. ASSUME NEW j \in Links', NEW i \in 1..(j - 1), Same(i, j)'
        PROVE  /\ ~action'[i].flying /\ action'[i].state \in {"absent", "rejected", "failed"}
               /\ action'[i].state = "failed" => ledger'[j].diagnosis > action'[i].failedAt
    <3>1. i \in Links /\ ledger'[i] = ledger[i] /\ action'[i] = action[i]
      BY <1>1, <1>4
    <3>2. CASE j = n
      <4>1. i \in OfDevice(s, d)
        BY <1>5, <2>3, <3>1, <3>2 DEF OfDevice, Same
      <4> QED
        BY <1>5, <3>1, <3>2, <4>1, EarlierIsOver DEF Over
    <3>3. CASE j # n
      <4>1. j \in Links /\ Same(i, j)
        BY <1>1, <1>4, <2>3, <3>1, <3>3 DEF Same
      <4> QED
        BY <1>1, <3>1, <4>1 DEF RepairInv, RepairsFollowFailures
    <3> QED
      BY <3>2, <3>3
  <2> QED
    BY <1>3, <2>2, <2>3 DEF RepairsFollowFailures
<1> QED
  BY <1>6, <1>7, <1>8, <1>9, <1>10, <1>11, <1>12 DEF RepairInv

-----------------------------------------------------------------------------
(* The invariant, and what follows from it.                                 *)

LEMMA InitRepair == Init => RepairInv
<1> SUFFICES ASSUME Init PROVE RepairInv
  OBVIOUS
<1>1. LedgerTypeOK /\ Len(ledger) = 0
  BY InitTypes, EmptySeq DEF Init
<1>2. Links = {}
  BY <1>1, LinkTypes
<1>3. RowsInv /\ FailuresInv /\ TracksInv /\ RepairsFollowFailures
  BY <1>2 DEF RowsInv, FailuresInv, TracksInv, RepairsFollowFailures
<1>4. HeldInv
  <2>1. Held = {}
    BY <1>2 DEF Held
  <2>2. run.limit \in Nat
    BY <1>1, CallFields DEF RunType
  <2> QED
    BY <2>1, <2>2, FS_EmptySet DEF HeldInv
<1>5. AnswersInv /\ DiagnosesInv
  BY Values DEF Init, AnswersInv, DiagnosesInv
<1> QED
  BY <1>3, <1>4, <1>5 DEF RepairInv

LEMMA NextRepair == LedgerTypeOK /\ RepairInv /\ [Next]_vars => RepairInv'
<1> SUFFICES ASSUME LedgerTypeOK, RepairInv, [Next]_vars PROVE RepairInv'
  OBVIOUS
<1>1. LedgerTypeOK'
  BY NextTypes
<1> QED
  BY <1>1, StepKeeps, KeepsInv, ReserveKeeps DEF Reserving

\* What the run, the worker and the service know of the repairs of a run fits
\* together at every moment, whatever is lost, late or out of order.
THEOREM RepairsFit == Spec => []RepairInv
  BY InitTypes, NextTypes, InitRepair, NextRepair, PTL DEF Spec

\* reserve: the actions of a run that may reach a device, or may do so yet, are
\* never more than the limit it was created with.
THEOREM RepairsAreLimited == Spec => []ActionsWithinLimit
<1>1. ASSUME LedgerTypeOK, RepairInv PROVE ActionsWithinLimit
  <2> DEFINE reach == {i \in Links : MayAct(i)}
  <2>1. reach \subseteq Held
    BY <1>1 DEF RepairInv, RowsInv, RowOf, MayAct, Reaches, Held
  <2> HIDE DEF reach
  <2>2. Cardinality(reach) \in Nat /\ Cardinality(reach) <= Cardinality(Held)
    BY <1>1, <2>1, HeldIsFinite, FS_Subset, FS_CardinalityType
  <2>3. run.limit \in Nat /\ Cardinality(Held) <= run.limit
    BY <1>1, CallFields DEF RunType, RepairInv, HeldInv
  <2>4. Cardinality(reach) <= run.limit
    BY <1>1, <2>2, <2>3, HeldIsFinite
  <2> QED
    BY <2>4 DEF ActionsWithinLimit, reach
<1> QED
  BY <1>1, LedgerTypesHold, RepairsFit, PTL

\* reserve and rediagnose: a repair goes by a diagnosis of its device, and one
\* after a failure by a diagnosis that was made after that failure.
THEOREM FailuresAreDiagnosed == Spec => []RepairsFollowFailures
<1>1. RepairInv => RepairsFollowFailures
  BY DEF RepairInv
<1> QED
  BY <1>1, RepairsFit, PTL

\* track: until the end of an action is in its row it is tracked, or its
\* tracking was given up.
THEOREM ActionsAreTracked == Spec => []NoActionIsForgotten
<1>1. ASSUME LedgerTypeOK, RepairInv PROVE NoActionIsForgotten
  <2> SUFFICES ASSUME NEW i \in Links
               PROVE  \/ Final(action[i].state) /\ ledger[i].outcome = Outcome(action[i].state)
                      \/ job[i].state = "due"
                      \/ ledger[i].reservation = "released" /\ ~MayAct(i)
                      \/ GivenUp(i)
    BY DEF NoActionIsForgotten
  <2>1. Tracked(i) /\ RowOf(ledger[i], action[i])
    BY <1>1 DEF RepairInv, TracksInv, RowsInv
  <2>2. CASE Learned(ledger[i], action[i])
    <3>1. ledger[i].outcome = Outcome(action[i].state)
      BY <2>2 DEF Learned, Final, Outcome
    <3> QED
      BY <2>2, <3>1 DEF Learned
  <2>3. CASE ~Learned(ledger[i], action[i])
    BY <2>1, <2>3 DEF Tracked, Overtaken, GivenUp, RowOf, Reaches, MayAct
  <2> QED
    BY <2>2, <2>3
<1> QED
  BY <1>1, LedgerTypesHold, RepairsFit, PTL

\* record_feedback: credit or blame for an action stands once it is given, and
\* is what became of the action, whatever answers follow.
THEOREM CreditStands == Spec => FeedbackStands
<1> DEFINE Stands ==
      \A i \in Links : ledger[i].feedback \in {"succeeded", "failed"} =>
        ledger'[i].feedback = ledger[i].feedback /\ action[i].state = ledger[i].feedback
<1>1. ASSUME LedgerTypeOK, RepairInv, [Next]_vars PROVE [Stands]_vars
  <2>1. ASSUME NEW i \in Links, ledger[i].feedback \in {"succeeded", "failed"}
        PROVE  ledger'[i].feedback = ledger[i].feedback
    <3>1. CASE Keeps
      BY <2>1, <3>1 DEF Keeps, LinksStep, LinkStep
    <3>2. CASE Reserving
      BY <1>1, <2>1, <3>2, ReserveAppends DEF Reserving
    <3> QED
      BY <1>1, <3>1, <3>2, StepKeeps
  <2>2. \A i \in Links : ledger[i].feedback \in {"succeeded", "failed"} =>
          action[i].state = ledger[i].feedback
    BY <1>1 DEF RepairInv, RowsInv, RowOf
  <2> QED
    BY <2>1, <2>2
<1> QED
  BY <1>1, LedgerTypesHold, RepairsFit, PTL DEF Spec, FeedbackStands
=============================================================================

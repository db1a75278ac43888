------------------------- MODULE CommandSafetyProofs ------------------------
(***************************************************************************)
(* TypeOK and ControlInv are invariants of CommandControl, for any number  *)
(* of commands, proposals, devices and keys, any durations and any number  *)
(* of crashes; the safety properties of a command follow from them, what   *)
(* no step may do to a command, and that CommandControl implements         *)
(* CommandPromise.                                                         *)
(***************************************************************************)
EXTENDS CommandInvariant, CommandRefinement, TLAPS

-----------------------------------------------------------------------------
(* The rows the requests and handlers write have the row types.             *)

LEMMA Durations ==
  /\ CommandTimeout \in Nat /\ VerifyWindow \in Nat /\ CommandTTL \in Nat
  /\ ProposalTTL \in Nat /\ RetryDelay \in Nat /\ ClockSkew \in Nat
  /\ MaxTime \in Nat /\ MaxCrashes \in Nat /\ MaxExecutions \in Nat
  BY DurationsAreNaturals

LEMMA RowTypes ==
  ASSUME TypeOK, NEW d \in Devices \cup {None}, NEW k \in Keys \cup {None}
  PROVE  /\ \A p \in Proposals \cup {None} : NewCommand(d, p, k) \in CommandRow
         /\ Enqueued \in OutboxRow
         /\ NewWatch \in WatchRow
         /\ NewProposal(d, k) \in ProposalRow
         /\ \A c \in Commands : [NoCorr EXCEPT !.command = c] \in CorrRow
         /\ \A p \in Proposals : [NoCorr EXCEPT !.proposal = p] \in CorrRow
<1>1. now \in Int /\ now + CommandTTL \in Int /\ now + VerifyWindow \in Int
      /\ now + ProposalTTL \in Int
  BY Durations DEF TypeOK
<1>2. \A p \in Proposals \cup {None} : NewCommand(d, p, k) \in CommandRow
  BY <1>1 DEF NewCommand, CommandRow, Statuses, Outcomes
<1>3. Enqueued \in OutboxRow
  BY <1>1 DEF Enqueued, OutboxRow, Results, NoTime
<1>4. NewWatch \in WatchRow
  BY <1>1 DEF NewWatch, WatchRow, Outcomes, NoTime
<1>5. NewProposal(d, k) \in ProposalRow
  BY <1>1 DEF NewProposal, ProposalRow, Outcomes
<1>6. /\ \A c \in Commands : [NoCorr EXCEPT !.command = c] \in CorrRow
      /\ \A p \in Proposals : [NoCorr EXCEPT !.proposal = p] \in CorrRow
  BY DEF NoCorr, CorrRow
<1> QED
  BY <1>2, <1>3, <1>4, <1>5, <1>6

LEMMA InitTypeOK == Init => TypeOK
<1>1. AbsentCommand \in CommandRow
  BY DEF AbsentCommand, CommandRow, Statuses, Outcomes, NoTime
<1>2. NoOutbox \in OutboxRow
  BY DEF NoOutbox, OutboxRow, Results, NoTime
<1>3. NoWatch \in WatchRow
  BY DEF NoWatch, WatchRow, Outcomes, NoTime
<1>4. AbsentProposal \in ProposalRow
  BY DEF AbsentProposal, ProposalRow, Outcomes, NoTime
<1>5. NoCorr \in CorrRow
  BY DEF NoCorr, CorrRow
<1> QED
  BY <1>1, <1>2, <1>3, <1>4, <1>5, DurationsAreNaturals DEF Init, TypeOK, Undecided, AbsentProposal

\* Expiring a proposal that was never decided leaves a legal row.
LEMMA RefreshedType ==
  ASSUME TypeOK, NEW p \in Proposals
  PROVE  /\ Refreshed(p) \in ProposalRow
         /\ Refreshed(p).status = "pending" => Refreshed(p).version = 1
  BY DEF TypeOK, Undecided, Refreshed, ProposalRow

\* So does a decision.
LEMMA ApprovedType ==
  ASSUME NEW r \in ProposalRow, NEW n \in 0..2, NEW c \in Commands
  PROVE  /\ [r EXCEPT !.status = "approved", !.version = n, !.task = "running",
                      !.command = c] \in ProposalRow
         /\ [r EXCEPT !.status = "approved", !.version = n, !.task = "running",
                      !.command = c].status = "approved"
  BY DEF ProposalRow

LEMMA RejectedType ==
  ASSUME NEW r \in ProposalRow, NEW n \in 0..2
  PROVE  /\ [r EXCEPT !.status = "rejected", !.version = n] \in ProposalRow
         /\ [r EXCEPT !.status = "rejected", !.version = n].status = "rejected"
  BY DEF ProposalRow

\* So does the news of a command, in its row and in the proposal it belongs to.
LEMMA TaskType ==
  ASSUME NEW r \in ProposalRow, NEW t \in Outcomes \cup {"none", "running", "verifying"}
  PROVE  [r EXCEPT !.task = t] \in ProposalRow
  BY DEF ProposalRow

LEMMA StatusType ==
  ASSUME NEW r \in CommandRow, NEW s \in Statuses
  PROVE  [r EXCEPT !.status = s] \in CommandRow
  BY DEF CommandRow

LEMMA RequestsTypeOK == TypeOK /\ Requests => TypeOK'
<1> SUFFICES ASSUME TypeOK, Requests PROVE TypeOK'
  OBVIOUS
<1> USE DEF callVars, deviceVars
<1>1. ASSUME NEW c \in Commands, NEW d \in Devices, NEW k \in Keys \cup {None},
             CreateCommand(c, d, k)
      PROVE  TypeOK'
  <2>1. /\ NewCommand(d, None, k) \in CommandRow
        /\ Enqueued \in OutboxRow
        /\ [NoCorr EXCEPT !.command = c] \in CorrRow
    BY RowTypes
  <2> QED
    BY <1>1, <2>1 DEF CreateCommand, Remember, TypeOK, Undecided
<1>2. ASSUME NEW p \in Proposals, NEW d \in Devices, NEW k \in Keys \cup {None},
             CreateProposal(p, d, k)
      PROVE  TypeOK'
  <2>1. /\ NewProposal(d, k) \in ProposalRow
        /\ [NoCorr EXCEPT !.proposal = p] \in CorrRow
    BY RowTypes
  <2>2. Undecided'
    BY <1>2 DEF CreateProposal, TypeOK, Undecided, NewProposal
  <2> QED
    BY <1>2, <2>1, <2>2 DEF CreateProposal, Remember, TypeOK
<1>3. ASSUME NEW p \in Proposals, NEW v \in 1..2, Reject(p, v)
      PROVE  TypeOK'
  <2> DEFINE row == [prop[p] EXCEPT !.status = "rejected", !.version = prop[p].version + 1]
  <2>1. prop[p] \in ProposalRow /\ prop[p].version + 1 \in 0..2
    BY <1>3 DEF Reject, Decidable, TypeOK, Undecided
  <2>2. prop' = [q \in Proposals |-> IF q = p THEN row ELSE Refreshed(q)]
    BY <1>3, <2>1 DEF Reject
  <2>3. row \in ProposalRow /\ row.status = "rejected"
    BY <2>1, RejectedType
  <2> HIDE DEF row
  <2>4. prop' \in [Proposals -> ProposalRow] /\ Undecided'
    BY <2>2, <2>3, RefreshedType DEF Undecided
  <2> QED
    BY <1>3, <2>4 DEF Reject, TypeOK
<1>4. ASSUME NEW p \in Proposals, NEW v \in 1..2, NEW c \in Commands, Approve(p, v, c)
      PROVE  TypeOK'
  <2> DEFINE row == [prop[p] EXCEPT !.status = "approved", !.version = prop[p].version + 1,
                                    !.task = "running", !.command = c]
  <2>1. prop[p] \in ProposalRow /\ prop[p].version + 1 \in 0..2
    BY <1>4 DEF Approve, Decidable, TypeOK, Undecided
  <2>2. prop' = [q \in Proposals |-> IF q = p THEN row ELSE Refreshed(q)]
    BY <1>4, <2>1 DEF Approve
  <2>3. row \in ProposalRow /\ row.status = "approved"
    BY <2>1, ApprovedType
  <2> HIDE DEF row
  <2>4. prop' \in [Proposals -> ProposalRow] /\ Undecided'
    BY <2>2, <2>3, RefreshedType DEF Undecided
  <2>5. prop[p].device \in Devices \cup {None}
    BY DEF TypeOK, ProposalRow
  <2>6. NewCommand(prop[p].device, p, None) \in CommandRow /\ Enqueued \in OutboxRow
    BY <2>5, RowTypes
  <2> QED
    BY <1>4, <2>4, <2>6 DEF Approve, TypeOK
<1>5. ASSUME ReadProposals
      PROVE  TypeOK'
  <2>1. prop' \in [Proposals -> ProposalRow] /\ Undecided'
    BY <1>5, RefreshedType DEF ReadProposals, Undecided
  <2> QED
    BY <1>5, <2>1 DEF ReadProposals, TypeOK
<1> QED
  BY <1>1, <1>2, <1>3, <1>4, <1>5 DEF Requests

LEMMA DeliveryTypeOK == TypeOK /\ Delivery => TypeOK'
<1> SUFFICES ASSUME TypeOK, Delivery PROVE TypeOK'
  OBVIOUS
<1> USE DEF callVars, deviceVars
<1>1. ASSUME NEW c \in Commands, Claim(c)
      PROVE  TypeOK'
  <2>1. now \in Int
    BY Durations DEF TypeOK
  <2>2. [outbox[c] EXCEPT !.delivery = "dispatching", !.attempted = now] \in OutboxRow
    BY <2>1 DEF TypeOK, OutboxRow
  <2> QED
    BY <1>1, <2>2 DEF Claim, TypeOK, Undecided
<1>2. ASSUME NEW c \in Commands, NEW r \in Results, NEW queued \in BOOLEAN,
             Send(c, r, queued)
      PROVE  TypeOK'
  BY <1>2 DEF Send, TypeOK, Undecided
<1>3. ASSUME NEW c \in Commands, RecordDelivery(c)
      PROVE  TypeOK'
  <2>1. now + RetryDelay \in Int /\ now \in Int
    BY Durations DEF TypeOK
  <2>2. Recorded(c) \in OutboxRow
    <3> DEFINE at == IF sender[c] = "broker_confirmed" THEN now ELSE NoTime
    <3>1. at \in Int /\ sender[c] \in Results /\ outbox[c] \in OutboxRow
      BY <1>3, <2>1 DEF RecordDelivery, TypeOK, NoTime
    <3>2. Recorded(c) = [outbox[c] EXCEPT !.delivery = sender[c], !.confirmed = at,
                                          !.next = now + RetryDelay]
      BY DEF Recorded
    <3> HIDE DEF at
    <3> QED
      BY <2>1, <3>1, <3>2 DEF OutboxRow
  <2>3. corr' \in [Keys -> CorrRow]
    BY <1>3 DEF RecordDelivery, TypeOK, CorrRow, DeliveryFlag
  <2> QED
    BY <1>3, <2>2, <2>3 DEF RecordDelivery, TypeOK, Undecided
<1> QED
  BY <1>1, <1>2, <1>3 DEF Delivery

LEMMA DeviceTypeOK == TypeOK /\ Device => TypeOK'
<1> SUFFICES ASSUME TypeOK, NEW c \in Commands,
                    RefuseExpired(c) \/ RefuseCommand(c) \/ Execute(c)
             PROVE  TypeOK'
  BY DEF Device
<1> USE DEF callVars, TypeOK, Undecided, AckKinds
<1>1. CASE RefuseExpired(c)
  BY <1>1 DEF RefuseExpired
<1>2. CASE RefuseCommand(c)
  BY <1>2 DEF RefuseCommand
<1>3. CASE Execute(c)
  BY <1>3, Durations DEF Execute
<1> QED
  BY <1>1, <1>2, <1>3

LEMMA UplinkTypeOK == TypeOK /\ Uplink => TypeOK'
<1> SUFFICES ASSUME TypeOK, Uplink PROVE TypeOK'
  OBVIOUS
<1> USE DEF callVars, deviceVars
<1>1. ASSUME NEW c \in Commands, NEW d \in Devices, NEW kind \in AckKinds,
             MarkAck(c, d, kind)
      PROVE  TypeOK'
  <2>1. cmd' \in [Commands -> CommandRow]
    <3>1. cmd[c] \in CommandRow /\ kind \in Statuses
      BY DEF TypeOK, AckKinds, Statuses
    <3>2. cmd' = [cmd EXCEPT ![c] = [cmd[c] EXCEPT !.status = kind]]
      BY <1>1 DEF MarkAck
    <3> QED
      BY <3>1, <3>2, StatusType DEF TypeOK
  <2>2. outbox' \in [Commands -> OutboxRow]
    BY <1>1 DEF MarkAck, TypeOK, OutboxRow
  <2>3. NewWatch \in WatchRow
    BY RowTypes
  <2>4. watch' \in [Commands -> WatchRow]
    BY <1>1, <2>3 DEF MarkAck, TypeOK
  <2>5. prop' \in [Proposals -> ProposalRow]
    BY <1>1 DEF MarkAck, TypeOK, ProposalRow, TaskAfterAck, Outcomes
  <2>6. Undecided'
    BY <1>1 DEF MarkAck, TypeOK, ProposalRow, Undecided
  <2> QED
    BY <1>1, <2>1, <2>2, <2>4, <2>5, <2>6 DEF MarkAck, TypeOK
<1>2. ASSUME NEW d \in Devices, NEW ts \in 0..(MaxTime + ClockSkew), NEW v \in Outcomes,
             RecordStatusSample(d, ts, v)
      PROVE  TypeOK'
  <2>1. ts \in Int
    BY Durations
  <2>2. watch' \in [Commands -> WatchRow]
    BY <1>2, <2>1 DEF RecordStatusSample, TypeOK, WatchRow
  <2> QED
    BY <1>2, <2>2 DEF RecordStatusSample, TypeOK, Undecided
<1>3. ASSUME NEW d \in Devices, NEW ts \in 0..(MaxTime + ClockSkew), RecordErrorLog(d, ts)
      PROVE  TypeOK'
  <2>1. watch' \in [Commands -> WatchRow]
    BY <1>3 DEF RecordErrorLog, TypeOK, WatchRow
  <2> QED
    BY <1>3, <2>1 DEF RecordErrorLog, TypeOK, Undecided
<1> QED
  BY <1>1, <1>2, <1>3 DEF Uplink

LEMMA BackgroundTypeOK == TypeOK /\ Background => TypeOK'
<1> SUFFICES ASSUME TypeOK, Background PROVE TypeOK'
  OBVIOUS
<1> USE DEF callVars, deviceVars
<1>1. CASE MarkTimedOutCommands
  <2>1. cmd' \in [Commands -> CommandRow]
    <3>1. ASSUME NEW c \in Commands
          PROVE  [cmd[c] EXCEPT !.status = "timeout"] \in CommandRow /\ cmd[c] \in CommandRow
      BY StatusType DEF TypeOK, Statuses
    <3> QED
      BY <1>1, <3>1 DEF MarkTimedOutCommands
  <2>2. prop' \in [Proposals -> ProposalRow]
    <3>1. ASSUME NEW p \in Proposals
          PROVE  /\ [prop[p] EXCEPT !.task = "inconclusive"] \in ProposalRow
                 /\ prop[p] \in ProposalRow
      BY TaskType DEF TypeOK, Outcomes
    <3> QED
      BY <1>1, <3>1 DEF MarkTimedOutCommands
  <2>3. Undecided'
    BY <1>1 DEF MarkTimedOutCommands, TypeOK, ProposalRow, Undecided
  <2> QED
    BY <1>1, <2>1, <2>2, <2>3 DEF MarkTimedOutCommands, TypeOK
<1>2. CASE FinalizeWatches
  <2>1. \A c \in Commands : Verdict(c) \in Outcomes
    BY DEF Verdict, TypeOK, WatchRow, Outcomes
  <2>2. NoWatch \in WatchRow
    BY DEF NoWatch, WatchRow, Outcomes, NoTime
  <2>3. cmd' \in [Commands -> CommandRow]
    BY <1>2, <2>1 DEF FinalizeWatches, TypeOK, CommandRow
  <2>4. prop' \in [Proposals -> ProposalRow]
    <3>1. ASSUME NEW p \in Proposals, prop[p].command \in Commands
          PROVE  [prop[p] EXCEPT !.task = Verdict(prop[p].command)] \in ProposalRow
      BY <2>1, <3>1, TaskType DEF TypeOK
    <3>2. prop \in [Proposals -> ProposalRow]
      BY DEF TypeOK
    <3> QED
      BY <1>2, <3>1, <3>2 DEF FinalizeWatches
  <2>5. Undecided'
    BY <1>2 DEF FinalizeWatches, TypeOK, ProposalRow, Undecided
  <2> QED
    BY <1>2, <2>2, <2>3, <2>4, <2>5 DEF FinalizeWatches, TypeOK
<1> QED
  BY <1>1, <1>2 DEF Background

LEMMA ProcessTypeOK == TypeOK /\ (Crash \/ Restart \/ Tick) => TypeOK'
<1> SUFFICES ASSUME TypeOK, Crash \/ Restart \/ Tick PROVE TypeOK'
  OBVIOUS
<1> USE Durations DEF deviceVars
<1>1. CASE Crash
  <2>1. crashes' \in 0..MaxCrashes
    <3>1. crashes \in 0..MaxCrashes /\ crashes < MaxCrashes /\ crashes' = crashes + 1
      BY <1>1 DEF Crash, TypeOK
    <3> QED
      BY <3>1
  <2>2. sender' \in [Commands -> {"idle", "claimed"} \cup Results]
    BY <1>1 DEF Crash
  <2> QED
    BY <1>1, <2>1, <2>2, Zenon DEF Crash, TypeOK, Undecided
<1>2. CASE Restart
  <2>1. outbox' \in [Commands -> OutboxRow]
    BY <1>2 DEF Restart, TypeOK, OutboxRow, Recovered, Results
  <2> QED
    BY <1>2, <2>1 DEF Restart, TypeOK, Undecided
<1>3. CASE Tick
  BY <1>3 DEF Tick, TypeOK, Undecided
<1> QED
  BY <1>1, <1>2, <1>3

LEMMA NextTypeOK == TypeOK /\ [Next]_vars => TypeOK'
<1>1. TypeOK /\ Next => TypeOK'
  BY RequestsTypeOK, DeliveryTypeOK, DeviceTypeOK, UplinkTypeOK, BackgroundTypeOK,
     ProcessTypeOK DEF Next
<1>2. TypeOK /\ UNCHANGED vars => TypeOK'
  BY DEF TypeOK, Undecided, vars
<1> QED
  BY <1>1, <1>2

\* Every row the service writes is a legal row: statuses, verdicts, versions
\* and references stay in their domains for every number of commands.
THEOREM TypeCorrect == Spec => []TypeOK
  BY InitTypeOK, NextTypeOK, PTL DEF Spec

-----------------------------------------------------------------------------
(* An action concerns one command, or treats every command alike.  The      *)
(* invariant of a command none of whose rows changed survives the step.     *)

Untouched(x) ==
  /\ cmd'[x] = cmd[x] /\ outbox'[x] = outbox[x] /\ watch'[x] = watch[x]
  /\ sender'[x] = sender[x] /\ handed'[x] = handed[x] /\ executed'[x] = executed[x]
  /\ \A kind \in AckKinds : <<x, kind>> \in acks' <=> <<x, kind>> \in acks
  /\ x \in abandoned' <=> x \in abandoned

LEMMA UntouchedKeepsInv ==
  ASSUME NEW x \in Commands, CommandInv(x), Untouched(x), up' = up, now' = now
  PROVE  CommandInv(x)'
<1> USE DEF CommandInv, Untouched
<1>1. SenderInv(x)'
  BY DEF SenderInv
<1>2. OutboxInv(x)'
  BY DEF OutboxInv
<1>3. DeviceInv(x)'
  BY DEF DeviceInv, AckKinds
<1>4. AbandonedInv(x)'
  BY DEF AbandonedInv
<1>5. RepairInv(x)'
  BY DEF RepairInv
<1> QED
  BY <1>1, <1>2, <1>3, <1>4, <1>5

\* What the type invariant says about the rows of one command.
LEMMA CommandTypes ==
  ASSUME TypeOK, NEW c \in Commands
  PROVE  /\ cmd[c] \in CommandRow /\ outbox[c] \in OutboxRow /\ watch[c] \in WatchRow
         /\ handed[c] \in Nat /\ executed[c] \in Nat /\ now \in Int
         /\ outbox[c].expires \in Int
         /\ watch[c].started \in Int /\ watch[c].sampled \in Int
         /\ sender[c] \in {"idle", "claimed"} \cup Results
<1>1. /\ cmd[c] \in CommandRow /\ outbox[c] \in OutboxRow /\ watch[c] \in WatchRow
      /\ handed[c] \in Nat /\ executed[c] \in 0..MaxExecutions /\ now \in 0..MaxTime
      /\ sender[c] \in {"idle", "claimed"} \cup Results
  BY DEF TypeOK
<1>2. outbox[c].expires \in Int /\ watch[c].started \in Int /\ watch[c].sampled \in Int
  BY <1>1 DEF OutboxRow, WatchRow
<1> QED
  BY <1>1, <1>2, Durations

LEMMA InitInv == Init => ControlInv
  BY DEF Init, ControlInv, CommandInv, SenderInv, OutboxInv, DeviceInv, AbandonedInv,
         RepairInv, AbsentCommand, NoOutbox, NoWatch, AckKinds

-----------------------------------------------------------------------------
(* Requests.                                                                *)

\* A new command starts with a fresh row in every table.
LEMMA NewCommandInv ==
  ASSUME NEW c \in Commands, CommandInv(c), cmd[c].status = "absent",
         NEW d, NEW p, NEW k,
         cmd'[c] = NewCommand(d, p, k), outbox'[c] = Enqueued,
         UNCHANGED <<callVars, deviceVars, watch, sender, abandoned>>
  PROVE  CommandInv(c)'
<1> USE DEF callVars, deviceVars
<1>1. outbox[c].delivery = "none" /\ handed[c] = 0 /\ sender[c] = "idle"
      /\ cmd[c].verify = "none"
  BY DEF CommandInv, SenderInv, OutboxInv, RepairInv
<1>2. SenderInv(c)'
  BY <1>1 DEF SenderInv
<1>3. OutboxInv(c)'
  BY <1>1 DEF OutboxInv, NewCommand, Enqueued
<1>4. DeviceInv(c)'
  BY DEF CommandInv, DeviceInv
<1>5. AbandonedInv(c)'
  BY DEF CommandInv, AbandonedInv
<1>6. RepairInv(c)'
  BY DEF CommandInv, RepairInv, NewCommand
<1> QED
  BY <1>2, <1>3, <1>4, <1>5, <1>6 DEF CommandInv

LEMMA RequestsInv == TypeOK /\ ControlInv /\ Requests => ControlInv'
<1> SUFFICES ASSUME TypeOK, ControlInv, Requests, NEW x \in Commands
             PROVE  CommandInv(x)'
  BY DEF ControlInv
<1>0. CommandInv(x)
  BY DEF ControlInv
<1>1. ASSUME NEW c \in Commands, NEW d \in Devices, NEW k \in Keys \cup {None},
             CreateCommand(c, d, k)
      PROVE  CommandInv(x)'
  <2>1. CASE x = c
    <3>1. /\ cmd[x].status = "absent"
          /\ cmd'[x] = NewCommand(d, None, k) /\ outbox'[x] = Enqueued
          /\ UNCHANGED <<callVars, deviceVars, watch, sender, abandoned>>
      BY <1>1, <2>1 DEF CreateCommand, TypeOK
    <3> QED
      BY <1>0, <3>1, NewCommandInv
  <2>2. CASE x # c
    <3>1. Untouched(x) /\ up' = up /\ now' = now
      BY <1>1, <2>2 DEF CreateCommand, TypeOK, Untouched, callVars, deviceVars
    <3> QED
      BY <1>0, <3>1, UntouchedKeepsInv
  <2> QED
    BY <2>1, <2>2
<1>2. ASSUME NEW p \in Proposals, NEW v \in 1..2, NEW c \in Commands, Approve(p, v, c)
      PROVE  CommandInv(x)'
  <2>1. CASE x = c
    <3>1. /\ cmd[x].status = "absent"
          /\ cmd'[x] = NewCommand(prop[p].device, p, None) /\ outbox'[x] = Enqueued
          /\ UNCHANGED <<callVars, deviceVars, watch, sender, abandoned>>
      BY <1>2, <2>1 DEF Approve, TypeOK
    <3> QED
      BY <1>0, <3>1, NewCommandInv
  <2>2. CASE x # c
    <3>1. Untouched(x) /\ up' = up /\ now' = now
      BY <1>2, <2>2 DEF Approve, TypeOK, Untouched, callVars, deviceVars
    <3> QED
      BY <1>0, <3>1, UntouchedKeepsInv
  <2> QED
    BY <2>1, <2>2
<1>3. ASSUME UNCHANGED <<callVars, deviceVars, cmd, outbox, watch, sender, abandoned>>
      PROVE  CommandInv(x)'
  BY <1>0, <1>3, UntouchedKeepsInv DEF Untouched, callVars, deviceVars
<1> QED
  BY <1>1, <1>2, <1>3 DEF Requests, CreateProposal, Reject, ReadProposals

-----------------------------------------------------------------------------
(* Delivery.                                                                *)

LEMMA DeliveryInv == TypeOK /\ ControlInv /\ Delivery => ControlInv'
<1> SUFFICES ASSUME TypeOK, ControlInv, Delivery, NEW x \in Commands
             PROVE  CommandInv(x)'
  BY DEF ControlInv
<1>0. CommandInv(x)
  BY DEF ControlInv
<1> USE DEF callVars, deviceVars
<1>1. ASSUME NEW c \in Commands, Claim(c)
      PROVE  CommandInv(x)'
  <2>1. CASE x # c
    <3>1. Untouched(x) /\ up' = up /\ now' = now
      BY <1>1, <2>1 DEF Claim, TypeOK, Untouched
    <3> QED
      BY <1>0, <3>1, UntouchedKeepsInv
  <2>2. CASE x = c
    <3>1. /\ up /\ up' = up /\ now' = now
          /\ cmd[x].status = "pending" /\ outbox[x].delivery = "pending"
          /\ sender'[x] = "claimed" /\ outbox'[x].delivery = "dispatching"
      BY <1>1, <2>2 DEF Claim, Claimable, TypeOK, OutboxRow
    <3>2. /\ cmd'[x] = cmd[x] /\ watch'[x] = watch[x] /\ handed'[x] = handed[x]
          /\ executed' = executed /\ acks' = acks /\ abandoned' = abandoned
      BY <1>1 DEF Claim
    <3>3. handed[x] = 0
      BY <1>0, <3>1 DEF CommandInv, OutboxInv
    <3>4. SenderInv(x)'
      BY <3>1, <3>2, <3>3 DEF SenderInv
    <3>5. OutboxInv(x)'
      BY <1>0, <3>1, <3>2, <3>3 DEF CommandInv, OutboxInv
    <3>6. DeviceInv(x)' /\ RepairInv(x)'
      BY <1>0, <3>2 DEF CommandInv, DeviceInv, RepairInv
    <3>7. AbandonedInv(x)'
      BY <1>0, <3>1, <3>2 DEF CommandInv, AbandonedInv
    <3> QED
      BY <3>4, <3>5, <3>6, <3>7 DEF CommandInv
  <2> QED
    BY <2>1, <2>2
<1>2. ASSUME NEW c \in Commands, NEW r \in Results, NEW queued \in BOOLEAN,
             Send(c, r, queued)
      PROVE  CommandInv(x)'
  <2>1. CASE x # c
    <3>1. Untouched(x) /\ up' = up /\ now' = now
      BY <1>2, <2>1 DEF Send, TypeOK, Untouched
    <3> QED
      BY <1>0, <3>1, UntouchedKeepsInv
  <2>2. CASE x = c
    <3>1. /\ up' = up /\ now' = now /\ sender[x] = "claimed" /\ sender'[x] = r
          /\ handed'[x] = IF queued THEN handed[x] + 1 ELSE handed[x]
          /\ r = "pending" => ~queued
          /\ r = "broker_confirmed" => queued
      BY <1>2, <2>2 DEF Send, TypeOK
    <3>2. /\ cmd' = cmd /\ watch' = watch /\ outbox' = outbox
          /\ executed' = executed /\ acks' = acks /\ abandoned' = abandoned
      BY <1>2 DEF Send
    <3>3. handed[x] = 0 /\ outbox[x].delivery = "dispatching" /\ up
      BY <1>0, <3>1 DEF CommandInv, SenderInv
    <3>4. /\ handed'[x] \in {0, 1}
          /\ r = "pending" => handed'[x] = 0
          /\ r = "broker_confirmed" => handed'[x] = 1
      BY <3>1, <3>3
    <3>5. SenderInv(x)'
      BY <3>1, <3>2, <3>3, <3>4 DEF SenderInv, Results
    <3>6. OutboxInv(x)'
      BY <1>0, <3>2, <3>3, <3>4 DEF CommandInv, OutboxInv
    <3>7. DeviceInv(x)' /\ RepairInv(x)'
      BY <1>0, <3>2, <3>3 DEF CommandInv, DeviceInv, RepairInv, AckKinds
    <3>8. AbandonedInv(x)'
      BY <1>0, <3>1, <3>2 DEF CommandInv, AbandonedInv
    <3> QED
      BY <3>5, <3>6, <3>7, <3>8 DEF CommandInv
  <2> QED
    BY <2>1, <2>2
<1>3. ASSUME NEW c \in Commands, RecordDelivery(c)
      PROVE  CommandInv(x)'
  <2>1. CASE x # c
    <3>1. Untouched(x) /\ up' = up /\ now' = now
      BY <1>3, <2>1 DEF RecordDelivery, TypeOK, Untouched
    <3> QED
      BY <1>0, <3>1, UntouchedKeepsInv
  <2>2. CASE x = c
    <3>1. /\ up' = up /\ now' = now /\ sender[x] \in Results /\ sender'[x] = "idle"
          /\ cmd' = cmd /\ watch' = watch /\ handed' = handed
          /\ executed' = executed /\ acks' = acks /\ abandoned' = abandoned
      BY <1>3, <2>2 DEF RecordDelivery, TypeOK
    <3>2. /\ outbox'[x].expires = outbox[x].expires
          /\ outbox'[x].delivery = IF OwnsRow(x) THEN sender[x] ELSE outbox[x].delivery
      <4>1. CASE OwnsRow(x)
        <5>1. outbox'[x] = Recorded(x) /\ outbox[x] \in OutboxRow
          BY <1>3, <2>2, <4>1 DEF RecordDelivery, TypeOK
        <5>2. Recorded(x).expires = outbox[x].expires /\ Recorded(x).delivery = sender[x]
          BY <5>1 DEF Recorded, OutboxRow
        <5> QED
          BY <4>1, <5>1, <5>2
      <4>2. CASE ~OwnsRow(x)
        BY <1>3, <2>2, <4>2 DEF RecordDelivery
      <4> QED
        BY <4>1, <4>2
    <3>3. /\ sender[x] = "pending" => handed[x] = 0
          /\ sender[x] = "broker_confirmed" => handed[x] = 1
          /\ outbox[x].delivery \in {"dispatching", "device_acked"}
      BY <1>0, <3>1 DEF CommandInv, SenderInv, Results
    <3>4. SenderInv(x)'
      BY <3>1 DEF SenderInv
    <3>5. OutboxInv(x)'
      BY <1>0, <3>1, <3>2, <3>3 DEF CommandInv, OutboxInv, OwnsRow, Results
    <3>6. DeviceInv(x)' /\ RepairInv(x)'
      BY <1>0, <3>1 DEF CommandInv, DeviceInv, RepairInv
    <3>7. AbandonedInv(x)'
      BY <1>0, <3>1, <3>2 DEF CommandInv, AbandonedInv, Results
    <3> QED
      BY <3>4, <3>5, <3>6, <3>7 DEF CommandInv
  <2> QED
    BY <2>1, <2>2
<1> QED
  BY <1>1, <1>2, <1>3 DEF Delivery

-----------------------------------------------------------------------------
(* Devices and their messages.                                              *)

\* A device acts on what it was handed, and only before the queue lifetime
\* is over: a command abandoned in the queue is out of its reach.
LEMMA DeviceStepInv == TypeOK /\ ControlInv /\ Device => ControlInv'
<1> SUFFICES ASSUME TypeOK, ControlInv, NEW x \in Commands, NEW c \in Commands,
                    RefuseExpired(c) \/ RefuseCommand(c) \/ Execute(c)
             PROVE  CommandInv(x)'
  BY DEF Device, ControlInv
<1>0. CommandInv(x) /\ CommandInv(c)
  BY DEF ControlInv
<1>1. /\ UNCHANGED <<up, now, handed, cmd, outbox, watch, sender, abandoned>>
      /\ handed[c] > 0
  BY DEF RefuseExpired, RefuseCommand, Execute, callVars
<1>2. handed[c] = 1
  BY <1>0, <1>1 DEF CommandInv, OutboxInv
<1>3. SenderInv(x)' /\ OutboxInv(x)'
  BY <1>0, <1>1 DEF CommandInv, SenderInv, OutboxInv
<1>4. CASE RefuseExpired(c) \/ RefuseCommand(c)
  <2>1. executed' = executed /\ acks' = acks \cup {<<c, "failed">>}
    BY <1>4 DEF RefuseExpired, RefuseCommand
  <2>2. DeviceInv(x)'
    BY <1>0, <1>1, <1>2, <2>1 DEF CommandInv, DeviceInv, AckKinds
  <2>3. AbandonedInv(x)' /\ RepairInv(x)'
    BY <1>0, <1>1, <2>1 DEF CommandInv, AbandonedInv, RepairInv
  <2> QED
    BY <1>3, <2>2, <2>3 DEF CommandInv
<1>5. CASE Execute(c)
  <2>1. /\ executed' = [executed EXCEPT ![c] = @ + 1]
        /\ acks' = acks \cup {<<c, "applied">>}
        /\ outbox[c].expires > now
    BY <1>5 DEF Execute
  <2>2. /\ executed[x] \in Nat
        /\ executed'[x] = IF x = c THEN executed[x] + 1 ELSE executed[x]
    BY <2>1, CommandTypes DEF TypeOK
  <2>3. executed'[x] > 0 <=> executed[x] > 0 \/ x = c
    BY <2>2
  <2>4. DeviceInv(x)'
    BY <1>0, <1>1, <1>2, <2>1, <2>3 DEF CommandInv, DeviceInv, AckKinds
  <2>5. RepairInv(x)'
    BY <1>0, <1>1, <2>3 DEF CommandInv, RepairInv
  <2>6. AbandonedInv(x)'
    <3>1. CASE x # c
      BY <1>0, <1>1, <2>2, <3>1 DEF CommandInv, AbandonedInv
    <3>2. CASE x = c
      <4>1. x \notin abandoned
        BY <1>0, <1>2, <2>1, <3>2, CommandTypes DEF CommandInv, AbandonedInv
      <4> QED
        BY <1>1, <4>1 DEF AbandonedInv
    <3> QED
      BY <3>1, <3>2
  <2> QED
    BY <1>3, <2>4, <2>5, <2>6 DEF CommandInv
<1> QED
  BY <1>4, <1>5

LEMMA UplinkInv == TypeOK /\ ControlInv /\ Uplink => ControlInv'
<1> SUFFICES ASSUME TypeOK, ControlInv, Uplink, NEW x \in Commands
             PROVE  CommandInv(x)'
  BY DEF ControlInv
<1>0. CommandInv(x)
  BY DEF ControlInv
<1> USE DEF callVars, deviceVars
<1>1. ASSUME NEW c \in Commands, NEW d \in Devices, NEW kind \in AckKinds,
             MarkAck(c, d, kind)
      PROVE  CommandInv(x)'
  <2>1. CASE x # c
    <3>1. Untouched(x) /\ up' = up /\ now' = now
      BY <1>1, <2>1 DEF MarkAck, TypeOK, Untouched
    <3> QED
      BY <1>0, <3>1, UntouchedKeepsInv
  <2>2. CASE x = c
    <3>1. /\ up' = up /\ now' = now /\ cmd[x].status = "pending" /\ <<x, kind>> \in acks
          /\ handed' = handed /\ executed' = executed /\ acks' = acks
          /\ sender' = sender /\ abandoned' = abandoned
      BY <1>1, <2>2 DEF MarkAck, Accepts, Acknowledged
    <3>2. cmd'[x].status = kind /\ cmd'[x].verify = cmd[x].verify
      BY <1>1, <2>2 DEF MarkAck, TypeOK, CommandRow
    <3>3. outbox'[x].delivery = "device_acked"
      BY <1>1, <2>2 DEF MarkAck, TypeOK, OutboxRow
    <3>4. handed[x] = 1 /\ kind \in {"applied", "failed"}
      BY <1>0, <3>1 DEF CommandInv, DeviceInv, AckKinds
    <3>5. ~watch[x].open /\ cmd[x].verify = "none"
      BY <1>0, <3>1 DEF CommandInv, RepairInv
    <3>6. watch'[x] = IF kind = "applied" THEN NewWatch ELSE watch[x]
      BY <1>1, <2>2, <3>5 DEF MarkAck, OpensWindow, TypeOK
    <3>7. SenderInv(x)'
      BY <1>0, <3>1, <3>3, <3>4 DEF CommandInv, SenderInv
    <3>8. OutboxInv(x)'
      BY <3>1, <3>2, <3>3, <3>4 DEF OutboxInv
    <3>9. DeviceInv(x)'
      BY <1>0, <3>1 DEF CommandInv, DeviceInv
    <3>10. AbandonedInv(x)'
      BY <1>0, <3>1 DEF CommandInv, AbandonedInv
    <3>11. RepairInv(x)'
      BY <1>0, <3>1, <3>2, <3>4, <3>5, <3>6 DEF CommandInv, DeviceInv, RepairInv, NewWatch
    <3> QED
      BY <3>7, <3>8, <3>9, <3>10, <3>11 DEF CommandInv
  <2> QED
    BY <2>1, <2>2
<1>2. ASSUME UNCHANGED <<callVars, deviceVars, cmd, outbox, sender, abandoned>>,
             watch'[x].open = watch[x].open,
             \/ watch'[x].evidence = watch[x].evidence /\ watch'[x].sampled = watch[x].sampled
             \/ watch'[x].sampled >= watch[x].started,
             watch'[x].started = watch[x].started
      PROVE  CommandInv(x)'
  <2>1. SenderInv(x)' /\ OutboxInv(x)' /\ DeviceInv(x)' /\ AbandonedInv(x)'
    BY <1>0, <1>2 DEF CommandInv, SenderInv, OutboxInv, DeviceInv, AbandonedInv
  <2>2. RepairInv(x)'
    BY <1>0, <1>2 DEF CommandInv, RepairInv
  <2> QED
    BY <2>1, <2>2 DEF CommandInv
<1>3. ASSUME NEW d \in Devices, NEW ts \in 0..(MaxTime + ClockSkew), NEW v \in Outcomes,
             RecordStatusSample(d, ts, v)
      PROVE  CommandInv(x)'
  <2>1. ts \in Int /\ watch[x] \in WatchRow /\ watch[x].started \in Int
    BY Durations, CommandTypes
  <2>2. watch'[x] = IF Observes(x, d, ts) /\ Replaces(x, ts)
                    THEN [watch[x] EXCEPT !.evidence = v, !.sampled = ts] ELSE watch[x]
    BY <1>3 DEF RecordStatusSample
  <2>3. CASE Observes(x, d, ts) /\ Replaces(x, ts)
    <3>1. watch'[x].open = watch[x].open /\ watch'[x].started = watch[x].started
          /\ watch'[x].sampled = ts
      BY <2>1, <2>2, <2>3 DEF WatchRow
    <3>2. ts >= watch[x].started
      BY <2>1, <2>3 DEF Observes
    <3> QED
      BY <1>2, <1>3, <3>1, <3>2 DEF RecordStatusSample
  <2>4. CASE ~(Observes(x, d, ts) /\ Replaces(x, ts))
    BY <1>2, <1>3, <2>2, <2>4 DEF RecordStatusSample
  <2> QED
    BY <2>3, <2>4
<1>4. ASSUME NEW d \in Devices, NEW ts \in 0..(MaxTime + ClockSkew), RecordErrorLog(d, ts)
      PROVE  CommandInv(x)'
  <2>1. /\ watch'[x].open = watch[x].open /\ watch'[x].started = watch[x].started
        /\ watch'[x].evidence = watch[x].evidence /\ watch'[x].sampled = watch[x].sampled
    BY <1>4, CommandTypes DEF RecordErrorLog, WatchRow
  <2> QED
    BY <1>2, <1>4, <2>1 DEF RecordErrorLog
<1> QED
  BY <1>1, <1>3, <1>4 DEF Uplink

-----------------------------------------------------------------------------
(* The background worker, crashes, restarts and the clock.                  *)

LEMMA BackgroundInv == TypeOK /\ ControlInv /\ Background => ControlInv'
<1> SUFFICES ASSUME TypeOK, ControlInv, Background, NEW x \in Commands
             PROVE  CommandInv(x)'
  BY DEF ControlInv
<1>0. CommandInv(x)
  BY DEF ControlInv
<1> USE DEF callVars, deviceVars
<1>1. CASE MarkTimedOutCommands
  <2>1. /\ UNCHANGED <<now, up, outbox, watch, sender, handed, executed, acks>>
        /\ cmd'[x] = IF Overdue(x) THEN [cmd[x] EXCEPT !.status = "timeout"] ELSE cmd[x]
        /\ x \in abandoned' <=> x \in abandoned \/ (Overdue(x) /\ handed[x] = 0)
    BY <1>1 DEF MarkTimedOutCommands
  <2>2. CASE ~Overdue(x)
    <3>1. Untouched(x) /\ up' = up /\ now' = now
      BY <2>1, <2>2 DEF Untouched
    <3> QED
      BY <1>0, <3>1, UntouchedKeepsInv
  <2>3. CASE Overdue(x)
    <3>1. cmd[x].status = "pending"
          /\ cmd'[x].status = "timeout" /\ cmd'[x].verify = cmd[x].verify
      BY <2>1, <2>3, CommandTypes DEF Overdue, CommandRow
    <3>2. SenderInv(x)' /\ DeviceInv(x)'
      BY <1>0, <2>1 DEF CommandInv, SenderInv, DeviceInv
    <3>3. OutboxInv(x)'
      BY <1>0, <2>1, <3>1 DEF CommandInv, OutboxInv
    <3>4. RepairInv(x)'
      BY <1>0, <2>1, <3>1 DEF CommandInv, RepairInv
    <3>5. AbandonedInv(x)'
      <4>1. SUFFICES ASSUME handed[x] = 0
                     PROVE  /\ executed[x] = 0
                            /\ \/ outbox[x].expires < now
                               \/ sender[x] = "idle" /\ outbox[x].delivery = "unknown"
        BY <1>0, <2>1, <3>1, <4>1 DEF CommandInv, AbandonedInv
      <4>2. executed[x] = 0
        BY <1>0, <4>1, CommandTypes DEF CommandInv, DeviceInv
      <4>3. CASE outbox[x].delivery \in {"broker_confirmed", "unknown"}
        BY <1>0, <4>1, <4>2, <4>3 DEF CommandInv, OutboxInv, SenderInv
      <4>4. CASE outbox[x].expires < now
        BY <4>2, <4>4
      <4> QED
        BY <2>3, <4>3, <4>4 DEF Overdue
    <3> QED
      BY <3>2, <3>3, <3>4, <3>5 DEF CommandInv
  <2> QED
    BY <2>2, <2>3
<1>2. CASE FinalizeWatches
  <2>1. /\ UNCHANGED <<now, up, outbox, sender, handed, executed, acks, abandoned>>
        /\ cmd'[x] = IF Due(x) THEN [cmd[x] EXCEPT !.verify = Verdict(x)] ELSE cmd[x]
        /\ watch'[x] = IF Due(x) THEN NoWatch ELSE watch[x]
    BY <1>2 DEF FinalizeWatches
  <2>2. CASE ~Due(x)
    <3>1. Untouched(x) /\ up' = up /\ now' = now
      BY <2>1, <2>2 DEF Untouched
    <3> QED
      BY <1>0, <3>1, UntouchedKeepsInv
  <2>3. CASE Due(x)
    <3>1. Verdict(x) # "none"
      BY CommandTypes DEF Verdict, WatchRow, Outcomes
    <3>2. cmd'[x].status = cmd[x].status /\ cmd'[x].verify = Verdict(x)
          /\ watch'[x] = NoWatch
      BY <2>1, <2>3, CommandTypes DEF CommandRow
    <3>3. cmd[x].status = "applied"
      BY <1>0, <2>3 DEF CommandInv, RepairInv, Due
    <3>4. SenderInv(x)' /\ OutboxInv(x)' /\ DeviceInv(x)' /\ AbandonedInv(x)'
      BY <1>0, <2>1, <3>2 DEF CommandInv, SenderInv, OutboxInv, DeviceInv, AbandonedInv
    <3>5. RepairInv(x)'
      BY <1>0, <2>1, <3>1, <3>2, <3>3 DEF CommandInv, RepairInv, NoWatch
    <3> QED
      BY <3>4, <3>5 DEF CommandInv
  <2> QED
    BY <2>2, <2>3
<1> QED
  BY <1>1, <1>2 DEF Background

LEMMA ProcessInv == TypeOK /\ ControlInv /\ (Crash \/ Restart \/ Tick) => ControlInv'
<1> SUFFICES ASSUME TypeOK, ControlInv, Crash \/ Restart \/ Tick, NEW x \in Commands
             PROVE  CommandInv(x)'
  BY DEF ControlInv
<1>0. CommandInv(x)
  BY DEF ControlInv
<1> USE DEF deviceVars
<1>1. CASE Crash
  <2>1. sender'[x] = "idle"
        /\ UNCHANGED <<now, cmd, outbox, watch, handed, executed, acks, abandoned>>
    BY <1>1 DEF Crash
  <2>2. SenderInv(x)'
    BY <2>1 DEF SenderInv
  <2>3. OutboxInv(x)' /\ DeviceInv(x)' /\ AbandonedInv(x)' /\ RepairInv(x)'
    BY <1>0, <2>1 DEF CommandInv, OutboxInv, DeviceInv, AbandonedInv, RepairInv
  <2> QED
    BY <2>2, <2>3 DEF CommandInv
<1>2. CASE Restart
  <2>1. /\ UNCHANGED <<now, cmd, watch, sender, handed, executed, acks, abandoned>>
        /\ outbox'[x] = [outbox[x] EXCEPT !.delivery = Recovered(x)] /\ ~up
    BY <1>2 DEF Restart
  <2>2. outbox'[x].expires = outbox[x].expires /\ outbox'[x].delivery = Recovered(x)
    BY <2>1, CommandTypes DEF OutboxRow
  <2>3. sender[x] = "idle"
    BY <1>0, <2>1 DEF CommandInv, SenderInv
  <2>4. SenderInv(x)'
    BY <2>1, <2>3 DEF SenderInv
  <2>5. OutboxInv(x)'
    BY <1>0, <2>1, <2>2 DEF CommandInv, OutboxInv, Recovered
  <2>6. DeviceInv(x)' /\ RepairInv(x)'
    BY <1>0, <2>1 DEF CommandInv, DeviceInv, RepairInv
  <2>7. AbandonedInv(x)'
    BY <1>0, <2>1, <2>2 DEF CommandInv, AbandonedInv, Recovered
  <2> QED
    BY <2>4, <2>5, <2>6, <2>7 DEF CommandInv
<1>3. CASE Tick
  <2>1. /\ now' = now + 1
        /\ UNCHANGED <<up, cmd, outbox, watch, sender, handed, executed, acks, abandoned>>
    BY <1>3 DEF Tick
  <2>2. outbox[x].expires < now => outbox[x].expires < now'
    BY <2>1, CommandTypes
  <2>3. AbandonedInv(x)'
    BY <1>0, <2>1, <2>2 DEF CommandInv, AbandonedInv
  <2>4. SenderInv(x)' /\ OutboxInv(x)' /\ DeviceInv(x)' /\ RepairInv(x)'
    BY <1>0, <2>1 DEF CommandInv, SenderInv, OutboxInv, DeviceInv, RepairInv
  <2> QED
    BY <2>3, <2>4 DEF CommandInv
<1> QED
  BY <1>1, <1>2, <1>3

-----------------------------------------------------------------------------
LEMMA StutterInv == ControlInv /\ UNCHANGED vars => ControlInv'
<1> SUFFICES ASSUME ControlInv, UNCHANGED vars, NEW x \in Commands
             PROVE  CommandInv(x)'
  BY DEF ControlInv
<1>1. Untouched(x) /\ up' = up /\ now' = now /\ CommandInv(x)
  BY DEF vars, Untouched, ControlInv
<1> QED
  BY <1>1, UntouchedKeepsInv

LEMMA NextInv == TypeOK /\ ControlInv /\ [Next]_vars => ControlInv'
  BY RequestsInv, DeliveryInv, DeviceStepInv, UplinkInv, BackgroundInv, ProcessInv,
     StutterInv DEF Next

\* Database rows, sending threads, devices and windows agree about every
\* command, whatever the interleaving of dispatch_command, acknowledgements,
\* sweeps and crashes.
THEOREM ControlCorrect == Spec => []ControlInv
<1>1. Init => TypeOK /\ ControlInv
  BY InitTypeOK, InitInv
<1>2. TypeOK /\ ControlInv /\ [Next]_vars => TypeOK' /\ ControlInv'
  BY NextTypeOK, NextInv
<1> QED
  BY <1>1, <1>2, PTL DEF Spec

\* dispatch_command never hands a command to MQTT a second time.
THEOREM AtMostOnce == Spec => []HandedAtMostOnce
<1>1. ControlInv => HandedAtMostOnce
  BY DEF ControlInv, CommandInv, OutboxInv, HandedAtMostOnce
<1> QED
  BY <1>1, ControlCorrect, PTL

\* What mark_timed_out_commands gives up in the queue is never run by a device.
THEOREM AbandonedStaysUnrun == Spec => []AbandonedNeverRuns
<1>1. ControlInv => AbandonedNeverRuns
  BY DEF ControlInv, CommandInv, AbandonedInv, AbandonedNeverRuns
<1> QED
  BY <1>1, ControlCorrect, PTL

\* mark_command_ack records "applied" only of commands the device ran.
THEOREM AppliedIsTrue == Spec => []AppliedWasExecuted
<1>1. ControlInv => AppliedWasExecuted
  BY DEF ControlInv, CommandInv, RepairInv, OutboxInv, AppliedWasExecuted
<1> QED
  BY <1>1, ControlCorrect, PTL

\* The verification row exists exactly from the acknowledgement to the
\* verdict, across crashes.
THEOREM WindowCorrect == Spec => []WindowUntilVerdict
<1>1. ControlInv => WindowUntilVerdict
  BY DEF ControlInv, CommandInv, RepairInv, WindowUntilVerdict
<1> QED
  BY <1>1, ControlCorrect, PTL

-----------------------------------------------------------------------------
(***************************************************************************)
(* The tables of the control service agree with one another: a correlation *)
(* key names one action, a proposal and its command point at each other,   *)
(* the task status tells the state of the command and the delivery flag    *)
(* that of its outbox row.  AgreementInv is inductive relative to TypeOK   *)
(* and ControlInv.                                                         *)
(***************************************************************************)
(* References are written when a command or a proposal is created and when  *)
(* a proposal is approved.  Every other step leaves them as they are.       *)

RefsKept ==
  /\ \A c \in Commands :
       /\ cmd'[c].key = cmd[c].key /\ cmd'[c].proposal = cmd[c].proposal
       /\ cmd'[c].status = "absent" <=> cmd[c].status = "absent"
  /\ \A p \in Proposals :
       /\ prop'[p].key = prop[p].key /\ prop'[p].command = prop[p].command
       /\ prop'[p].status = "approved" <=> prop[p].status = "approved"
  /\ \A k \in Keys :
       /\ corr'[k].command = corr[k].command /\ corr'[k].proposal = corr[k].proposal

LEMMA RefsKeptKeepsRefs ==
  ASSUME TypeOK, KeysInv, BondInv, RefsKept
  PROVE  KeysInv' /\ BondInv' /\ \A k \in Keys : CommandOf(k)' = CommandOf(k)
<1>1. KeysInv'
  BY DEF KeysInv, RefsKept
<1>2. BondInv'
  BY DEF BondInv, ApprovedHasItsCommand, RefsKept
<1>3. \A k \in Keys : CommandOf(k)' = CommandOf(k)
  BY DEF CommandOf, RefsKept
<1> QED
  BY <1>1, <1>2, <1>3

\* The types of the references.
LEMMA RefTypes ==
  ASSUME TypeOK
  PROVE  /\ None \notin Commands /\ None \notin Proposals /\ None \notin Keys
         /\ \A c \in Commands :
              cmd[c] \in CommandRow /\ cmd[c].proposal \in Proposals \cup {None}
         /\ \A p \in Proposals :
              prop[p] \in ProposalRow /\ prop[p].command \in Commands \cup {None}
         /\ \A k \in Keys :
              /\ corr[k] \in CorrRow
              /\ corr[k].command \in Commands \cup {None}
              /\ corr[k].proposal \in Proposals \cup {None}
  BY NoneIsNoId DEF TypeOK, CommandRow, ProposalRow, CorrRow

\* A row of action_correlation leads to a command exactly when it is the
\* command's own or that of its proposal.
LEMMA CorrelatedIsCommandOf ==
  ASSUME TypeOK, KeysInv, BondInv, NEW k \in Keys, NEW c \in Commands
  PROVE  Correlated(k, c) <=> CommandOf(k) = c
<1>1. CASE corr[k].command \in Commands
  BY <1>1, RefTypes DEF Correlated, CommandOf, KeysInv
<1>2. CASE corr[k].command \notin Commands
  <2>1. corr[k].command # c
    BY <1>2
  <2>2. CASE corr[k].proposal \in Proposals
    BY <1>2, <2>1, <2>2, RefTypes DEF Correlated, CommandOf, BondInv, ApprovedHasItsCommand
  <2>3. CASE corr[k].proposal = None
    BY <1>2, <2>1, <2>3, RefTypes DEF Correlated, CommandOf
  <2> QED
    BY <2>2, <2>3, RefTypes
<1> QED
  BY <1>1, <1>2

\* The flag outlives every step that leaves it alone and takes no
\* confirmation back.
LEMMA FlagKept ==
  ASSUME FlagInv,
         \A k \in Keys :
           /\ corr'[k].delivery = corr[k].delivery
           /\ CommandOf(k)' = CommandOf(k),
         \A c \in Commands :
           outbox[c].delivery \in {"broker_confirmed", "device_acked"} =>
             outbox'[c].delivery \in {"broker_confirmed", "device_acked"}
  PROVE  FlagInv'
  BY DEF FlagInv

\* So does the task status, when neither it nor the command changes.
LEMMA TaskKept ==
  ASSUME TaskMirrorsCommand,
         \A c \in Commands :
           cmd'[c].status = cmd[c].status /\ cmd'[c].verify = cmd[c].verify,
         \A p \in Proposals :
           prop'[p].command = prop[p].command /\ prop'[p].task = prop[p].task
  PROVE  TaskMirrorsCommand'
<1>1. \A c \in Commands : TaskOf(c)' = TaskOf(c)
  BY DEF TaskOf
<1> QED
  BY <1>1 DEF TaskMirrorsCommand

LEMMA InitAgreement == Init => AgreementInv
<1> SUFFICES ASSUME Init PROVE AgreementInv
  OBVIOUS
<1>1. KeysInv
  BY NoneIsNoId DEF Init, KeysInv, AbsentCommand, AbsentProposal, NoCorr
<1>2. BondInv /\ TaskMirrorsCommand
  BY NoneIsNoId DEF Init, BondInv, ApprovedHasItsCommand, TaskMirrorsCommand,
     AbsentCommand, AbsentProposal
<1>3. FlagInv
  BY DEF Init, FlagInv, NoCorr
<1> QED
  BY <1>1, <1>2, <1>3 DEF AgreementInv

-----------------------------------------------------------------------------
(* Requests.                                                                *)

LEMMA CreateCommandAgrees ==
  ASSUME TypeOK, ControlInv, AgreementInv,
         NEW c \in Commands, NEW d \in Devices, NEW k \in Keys \cup {None},
         CreateCommand(c, d, k)
  PROVE  AgreementInv'
<1> USE DEF AgreementInv
<1>1. /\ cmd[c].status = "absent" /\ cmd[c].proposal = None
      /\ outbox[c].delivery = "none"
  BY DEF CreateCommand, BondInv, ControlInv, CommandInv, OutboxInv
<1>2. /\ \A x \in Commands : cmd'[x] = IF x = c THEN NewCommand(d, None, k) ELSE cmd[x]
      /\ \A x \in Commands : outbox'[x] = IF x = c THEN Enqueued ELSE outbox[x]
      /\ \A j \in Keys : corr'[j] = IF j = k THEN [NoCorr EXCEPT !.command = c] ELSE corr[j]
      /\ prop' = prop
  BY DEF CreateCommand, Remember, TypeOK
<1>3. k \in Keys => corr[k] = NoCorr
  BY RefTypes DEF CreateCommand, KeyIsFree
<1>4. KeysInv'
  BY <1>2, <1>3, RefTypes DEF KeysInv, NewCommand, NoCorr
<1>5. BondInv'
  BY <1>1, <1>2, RefTypes DEF BondInv, ApprovedHasItsCommand, NewCommand
<1>6. TaskMirrorsCommand'
  <2>1. \A p \in Proposals : prop[p].command # c
    BY <1>1, RefTypes DEF BondInv, ApprovedHasItsCommand
  <2>2. \A x \in Commands : x # c => TaskOf(x)' = TaskOf(x)
    BY <1>2 DEF TaskOf
  <2> QED
    BY <1>2, <2>1, <2>2 DEF TaskMirrorsCommand
<1>7. FlagInv'
  <2> SUFFICES ASSUME NEW j \in Keys, corr'[j].delivery = "delivered"
               PROVE  /\ CommandOf(j)' \in Commands
                      /\ outbox'[CommandOf(j)'].delivery \in {"broker_confirmed", "device_acked"}
    BY DEF FlagInv
  <2>1. j # k
    BY <1>2 DEF NoCorr
  <2>2. CommandOf(j)' = CommandOf(j) /\ corr[j].delivery = "delivered"
    BY <1>2, <2>1 DEF CommandOf
  <2>3. CommandOf(j) # c
    BY <1>1, <2>2 DEF FlagInv
  <2> QED
    BY <1>2, <2>2, <2>3 DEF FlagInv
<1> QED
  BY <1>4, <1>5, <1>6, <1>7

LEMMA CreateProposalAgrees ==
  ASSUME TypeOK, AgreementInv,
         NEW p \in Proposals, NEW d \in Devices, NEW k \in Keys \cup {None},
         CreateProposal(p, d, k)
  PROVE  AgreementInv'
<1> USE DEF AgreementInv
<1>1. prop[p].status = "absent" /\ prop[p].command = None
  BY RefTypes DEF CreateProposal, BondInv, ApprovedHasItsCommand
<1>2. /\ \A q \in Proposals : prop'[q] = IF q = p THEN NewProposal(d, k) ELSE prop[q]
      /\ \A j \in Keys : corr'[j] = IF j = k THEN [NoCorr EXCEPT !.proposal = p] ELSE corr[j]
      /\ cmd' = cmd /\ outbox' = outbox
  BY DEF CreateProposal, Remember, TypeOK
<1>3. k \in Keys => corr[k] = NoCorr
  BY RefTypes DEF CreateProposal, KeyIsFree
<1>4. KeysInv'
  BY <1>2, <1>3, RefTypes DEF KeysInv, NewProposal, NoCorr
<1>5. BondInv'
  BY <1>1, <1>2, RefTypes DEF BondInv, ApprovedHasItsCommand, NewProposal
<1>6. TaskMirrorsCommand'
  <2>1. \A x \in Commands : TaskOf(x)' = TaskOf(x)
    BY <1>2 DEF TaskOf
  <2> QED
    BY <1>2, <2>1, RefTypes DEF TaskMirrorsCommand, NewProposal
<1>7. FlagInv'
  <2> SUFFICES ASSUME NEW j \in Keys, corr'[j].delivery = "delivered"
               PROVE  /\ CommandOf(j)' \in Commands
                      /\ outbox'[CommandOf(j)'].delivery \in {"broker_confirmed", "device_acked"}
    BY DEF FlagInv
  <2>1. j # k
    BY <1>2 DEF NoCorr
  <2>2. corr'[j] = corr[j] /\ corr[j].delivery = "delivered"
    BY <1>2, <2>1
  <2>3. CommandOf(j)' = CommandOf(j)
    BY <1>1, <1>2, <2>2, RefTypes DEF CommandOf, FlagInv, NewProposal
  <2> QED
    BY <1>2, <2>2, <2>3 DEF FlagInv
<1> QED
  BY <1>4, <1>5, <1>6, <1>7

LEMMA ApproveAgrees ==
  ASSUME TypeOK, ControlInv, AgreementInv,
         NEW p \in Proposals, NEW v \in 1..2, NEW c \in Commands, Approve(p, v, c)
  PROVE  AgreementInv'
<1> USE DEF AgreementInv
<1>1. /\ cmd[c].status = "absent" /\ cmd[c].proposal = None
      /\ outbox[c].delivery = "none"
  BY DEF Approve, BondInv, ControlInv, CommandInv, OutboxInv
<1>2. prop[p].status = "pending" /\ prop[p].command = None
  BY RefTypes DEF Approve, Decidable, BondInv, ApprovedHasItsCommand
<1>3. /\ \A x \in Commands : cmd'[x] = IF x = c THEN NewCommand(prop[p].device, p, None)
                                       ELSE cmd[x]
      /\ \A x \in Commands : outbox'[x] = IF x = c THEN Enqueued ELSE outbox[x]
      /\ corr' = corr
  BY DEF Approve, TypeOK
<1>4. /\ prop'[p].status = "approved" /\ prop'[p].task = "running"
      /\ prop'[p].command = c /\ prop'[p].key = prop[p].key
  <2>1. prop'[p] = [prop[p] EXCEPT !.status = "approved", !.version = prop[p].version + 1,
                                   !.task = "running", !.command = c]
    BY RefTypes DEF Approve, ProposalRow
  <2> QED
    BY <2>1, RefTypes DEF ProposalRow
<1>5. \A q \in Proposals : q # p =>
        /\ prop'[q].key = prop[q].key /\ prop'[q].command = prop[q].command
        /\ prop'[q].task = prop[q].task
        /\ prop'[q].status = "approved" <=> prop[q].status = "approved"
  <2> SUFFICES ASSUME NEW q \in Proposals, q # p
               PROVE  /\ prop'[q].key = prop[q].key /\ prop'[q].command = prop[q].command
                      /\ prop'[q].task = prop[q].task
                      /\ prop'[q].status = "approved" <=> prop[q].status = "approved"
    OBVIOUS
  <2>1. prop'[q] = Refreshed(q)
    BY DEF Approve
  <2> QED
    BY <2>1, RefTypes DEF Refreshed, Stale, ProposalRow
<1>6. KeysInv'
  BY <1>3, <1>4, <1>5, RefTypes DEF KeysInv, NewCommand
<1>7. BondInv'
  BY <1>1, <1>2, <1>3, <1>4, <1>5, RefTypes DEF BondInv, ApprovedHasItsCommand, NewCommand
<1>8. TaskMirrorsCommand'
  <2>1. \A q \in Proposals : prop[q].command # c
    BY <1>1, RefTypes DEF BondInv, ApprovedHasItsCommand
  <2>2. \A x \in Commands : x # c => TaskOf(x)' = TaskOf(x)
    BY <1>3 DEF TaskOf
  <2>3. TaskOf(c)' = "running"
    BY <1>3 DEF TaskOf, NewCommand
  <2> QED
    BY <1>4, <1>5, <2>1, <2>2, <2>3 DEF TaskMirrorsCommand
<1>9. FlagInv'
  <2> SUFFICES ASSUME NEW j \in Keys, corr[j].delivery = "delivered"
               PROVE  /\ CommandOf(j)' \in Commands
                      /\ outbox'[CommandOf(j)'].delivery \in {"broker_confirmed", "device_acked"}
    BY <1>3 DEF FlagInv
  <2>1. CommandOf(j) \in Commands /\ CommandOf(j) # c
    BY <1>1 DEF FlagInv
  <2>2. CommandOf(j)' = CommandOf(j)
    BY <1>2, <1>3, <1>5, <2>1, RefTypes DEF CommandOf
  <2> QED
    BY <1>3, <2>1, <2>2 DEF FlagInv
<1> QED
  BY <1>6, <1>7, <1>8, <1>9

\* A rejection and the expiry of stale proposals decide nothing about commands.
LEMMA UndecidedAgrees ==
  ASSUME TypeOK, AgreementInv, UNCHANGED <<cmd, outbox, corr>>,
         \A q \in Proposals :
           \/ prop'[q] = Refreshed(q)
           \/ /\ prop[q].status = "pending"
              /\ prop'[q] = [prop[q] EXCEPT !.status = "rejected", !.version = @ + 1]
  PROVE  AgreementInv'
<1> USE DEF AgreementInv
<1>1. \A q \in Proposals :
        /\ prop'[q].key = prop[q].key /\ prop'[q].command = prop[q].command
        /\ prop'[q].task = prop[q].task
        /\ prop'[q].status = "approved" <=> prop[q].status = "approved"
  <2> TAKE q \in Proposals
  <2>1. prop[q] \in ProposalRow
    BY RefTypes
  <2>2. CASE prop'[q] = Refreshed(q)
    <3>1. CASE Stale(q)
      <4>1. prop'[q] = [prop[q] EXCEPT !.status = "expired"] /\ prop[q].status = "pending"
        BY <2>2, <3>1 DEF Refreshed, Stale
      <4> QED
        BY <2>1, <4>1 DEF ProposalRow
    <3>2. CASE ~Stale(q)
      BY <2>2, <3>2 DEF Refreshed
    <3> QED
      BY <3>1, <3>2
  <2>3. CASE /\ prop[q].status = "pending"
             /\ prop'[q] = [prop[q] EXCEPT !.status = "rejected", !.version = @ + 1]
    BY <2>1, <2>3 DEF ProposalRow
  <2> QED
    BY <2>2, <2>3
<1>2. RefsKept
  BY <1>1 DEF RefsKept
<1>3. KeysInv' /\ BondInv' /\ \A k \in Keys : CommandOf(k)' = CommandOf(k)
  BY <1>2, RefsKeptKeepsRefs
<1>4. TaskMirrorsCommand'
  BY <1>1, TaskKept
<1>5. FlagInv'
  BY <1>3, FlagKept
<1> QED
  BY <1>3, <1>4, <1>5

LEMMA RequestsAgree == TypeOK /\ ControlInv /\ AgreementInv /\ Requests => AgreementInv'
<1> SUFFICES ASSUME TypeOK, ControlInv, AgreementInv, Requests PROVE AgreementInv'
  OBVIOUS
<1>1. ASSUME NEW p \in Proposals, NEW v \in 1..2, Reject(p, v)
      PROVE  AgreementInv'
  BY <1>1, UndecidedAgrees DEF Reject, Decidable
<1>2. ASSUME ReadProposals
      PROVE  AgreementInv'
  BY <1>2, UndecidedAgrees DEF ReadProposals
<1> QED
  BY <1>1, <1>2, CreateCommandAgrees, CreateProposalAgrees, ApproveAgrees DEF Requests

-----------------------------------------------------------------------------
(* Delivery.                                                                *)

LEMMA ClaimAgrees ==
  ASSUME TypeOK, AgreementInv, NEW c \in Commands, Claim(c)
  PROVE  AgreementInv'
<1> USE DEF AgreementInv
<1>1. UNCHANGED <<cmd, prop, corr>>
  BY DEF Claim
<1>2. \A x \in Commands :
        outbox[x].delivery \in {"broker_confirmed", "device_acked"} => outbox'[x] = outbox[x]
  BY DEF Claim, Claimable, TypeOK
<1>3. RefsKept
  BY <1>1 DEF RefsKept
<1>4. KeysInv' /\ BondInv' /\ \A k \in Keys : CommandOf(k)' = CommandOf(k)
  BY <1>3, RefsKeptKeepsRefs
<1>5. TaskMirrorsCommand'
  BY <1>1, TaskKept
<1>6. FlagInv'
  BY <1>1, <1>2, <1>4, FlagKept
<1> QED
  BY <1>4, <1>5, <1>6

LEMMA SendAgrees ==
  ASSUME TypeOK, AgreementInv, UNCHANGED <<cmd, outbox, prop, corr>>
  PROVE  AgreementInv'
<1> USE DEF AgreementInv
<1>1. RefsKept
  BY DEF RefsKept
<1>2. KeysInv' /\ BondInv' /\ \A k \in Keys : CommandOf(k)' = CommandOf(k)
  BY <1>1, RefsKeptKeepsRefs
<1>3. TaskMirrorsCommand' /\ FlagInv'
  BY <1>2, TaskKept, FlagKept
<1> QED
  BY <1>2, <1>3

\* The flag is written for the keys of this command and of its proposal: it
\* says "delivered" of a row that is confirmed in the same transaction, or
\* that an acknowledgement has taken further.
LEMMA RecordDeliveryAgrees ==
  ASSUME TypeOK, ControlInv, AgreementInv, NEW c \in Commands, RecordDelivery(c)
  PROVE  AgreementInv'
<1> USE DEF AgreementInv
<1>1. /\ UNCHANGED <<cmd, prop>>
      /\ sender[c] \in Results
      /\ \A k \in Keys : corr'[k] = IF Correlated(k, c)
                                    THEN [corr[k] EXCEPT !.delivery = DeliveryFlag(sender[c])]
                                    ELSE corr[k]
  BY DEF RecordDelivery
<1>2. \A k \in Keys :
        /\ corr'[k].command = corr[k].command /\ corr'[k].proposal = corr[k].proposal
        /\ corr'[k].delivery = IF Correlated(k, c) THEN DeliveryFlag(sender[c])
                               ELSE corr[k].delivery
  BY <1>1, RefTypes DEF CorrRow
<1>3. outbox[c].delivery \in {"dispatching", "device_acked"}
  BY <1>1 DEF ControlInv, CommandInv, SenderInv, Results
<1>4. outbox'[c].delivery = IF OwnsRow(c) THEN sender[c] ELSE outbox[c].delivery
  <2>1. CASE OwnsRow(c)
    <3>1. outbox'[c] = Recorded(c) /\ outbox[c] \in OutboxRow
      BY <2>1 DEF RecordDelivery, TypeOK
    <3>2. Recorded(c).delivery = sender[c]
      BY <3>1 DEF Recorded, OutboxRow
    <3> QED
      BY <2>1, <3>1, <3>2
  <2>2. CASE ~OwnsRow(c)
    BY <2>2 DEF RecordDelivery
  <2> QED
    BY <2>1, <2>2
<1>5. \A x \in Commands : x # c => outbox'[x] = outbox[x]
  BY DEF RecordDelivery, TypeOK
<1>6. RefsKept
  BY <1>1, <1>2 DEF RefsKept
<1>7. KeysInv' /\ BondInv' /\ \A k \in Keys : CommandOf(k)' = CommandOf(k)
  BY <1>6, RefsKeptKeepsRefs
<1>8. TaskMirrorsCommand'
  BY <1>1, TaskKept
<1>9. FlagInv'
  <2> SUFFICES ASSUME NEW k \in Keys, corr'[k].delivery = "delivered"
               PROVE  /\ CommandOf(k) \in Commands
                      /\ outbox'[CommandOf(k)].delivery \in {"broker_confirmed", "device_acked"}
    BY <1>7 DEF FlagInv
  <2>1. CASE Correlated(k, c)
    <3>1. CommandOf(k) = c
      BY <2>1, CorrelatedIsCommandOf
    <3>2. sender[c] = "broker_confirmed"
      BY <1>2, <2>1 DEF DeliveryFlag
    <3> QED
      BY <1>3, <1>4, <3>1, <3>2 DEF OwnsRow
  <2>2. CASE ~Correlated(k, c)
    <3>1. CommandOf(k) # c
      BY <2>2, CorrelatedIsCommandOf
    <3> QED
      BY <1>2, <1>5, <2>2, <3>1 DEF FlagInv
  <2> QED
    BY <2>1, <2>2
<1> QED
  BY <1>7, <1>8, <1>9

-----------------------------------------------------------------------------
(* Messages of the devices.                                                 *)

\* An acknowledgement tells the proposal of the command, and no other.
LEMMA MarkAckAgrees ==
  ASSUME TypeOK, ControlInv, AgreementInv,
         NEW c \in Commands, NEW d \in Devices, NEW kind \in AckKinds, MarkAck(c, d, kind)
  PROVE  AgreementInv'
<1> USE DEF AgreementInv
<1>1. cmd[c].status = "pending" /\ corr' = corr
  BY DEF MarkAck, Accepts
<1>2. cmd[c].verify = "none"
  BY <1>1 DEF ControlInv, CommandInv, RepairInv
<1>3. \A x \in Commands :
        /\ cmd'[x].key = cmd[x].key /\ cmd'[x].proposal = cmd[x].proposal
        /\ cmd'[x].verify = cmd[x].verify
        /\ cmd'[x].status = IF x = c THEN kind ELSE cmd[x].status
  BY RefTypes DEF MarkAck, TypeOK, CommandRow
<1>4. \A x \in Commands :
        outbox'[x].delivery = IF x = c THEN "device_acked" ELSE outbox[x].delivery
  BY DEF MarkAck, TypeOK, OutboxRow
<1>5. \A p \in Proposals :
        /\ prop'[p].key = prop[p].key /\ prop'[p].command = prop[p].command
        /\ prop'[p].status = prop[p].status
        /\ prop'[p].task = IF prop[p].command = c THEN TaskAfterAck(kind) ELSE prop[p].task
  BY RefTypes DEF MarkAck, ProposalRow
<1>6. RefsKept
  BY <1>1, <1>3, <1>5 DEF RefsKept, AckKinds
<1>7. KeysInv' /\ BondInv' /\ \A k \in Keys : CommandOf(k)' = CommandOf(k)
  BY <1>6, RefsKeptKeepsRefs
<1>8. TaskMirrorsCommand'
  <2>1. TaskOf(c)' = TaskAfterAck(kind)
    BY <1>2, <1>3 DEF TaskOf, TaskAfterAck, AckKinds
  <2>2. \A x \in Commands : x # c => TaskOf(x)' = TaskOf(x)
    BY <1>3 DEF TaskOf
  <2> QED
    BY <1>5, <2>1, <2>2 DEF TaskMirrorsCommand
<1>9. FlagInv'
  BY <1>1, <1>4, <1>7, FlagKept
<1> QED
  BY <1>7, <1>8, <1>9

-----------------------------------------------------------------------------
(* The sweeps of the worker, and the restart.                               *)

LEMMA TimeoutAgrees ==
  ASSUME TypeOK, AgreementInv, MarkTimedOutCommands
  PROVE  AgreementInv'
<1> USE DEF AgreementInv
<1>1. corr' = corr /\ outbox' = outbox
  BY DEF MarkTimedOutCommands
<1>2. \A x \in Commands :
        /\ cmd'[x].key = cmd[x].key /\ cmd'[x].proposal = cmd[x].proposal
        /\ cmd'[x].verify = cmd[x].verify
        /\ cmd'[x].status = IF Overdue(x) THEN "timeout" ELSE cmd[x].status
  BY RefTypes DEF MarkTimedOutCommands, CommandRow
<1>3. \A p \in Proposals :
        /\ prop'[p].key = prop[p].key /\ prop'[p].command = prop[p].command
        /\ prop'[p].status = prop[p].status
        /\ prop'[p].task = IF \E c \in Commands : Overdue(c) /\ prop[p].command = c
                           THEN "inconclusive" ELSE prop[p].task
  BY RefTypes DEF MarkTimedOutCommands, ProposalRow
<1>4. RefsKept
  BY <1>1, <1>2, <1>3 DEF RefsKept, Overdue
<1>5. KeysInv' /\ BondInv' /\ \A k \in Keys : CommandOf(k)' = CommandOf(k)
  BY <1>4, RefsKeptKeepsRefs
<1>6. TaskMirrorsCommand'
  <2>1. \A x \in Commands : Overdue(x) => TaskOf(x)' = "inconclusive"
    BY <1>2 DEF TaskOf
  <2>2. \A x \in Commands : ~Overdue(x) => TaskOf(x)' = TaskOf(x)
    BY <1>2 DEF TaskOf
  <2> QED
    BY <1>3, <2>1, <2>2 DEF TaskMirrorsCommand
<1>7. FlagInv'
  BY <1>1, <1>5, FlagKept
<1> QED
  BY <1>5, <1>6, <1>7

LEMMA FinalizeAgrees ==
  ASSUME TypeOK, ControlInv, AgreementInv, FinalizeWatches
  PROVE  AgreementInv'
<1> USE DEF AgreementInv
<1>1. corr' = corr /\ outbox' = outbox
  BY DEF FinalizeWatches
<1>2. \A x \in Commands :
        /\ cmd'[x].key = cmd[x].key /\ cmd'[x].proposal = cmd[x].proposal
        /\ cmd'[x].status = cmd[x].status
        /\ cmd'[x].verify = IF Due(x) THEN Verdict(x) ELSE cmd[x].verify
  BY RefTypes DEF FinalizeWatches, CommandRow
<1>3. \A x \in Commands : Due(x) => cmd[x].status = "applied" /\ Verdict(x) # "none"
  <2> SUFFICES ASSUME NEW x \in Commands, Due(x)
               PROVE  cmd[x].status = "applied" /\ Verdict(x) # "none"
    OBVIOUS
  <2>1. cmd[x].status = "applied"
    BY DEF Due, ControlInv, CommandInv, RepairInv
  <2>2. Verdict(x) # "none"
    BY CommandTypes DEF Verdict, WatchRow, Outcomes
  <2> QED
    BY <2>1, <2>2
<1>4. \A p \in Proposals :
        /\ prop'[p].key = prop[p].key /\ prop'[p].command = prop[p].command
        /\ prop'[p].status = prop[p].status
        /\ prop'[p].task = IF /\ prop[p].status = "approved"
                              /\ prop[p].command \in {c \in Commands : Due(c)}
                           THEN Verdict(prop[p].command) ELSE prop[p].task
  BY RefTypes DEF FinalizeWatches, ProposalRow
<1>5. RefsKept
  BY <1>1, <1>2, <1>4 DEF RefsKept
<1>6. KeysInv' /\ BondInv' /\ \A k \in Keys : CommandOf(k)' = CommandOf(k)
  BY <1>5, RefsKeptKeepsRefs
<1>7. TaskMirrorsCommand'
  <2>1. \A x \in Commands : TaskOf(x)' = IF Due(x) THEN Verdict(x) ELSE TaskOf(x)
    <3> SUFFICES ASSUME NEW x \in Commands
                 PROVE  TaskOf(x)' = IF Due(x) THEN Verdict(x) ELSE TaskOf(x)
      OBVIOUS
    <3>1. CASE Due(x)
      <4>1. /\ cmd'[x].status = "applied" /\ cmd'[x].verify = Verdict(x)
            /\ Verdict(x) # "none"
        BY <1>2, <1>3, <3>1
      <4> QED
        BY <3>1, <4>1 DEF TaskOf
    <3>2. CASE ~Due(x)
      <4>1. cmd'[x].status = cmd[x].status /\ cmd'[x].verify = cmd[x].verify
        BY <1>2, <3>2
      <4>2. TaskOf(x)' = TaskOf(x)
        BY <4>1 DEF TaskOf
      <4> QED
        BY <3>2, <4>2
    <3> QED
      BY <3>1, <3>2
  <2>2. \A p \in Proposals : prop[p].command \in Commands => prop[p].status = "approved"
    BY DEF BondInv, ApprovedHasItsCommand
  <2> QED
    BY <1>4, <2>1, <2>2 DEF TaskMirrorsCommand
<1>8. FlagInv'
  BY <1>1, <1>6, FlagKept
<1> QED
  BY <1>6, <1>7, <1>8

LEMMA RestartAgrees ==
  ASSUME TypeOK, AgreementInv, Restart
  PROVE  AgreementInv'
<1> USE DEF AgreementInv
<1>1. UNCHANGED <<cmd, prop, corr>>
  BY DEF Restart
<1>2. \A x \in Commands :
        outbox[x].delivery \in {"broker_confirmed", "device_acked"} =>
          outbox'[x].delivery = outbox[x].delivery
  BY CommandTypes DEF Restart, Recovered, OutboxRow
<1>3. RefsKept
  BY <1>1 DEF RefsKept
<1>4. KeysInv' /\ BondInv' /\ \A k \in Keys : CommandOf(k)' = CommandOf(k)
  BY <1>3, RefsKeptKeepsRefs
<1>5. TaskMirrorsCommand'
  BY <1>1, TaskKept
<1>6. FlagInv'
  BY <1>1, <1>2, <1>4, FlagKept
<1> QED
  BY <1>4, <1>5, <1>6

-----------------------------------------------------------------------------
LEMMA NextAgrees == TypeOK /\ ControlInv /\ AgreementInv /\ [Next]_vars => AgreementInv'
<1> SUFFICES ASSUME TypeOK, ControlInv, AgreementInv, [Next]_vars PROVE AgreementInv'
  OBVIOUS
<1>1. CASE Requests
  BY <1>1, RequestsAgree
<1>2. CASE Delivery
  BY <1>2, ClaimAgrees, SendAgrees, RecordDeliveryAgrees DEF Delivery, Send
<1>3. CASE Device
  BY <1>3, SendAgrees DEF Device, RefuseExpired, RefuseCommand, Execute
<1>4. CASE Uplink
  BY <1>4, MarkAckAgrees, SendAgrees DEF Uplink, RecordStatusSample, RecordErrorLog
<1>5. CASE Background
  BY <1>5, TimeoutAgrees, FinalizeAgrees DEF Background
<1>6. CASE Crash \/ Tick \/ UNCHANGED vars
  BY <1>6, SendAgrees DEF Crash, Tick, vars
<1>7. CASE Restart
  BY <1>7, RestartAgrees
<1> QED
  BY <1>1, <1>2, <1>3, <1>4, <1>5, <1>6, <1>7 DEF Next

\* device_command, remediation_proposal, action_correlation and
\* command_outbox tell one story between any two transactions.
THEOREM TablesAgree == Spec => []AgreementInv
<1>1. Init => TypeOK /\ ControlInv /\ AgreementInv
  BY InitTypeOK, InitInv, InitAgreement
<1>2. TypeOK /\ ControlInv /\ AgreementInv /\ [Next]_vars
        => TypeOK' /\ ControlInv' /\ AgreementInv'
  BY NextTypeOK, NextInv, NextAgrees
<1> QED
  BY <1>1, <1>2, PTL DEF Spec

\* A repeated request finds the action its key has made, and never makes a
\* second one.
THEOREM KeysAreUnique == Spec => []OneActionPerKey
<1>1. TypeOK /\ AgreementInv => OneActionPerKey
  BY NoneIsNoId DEF AgreementInv, KeysInv, OneActionPerKey
<1> QED
  BY <1>1, TypeCorrect, TablesAgree, PTL

\* decide_proposal binds one command to an approved proposal, for good.
THEOREM ApprovalBindsOneCommand == Spec => []ApprovedHasItsCommand
<1>1. AgreementInv => ApprovedHasItsCommand
  BY DEF AgreementInv, BondInv
<1> QED
  BY <1>1, TablesAgree, PTL

\* The task status of a proposal is that of its command after every
\* acknowledgement, timeout and verdict.
THEOREM TaskTellsTheCommand == Spec => []TaskMirrorsCommand
<1>1. AgreementInv => TaskMirrorsCommand
  BY DEF AgreementInv
<1> QED
  BY <1>1, TablesAgree, PTL

\* get_action_by_correlation reports "delivered" only of what the broker or
\* the device has confirmed.
THEOREM DeliveredIsTrue == Spec => []DeliveredIsConfirmed
<1>1. TypeOK /\ ControlInv /\ AgreementInv => DeliveredIsConfirmed
  BY DEF ControlInv, CommandInv, OutboxInv, AgreementInv, FlagInv, ReportedDelivery,
         DeliveredIsConfirmed
<1> QED
  BY <1>1, TypeCorrect, ControlCorrect, TablesAgree, PTL

-----------------------------------------------------------------------------
(* Every step changes the status, the verdict and the delivery of a command *)
(* in one of a few ways.                                                    *)

\* A command that has been answered or given up keeps its status, and a
\* verdict is never revised.
LEMMA SettledStep ==
  ASSUME TypeOK, ControlInv, Next, NEW c \in Commands
  PROVE  /\ cmd[c].status \in Settled => cmd'[c].status = cmd[c].status
         /\ cmd[c].verify # "none" => cmd'[c].verify = cmd[c].verify
<1>0. CommandInv(c) /\ cmd[c] \in CommandRow
  BY CommandTypes DEF ControlInv
<1>1. ASSUME NEW x \in Commands, NEW d \in Devices, NEW k \in Keys \cup {None},
             CreateCommand(x, d, k)
      PROVE  cmd[x].status = "absent" /\ (c # x => cmd'[c] = cmd[c])
  BY <1>1 DEF CreateCommand, TypeOK
<1>2. ASSUME NEW p \in Proposals, NEW v \in 1..2, NEW x \in Commands, Approve(p, v, x)
      PROVE  cmd[x].status = "absent" /\ (c # x => cmd'[c] = cmd[c])
  BY <1>2 DEF Approve, TypeOK
<1>3. CASE Requests
  BY <1>0, <1>1, <1>2, <1>3
     DEF Requests, CreateProposal, Reject, ReadProposals, Settled, CommandInv, RepairInv
<1>4. ASSUME NEW x \in Commands, NEW d \in Devices, NEW kind \in AckKinds,
             MarkAck(x, d, kind)
      PROVE  /\ cmd[c].status \in Settled => cmd'[c].status = cmd[c].status
             /\ cmd'[c].verify = cmd[c].verify
  <2>1. cmd[x].status = "pending" /\ cmd' = [cmd EXCEPT ![x].status = kind]
    BY <1>4 DEF MarkAck, Accepts
  <2> QED
    BY <1>0, <2>1 DEF TypeOK, CommandRow, Settled
<1>5. CASE Uplink
  BY <1>4, <1>5 DEF Uplink, RecordStatusSample, RecordErrorLog
<1>6. CASE MarkTimedOutCommands
  <2>1. cmd'[c] = IF Overdue(c) THEN [cmd[c] EXCEPT !.status = "timeout"] ELSE cmd[c]
    BY <1>6 DEF MarkTimedOutCommands
  <2> QED
    BY <1>0, <2>1 DEF CommandRow, Overdue, Settled
<1>7. CASE FinalizeWatches
  <2>1. cmd'[c] = IF Due(c) THEN [cmd[c] EXCEPT !.verify = Verdict(c)] ELSE cmd[c]
    BY <1>7 DEF FinalizeWatches
  <2>2. Due(c) => cmd[c].verify = "none"
    BY <1>0 DEF CommandInv, RepairInv, Due
  <2> QED
    BY <1>0, <2>1, <2>2 DEF CommandRow
<1>8. CASE Delivery \/ Device \/ Crash \/ Restart \/ Tick
  BY <1>8 DEF Delivery, Device, Claim, Send, RecordDelivery, RefuseExpired, RefuseCommand,
              Execute, Crash, Restart, Tick
<1> QED
  BY <1>3, <1>5, <1>6, <1>7, <1>8 DEF Next, Background

\* No step returns an unknown or confirmed delivery to the send queue.
LEMMA QueueStep ==
  ASSUME TypeOK, ControlInv, Next, NEW c \in Commands,
         outbox[c].delivery \in {"unknown", "broker_confirmed", "device_acked"}
  PROVE  outbox'[c].delivery \in {outbox[c].delivery, "device_acked"}
<1>0. CommandInv(c) /\ outbox[c] \in OutboxRow
  BY CommandTypes DEF ControlInv
<1>1. ASSUME NEW x \in Commands, NEW d \in Devices, NEW k \in Keys \cup {None},
             CreateCommand(x, d, k)
      PROVE  cmd[x].status = "absent" /\ (c # x => outbox'[c] = outbox[c])
  BY <1>1 DEF CreateCommand, TypeOK
<1>2. ASSUME NEW p \in Proposals, NEW v \in 1..2, NEW x \in Commands, Approve(p, v, x)
      PROVE  cmd[x].status = "absent" /\ (c # x => outbox'[c] = outbox[c])
  BY <1>2 DEF Approve, TypeOK
<1>3. CASE Requests
  BY <1>0, <1>1, <1>2, <1>3
     DEF Requests, CreateProposal, Reject, ReadProposals, CommandInv, OutboxInv
<1>4. ASSUME NEW x \in Commands, Claim(x)
      PROVE  outbox'[c] = outbox[c]
  BY <1>4 DEF Claim, Claimable, TypeOK
<1>5. ASSUME NEW x \in Commands, RecordDelivery(x)
      PROVE  outbox'[c] = outbox[c]
  BY <1>5 DEF RecordDelivery, OwnsRow, TypeOK
<1>6. CASE Delivery
  BY <1>4, <1>5, <1>6 DEF Delivery, Send
<1>7. ASSUME NEW x \in Commands, NEW d \in Devices, NEW kind \in AckKinds,
             MarkAck(x, d, kind)
      PROVE  outbox'[c].delivery \in {outbox[c].delivery, "device_acked"}
  BY <1>0, <1>7 DEF MarkAck, TypeOK, OutboxRow
<1>8. CASE Uplink
  BY <1>7, <1>8 DEF Uplink, RecordStatusSample, RecordErrorLog
<1>9. CASE Restart
  <2>1. outbox'[c] = [outbox[c] EXCEPT !.delivery = Recovered(c)]
    BY <1>9 DEF Restart
  <2> QED
    BY <1>0, <2>1 DEF OutboxRow, Recovered
<1>10. CASE Device \/ Background \/ Crash \/ Tick
  BY <1>10 DEF Device, RefuseExpired, RefuseCommand, Execute, Background,
               MarkTimedOutCommands, FinalizeWatches, Crash, Tick
<1> QED
  BY <1>3, <1>6, <1>8, <1>9, <1>10 DEF Next

\* A late ACK, a timeout that lost the race, a repeated sweep: none of them
\* revises the status or the verdict of a settled command.
THEOREM SettledStays == Spec => SettledForGood
<1>1. TypeOK /\ ControlInv /\ [Next]_vars =>
        [\A c \in Commands :
           /\ cmd[c].status \in Settled => cmd'[c].status = cmd[c].status
           /\ cmd[c].verify # "none" => cmd'[c].verify = cmd[c].verify]_vars
  BY SettledStep
<1> QED
  BY <1>1, TypeCorrect, ControlCorrect, PTL DEF Spec, SettledForGood

\* dispatch_command, its background retry and the recovery after a crash
\* never put an attempted delivery back into the queue.
THEOREM NoBlindRetry == Spec => NeverBackToQueue
<1>1. TypeOK /\ ControlInv /\ [Next]_vars =>
        [\A c \in Commands :
           outbox[c].delivery \in {"unknown", "broker_confirmed", "device_acked"} =>
             outbox'[c].delivery \in {outbox[c].delivery, "device_acked"}]_vars
  BY QueueStep
<1> QED
  BY <1>1, TypeCorrect, ControlCorrect, PTL DEF Spec, NeverBackToQueue

-----------------------------------------------------------------------------
(* Evidence.                                                                *)

\* Opening a window, a report and an error log are the only writes to it.
LEMMA WindowStep ==
  ASSUME TypeOK, ControlInv, Next, NEW c \in Commands, watch[c].open, watch'[c].open
  PROVE  watch[c].sampled <= watch'[c].sampled
<1>0. CommandInv(c) /\ watch[c] \in WatchRow /\ watch[c].sampled \in Int
  BY CommandTypes DEF ControlInv
<1>1. ASSUME NEW x \in Commands, NEW d \in Devices, NEW kind \in AckKinds,
             MarkAck(x, d, kind)
      PROVE  watch'[c] = watch[c]
  BY <1>1 DEF MarkAck, OpensWindow, TypeOK
<1>2. ASSUME NEW d \in Devices, NEW ts \in 0..(MaxTime + ClockSkew), NEW v \in Outcomes,
             RecordStatusSample(d, ts, v)
      PROVE  watch[c].sampled <= watch'[c].sampled
  <2>1. ts \in Int
    BY Durations
  <2>2. watch'[c] = IF Observes(c, d, ts) /\ Replaces(c, ts)
                    THEN [watch[c] EXCEPT !.evidence = v, !.sampled = ts] ELSE watch[c]
    BY <1>2 DEF RecordStatusSample
  <2>3. CASE Observes(c, d, ts) /\ Replaces(c, ts)
    <3>1. watch'[c].sampled = ts
      BY <1>0, <2>2, <2>3 DEF WatchRow
    <3> QED
      BY <2>3, <3>1 DEF Replaces
  <2>4. CASE ~(Observes(c, d, ts) /\ Replaces(c, ts))
    BY <1>0, <2>2, <2>4
  <2> QED
    BY <2>3, <2>4
<1>3. ASSUME NEW d \in Devices, NEW ts \in 0..(MaxTime + ClockSkew), RecordErrorLog(d, ts)
      PROVE  watch[c].sampled <= watch'[c].sampled
  <2>1. watch'[c].sampled = watch[c].sampled
    BY <1>0, <1>3 DEF RecordErrorLog, WatchRow
  <2> QED
    BY <1>0, <2>1
<1>4. CASE FinalizeWatches
  <2>1. watch'[c] = IF Due(c) THEN NoWatch ELSE watch[c]
    BY <1>4 DEF FinalizeWatches
  <2> QED
    BY <1>0, <2>1 DEF NoWatch
<1>5. CASE watch' = watch
  BY <1>0, <1>5
<1>6. Requests \/ Delivery \/ Device \/ MarkTimedOutCommands \/ Crash \/ Restart \/ Tick
        => watch' = watch
  BY DEF Requests, CreateCommand, CreateProposal, Reject, Approve, ReadProposals,
         Delivery, Claim, Send, RecordDelivery, Device, RefuseExpired, RefuseCommand,
         Execute, MarkTimedOutCommands, Crash, Restart, Tick
<1> QED
  BY <1>0, <1>1, <1>2, <1>3, <1>4, <1>5, <1>6 DEF Next, Uplink, Background

\* The sweep is the only writer of a verdict, and it judges by the window.
LEMMA VerdictStep ==
  ASSUME TypeOK, ControlInv, Next, NEW c \in Commands,
         cmd[c].verify = "none", cmd'[c].verify = "succeeded"
  PROVE  /\ watch[c].open /\ ~watch[c].error /\ now >= watch[c].deadline
         /\ watch[c].sampled >= watch[c].started
<1>0. CommandInv(c) /\ cmd[c] \in CommandRow /\ watch[c] \in WatchRow /\ now \in Int
      /\ watch[c].deadline \in Int
  BY CommandTypes DEF ControlInv, WatchRow
<1>1. FinalizeWatches
  <2>1. \A d, p, k : NewCommand(d, p, k).verify = "none"
    BY DEF NewCommand
  <2>2. ~Requests
    <3>1. ASSUME NEW x \in Commands, NEW d \in Devices, NEW k \in Keys \cup {None},
                 CreateCommand(x, d, k)
          PROVE  FALSE
      <4>1. cmd'[c] = IF c = x THEN NewCommand(d, None, k) ELSE cmd[c]
        BY <3>1 DEF CreateCommand, TypeOK
      <4> QED
        BY <1>0, <2>1, <4>1
    <3>2. ASSUME NEW p \in Proposals, NEW v \in 1..2, NEW x \in Commands, Approve(p, v, x)
          PROVE  FALSE
      <4>1. cmd'[c] = IF c = x THEN NewCommand(prop[p].device, p, None) ELSE cmd[c]
        BY <3>2 DEF Approve, TypeOK
      <4> QED
        BY <1>0, <2>1, <4>1
    <3>3. cmd' # cmd
      BY <1>0
    <3>4. \/ \E x \in Commands, d \in Devices, k \in Keys \cup {None} : CreateCommand(x, d, k)
          \/ \E p \in Proposals, v \in 1..2, x \in Commands : Approve(p, v, x)
          \/ cmd' = cmd
          \/ ~Requests
      BY DEF Requests, CreateProposal, Reject, ReadProposals
    <3> QED
      BY <3>1, <3>2, <3>3, <3>4
  <2>3. ASSUME NEW x \in Commands, NEW d \in Devices, NEW kind \in AckKinds,
               MarkAck(x, d, kind)
        PROVE  FALSE
    <3>1. cmd' = [cmd EXCEPT ![x].status = kind]
      BY <2>3 DEF MarkAck
    <3> QED
      BY <1>0, <3>1 DEF TypeOK, CommandRow
  <2>4. ~Uplink
    BY <2>3 DEF Uplink, RecordStatusSample, RecordErrorLog
  <2>5. ~MarkTimedOutCommands
    <3>1. SUFFICES ASSUME MarkTimedOutCommands PROVE cmd'[c].verify = cmd[c].verify
      OBVIOUS
    <3>2. cmd'[c] = IF Overdue(c) THEN [cmd[c] EXCEPT !.status = "timeout"] ELSE cmd[c]
      BY <3>1 DEF MarkTimedOutCommands
    <3> QED
      BY <1>0, <3>2 DEF CommandRow
  <2>6. ~(Delivery \/ Device \/ Crash \/ Restart \/ Tick)
    BY DEF Delivery, Device, Claim, Send, RecordDelivery, RefuseExpired, RefuseCommand,
           Execute, Crash, Restart, Tick
  <2> QED
    BY <2>2, <2>4, <2>5, <2>6 DEF Next, Background
<1>2. cmd'[c] = IF Due(c) THEN [cmd[c] EXCEPT !.verify = Verdict(c)] ELSE cmd[c]
  BY <1>1 DEF FinalizeWatches
<1>3. Due(c) /\ Verdict(c) = "succeeded"
  BY <1>0, <1>2 DEF CommandRow
<1>4. ~watch[c].error /\ watch[c].evidence = "succeeded"
  BY <1>0, <1>3 DEF Verdict
<1> QED
  BY <1>0, <1>3, <1>4 DEF Due, CommandInv, RepairInv

\* finalize_watches certifies a recovery only by a report made after the
\* acknowledgement, without an error in the window, after its end.
THEOREM CertificatesAreFresh == Spec => CertifiedByFreshEvidence
<1>1. TypeOK /\ ControlInv /\ [Next]_vars =>
        [\A c \in Commands :
           cmd[c].verify = "none" /\ cmd'[c].verify = "succeeded" =>
             /\ watch[c].open /\ ~watch[c].error /\ now >= watch[c].deadline
             /\ watch[c].sampled >= watch[c].started]_vars
  BY VerdictStep
<1> QED
  BY <1>1, TypeCorrect, ControlCorrect, PTL DEF Spec, CertifiedByFreshEvidence

\* record_status_sample never replaces evidence by an older report.
THEOREM EvidenceIsMonotonic == Spec => EvidenceOnlyGetsNewer
<1>1. TypeOK /\ ControlInv /\ [Next]_vars =>
        [\A c \in Commands :
           watch[c].open /\ watch'[c].open => watch[c].sampled <= watch'[c].sampled]_vars
  BY WindowStep
<1> QED
  BY <1>1, TypeCorrect, ControlCorrect, PTL DEF Spec, EvidenceOnlyGetsNewer

-----------------------------------------------------------------------------
(* Refinement: every step of the service is a step of the promise.          *)

stage   == [c \in Commands |-> cmd[c].status]
verdict == [c \in Commands |-> cmd[c].verify]
ran     == [c \in Commands |-> executed[c] > 0]

LEMMA PromiseInit == Init => Promise!Init
<1> SUFFICES ASSUME Init PROVE Promise!Init
  OBVIOUS
<1>1. /\ stage = [c \in Commands |-> "absent"]
      /\ verdict = [c \in Commands |-> "none"]
  BY DEF Init, AbsentCommand, stage, verdict
<1>2. \A c \in Commands : (executed[c] > 0) = FALSE
  BY DEF Init
<1>3. ran = [c \in Commands |-> FALSE]
  BY <1>2, Zenon DEF ran
<1> QED
  BY <1>1, <1>3 DEF Promise!Init, stage, verdict, ran, Init

\* A new command is accepted.
LEMMA AcceptStep ==
  ASSUME TypeOK, ControlInv, NEW c \in Commands, NEW d, NEW p, NEW k,
         cmd[c].status = "absent", cmd' = [cmd EXCEPT ![c] = NewCommand(d, p, k)],
         UNCHANGED deviceVars
  PROVE  Promise!Accept(c)
<1>1. cmd[c].verify = "none"
  BY DEF ControlInv, CommandInv, RepairInv
<1>2. stage' = [stage EXCEPT ![c] = "pending"]
  BY DEF stage, NewCommand, TypeOK
<1>3. verdict' = verdict
  BY <1>1 DEF verdict, NewCommand, TypeOK
<1> QED
  BY <1>2, <1>3 DEF Promise!Accept, stage, verdict, deviceVars

LEMMA RequestsPromise ==
  TypeOK /\ ControlInv /\ Requests => Promise!Next \/ UNCHANGED Promise!vars
<1> SUFFICES ASSUME TypeOK, ControlInv, Requests
             PROVE  Promise!Next \/ UNCHANGED Promise!vars
  OBVIOUS
<1>1. ASSUME NEW c \in Commands, NEW d \in Devices, NEW k \in Keys \cup {None},
             CreateCommand(c, d, k)
      PROVE  Promise!Accept(c)
  BY <1>1, AcceptStep DEF CreateCommand
<1>2. ASSUME NEW p \in Proposals, NEW v \in 1..2, NEW c \in Commands, Approve(p, v, c)
      PROVE  Promise!Accept(c)
  BY <1>2, AcceptStep DEF Approve
<1>3. ASSUME UNCHANGED <<deviceVars, cmd>>
      PROVE  UNCHANGED Promise!vars
  BY <1>3 DEF Promise!vars, deviceVars
<1> QED
  BY <1>1, <1>2, <1>3 DEF Requests, CreateProposal, Reject, ReadProposals, Promise!Next

LEMMA DeliveryPromise ==
  TypeOK /\ ControlInv /\ Delivery => Promise!Next \/ UNCHANGED Promise!vars
<1> SUFFICES ASSUME TypeOK, ControlInv, NEW c \in Commands,
                    \/ Claim(c) \/ RecordDelivery(c)
                    \/ \E r \in Results, queued \in BOOLEAN : Send(c, r, queued)
             PROVE  Promise!Next \/ UNCHANGED Promise!vars
  BY DEF Delivery
<1>1. CASE Claim(c) \/ RecordDelivery(c)
  BY <1>1 DEF Claim, RecordDelivery, deviceVars, Promise!vars
<1>2. ASSUME NEW r \in Results, NEW queued \in BOOLEAN, Send(c, r, queued)
      PROVE  Promise!Hand(c) \/ UNCHANGED Promise!vars
  <2>1. CASE ~queued
    <3>1. UNCHANGED <<cmd, executed>> /\ handed' = [handed EXCEPT ![c] = handed[c]]
      BY <1>2, <2>1 DEF Send
    <3>2. handed' = handed
      BY <3>1 DEF TypeOK
    <3> QED
      BY <3>1, <3>2 DEF Promise!vars
  <2>2. CASE queued
    <3>1. UNCHANGED <<cmd, executed>> /\ handed' = [handed EXCEPT ![c] = handed[c] + 1]
          /\ sender[c] = "claimed"
      BY <1>2, <2>2 DEF Send
    <3>2. handed[c] = 0 /\ outbox[c].delivery = "dispatching"
      BY <3>1 DEF ControlInv, CommandInv, SenderInv
    <3>3. cmd[c].status \in {"pending", "timeout"}
      BY <3>2, CommandTypes DEF ControlInv, CommandInv, OutboxInv, CommandRow, Statuses
    <3>4. handed' = [handed EXCEPT ![c] = 1]
      BY <3>1, <3>2
    <3> QED
      BY <3>1, <3>2, <3>3, <3>4 DEF Promise!Hand
  <2> QED
    BY <2>1, <2>2
<1> QED
  BY <1>1, <1>2 DEF Promise!Next

LEMMA DevicePromise ==
  TypeOK /\ ControlInv /\ Device => Promise!Next \/ UNCHANGED Promise!vars
<1> SUFFICES ASSUME TypeOK, ControlInv, NEW c \in Commands,
                    RefuseExpired(c) \/ RefuseCommand(c) \/ Execute(c)
             PROVE  Promise!Next \/ UNCHANGED Promise!vars
  BY DEF Device
<1>1. CASE RefuseExpired(c) \/ RefuseCommand(c)
  BY <1>1 DEF RefuseExpired, RefuseCommand, Promise!vars
<1>2. CASE Execute(c)
  <2>1. /\ UNCHANGED <<cmd, handed>> /\ handed[c] > 0
        /\ executed' = [executed EXCEPT ![c] = executed[c] + 1]
    BY <1>2 DEF Execute
  <2>2. handed[c] = 1
    BY <2>1 DEF ControlInv, CommandInv, OutboxInv
  <2>3. executed[c] + 1 > 0
    BY CommandTypes
  <2>4. ran' = [ran EXCEPT ![c] = TRUE]
    BY <2>1, <2>3 DEF ran, TypeOK
  <2>5. Promise!Run(c)
    BY <2>1, <2>2, <2>4 DEF Promise!Run, ran
  <2> QED
    BY <2>5 DEF Promise!Next
<1> QED
  BY <1>1, <1>2

LEMMA UplinkPromise ==
  TypeOK /\ ControlInv /\ Uplink => Promise!Next \/ UNCHANGED Promise!vars
<1> SUFFICES ASSUME TypeOK, ControlInv, Uplink
             PROVE  Promise!Next \/ UNCHANGED Promise!vars
  OBVIOUS
<1>1. ASSUME NEW c \in Commands, NEW d \in Devices, NEW kind \in AckKinds,
             MarkAck(c, d, kind)
      PROVE  Promise!Answer(c, kind)
  <2>1. /\ cmd[c].status = "pending" /\ <<c, kind>> \in acks
        /\ cmd' = [cmd EXCEPT ![c].status = kind]
        /\ UNCHANGED <<handed, executed>>
    BY <1>1 DEF MarkAck, Accepts, Acknowledged, deviceVars
  <2>2. handed[c] = 1 /\ (kind = "applied" => executed[c] > 0)
    BY <2>1 DEF ControlInv, CommandInv, DeviceInv
  <2>3. stage' = [stage EXCEPT ![c] = kind]
    BY <2>1 DEF stage, TypeOK, CommandRow
  <2>4. verdict' = verdict
    BY <2>1 DEF verdict, TypeOK, CommandRow
  <2> QED
    BY <2>1, <2>2, <2>3, <2>4 DEF Promise!Answer, stage, verdict
<1>2. ASSUME UNCHANGED <<deviceVars, cmd>>
      PROVE  UNCHANGED Promise!vars
  BY <1>2 DEF Promise!vars, deviceVars
<1> QED
  BY <1>1, <1>2 DEF Uplink, RecordStatusSample, RecordErrorLog, Promise!Next, AckKinds

LEMMA BackgroundPromise ==
  TypeOK /\ ControlInv /\ Background => Promise!Next \/ UNCHANGED Promise!vars
<1> SUFFICES ASSUME TypeOK, ControlInv, Background
             PROVE  Promise!Next \/ UNCHANGED Promise!vars
  OBVIOUS
<1>1. CASE MarkTimedOutCommands
  <2>1. /\ UNCHANGED <<handed, executed>>
        /\ \A c \in Commands :
             cmd'[c] = IF Overdue(c) THEN [cmd[c] EXCEPT !.status = "timeout"] ELSE cmd[c]
    BY <1>1 DEF MarkTimedOutCommands, deviceVars
  <2>2. ASSUME NEW c \in Commands
        PROVE  /\ cmd'[c].verify = cmd[c].verify
               /\ cmd'[c].status \in {"absent", "pending", "applied", "failed", "timeout"}
               /\ \/ cmd'[c].status = cmd[c].status
                  \/ cmd[c].status = "pending" /\ cmd'[c].status = "timeout"
    <3>1. cmd[c] \in CommandRow
      BY CommandTypes
    <3> QED
      BY <2>1, <3>1 DEF CommandRow, Statuses, Overdue
  <2>3. verdict' = verdict
    BY <2>2 DEF verdict
  <2>4. Promise!GiveUp
    BY <2>1, <2>2, <2>3 DEF Promise!GiveUp, verdict
  <2> QED
    BY <2>4 DEF Promise!Next
<1>2. CASE FinalizeWatches
  <2>1. /\ UNCHANGED <<handed, executed>>
        /\ \A c \in Commands :
             cmd'[c] = IF Due(c) THEN [cmd[c] EXCEPT !.verify = Verdict(c)] ELSE cmd[c]
    BY <1>2 DEF FinalizeWatches, deviceVars
  <2>2. ASSUME NEW c \in Commands
        PROVE  /\ cmd'[c].status = cmd[c].status
               /\ cmd'[c].verify \in Promise!Verdicts \cup {"none"}
               /\ \/ cmd'[c].verify = cmd[c].verify
                  \/ /\ cmd[c].status = "applied" /\ cmd[c].verify = "none"
                     /\ cmd'[c].verify \in Promise!Verdicts
    <3>1. cmd[c] \in CommandRow /\ watch[c] \in WatchRow
      BY CommandTypes
    <3>2. Verdict(c) \in Outcomes /\ Outcomes = Promise!Verdicts
      BY <3>1 DEF Verdict, WatchRow, Outcomes, Promise!Verdicts
    <3>3. Due(c) => cmd[c].status = "applied" /\ cmd[c].verify = "none"
      BY DEF Due, ControlInv, CommandInv, RepairInv
    <3> QED
      BY <2>1, <3>1, <3>2, <3>3 DEF CommandRow
  <2>3. stage' = stage
    BY <2>2 DEF stage
  <2>4. Promise!Judge
    BY <2>1, <2>2, <2>3 DEF Promise!Judge, stage
  <2> QED
    BY <2>4 DEF Promise!Next
<1> QED
  BY <1>1, <1>2 DEF Background

LEMMA PromiseStep ==
  TypeOK /\ ControlInv /\ [Next]_vars => [Promise!Next]_Promise!vars
<1>1. Crash \/ Restart \/ Tick \/ UNCHANGED vars => UNCHANGED Promise!vars
  BY DEF Crash, Restart, Tick, vars, deviceVars, Promise!vars
<1> QED
  BY <1>1, RequestsPromise, DeliveryPromise, DevicePromise, UplinkPromise,
     BackgroundPromise DEF Next

\* The service keeps its promise about every command: one hand-over at most,
\* one answer, one verdict, none of them invented, across crashes, timeouts
\* and late messages.
THEOREM ServiceKeepsPromise == Spec => KeepsPromise
<1>1. Init => Promise!Init
  BY PromiseInit
<1>2. TypeOK /\ ControlInv /\ [Next]_vars => [Promise!Next]_Promise!vars
  BY PromiseStep
<1> QED
  BY <1>1, <1>2, TypeCorrect, ControlCorrect, PTL DEF Spec, KeepsPromise, Promise!Spec
=============================================================================

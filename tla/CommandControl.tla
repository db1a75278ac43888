--------------------------- MODULE CommandControl ---------------------------
(***************************************************************************)
(* The IoT Control service: ControlRepository (SQLite), ControlMQTT and    *)
(* the control part of the MCP server, with the devices they drive.        *)
(*                                                                         *)
(* One action is one SQLite transaction, one MQTT hand-over or one device  *)
(* reaction.  The repository's RLock and BEGIN IMMEDIATE make each         *)
(* transaction atomic; between two transactions of the same handler every  *)
(* other action may happen, and so may a crash of the service.             *)
(*                                                                         *)
(* Time is a counter of coarse ticks.  The durations of the code (30 s     *)
(* acknowledgement timeout, 60 s observation window, 30 min queue and      *)
(* proposal lifetimes, 5 s retry delay and clock tolerance) are constants. *)
(*                                                                         *)
(* A definition X_y is not part of the model: it is X with a plausible     *)
(* mistake y, and shows that a property notices the mistake.               *)
(***************************************************************************)
EXTENDS Integers, FiniteSets

CONSTANTS
  Commands,        \* identifiers new_command_id may return
  Proposals,       \* identifiers new_proposal_id may return
  Devices,
  Keys,            \* correlation keys callers may send
  None,            \* SQL NULL in a reference column
  CommandTimeout,  \* command_timeout_seconds
  VerifyWindow,    \* verify_window_seconds
  CommandTTL,      \* the outbox lifetime, 30 minutes
  ProposalTTL,     \* proposal_ttl_minutes
  RetryDelay,      \* the delay before a definitely unsent command is retried
  ClockSkew,       \* how far ahead a device's timestamp may be
  MaxTime,         \* bound: last value of the clock
  LastRequest,     \* bound: no caller makes a request after this time
  MaxCrashes,      \* bound: crashes of the service in one behaviour
  MaxExecutions    \* bound: how often a device may run one command

ASSUME NoneIsNoId == None \notin Commands \cup Proposals \cup Keys

ASSUME DurationsAreNaturals ==
  {CommandTimeout, VerifyWindow, CommandTTL, ProposalTTL, RetryDelay, ClockSkew,
   MaxTime, LastRequest, MaxCrashes, MaxExecutions} \subseteq Nat

VARIABLES
  now,         \* wall clock
  up,          \* is the service process running?
  crashes,     \* crashes so far (bounds the model)
  cmd,         \* table device_command
  outbox,      \* table command_outbox, one row per command
  watch,       \* table command_verification
  prop,        \* table remediation_proposal
  corr,        \* table action_correlation
  sender,      \* per command, the thread inside dispatch_command (memory)
  handed,      \* per command, how often it was handed to MQTT (QoS 1)
  executed,    \* per command, how often a device carried it out
  acks,        \* acknowledgements the devices have published
  abandoned    \* history: timed out before they were ever handed to MQTT

vars == <<now, up, crashes, cmd, outbox, watch, prop, corr, sender, handed,
          executed, acks, abandoned>>

callVars   == <<now, up, crashes>>
deviceVars == <<handed, executed, acks>>

-----------------------------------------------------------------------------
(* Values.  NULL is the string "none" in a status, NoTime in a timestamp    *)
(* and None in a reference.  The row of a command not yet created has       *)
(* status "absent".                                                         *)

NoTime    == -1
Outcomes  == {"succeeded", "failed", "inconclusive"}
Results   == {"pending", "broker_confirmed", "unknown"}

Statuses  == {"absent", "pending", "applied", "failed", "timeout"}
Settled   == {"applied", "failed", "timeout"}
AckKinds  == {"applied", "failed"}

AbsentCommand ==
  [status |-> "absent", verify |-> "none", device |-> None, proposal |-> None,
   key |-> None, created |-> NoTime]

NewCommand(d, p, k) ==
  [status |-> "pending", verify |-> "none", device |-> d, proposal |-> p,
   key |-> k, created |-> now]

NoOutbox == [delivery |-> "none", attempted |-> NoTime, confirmed |-> NoTime,
             next |-> NoTime, expires |-> NoTime]

\* Trigger enqueue_device_command: the outbox row commits with the command.
Enqueued == [delivery |-> "pending", attempted |-> NoTime, confirmed |-> NoTime,
             next |-> now, expires |-> now + CommandTTL]

NoWatch == [open |-> FALSE, started |-> NoTime, deadline |-> NoTime,
            evidence |-> "inconclusive", sampled |-> NoTime, error |-> FALSE]

\* status_json starts as {}, which evaluate() finds inconclusive.
NewWatch == [open |-> TRUE, started |-> now, deadline |-> now + VerifyWindow,
             evidence |-> "inconclusive", sampled |-> NoTime, error |-> FALSE]

AbsentProposal == [status |-> "absent", version |-> 0, expires |-> NoTime,
                   task |-> "none", command |-> None, device |-> None, key |-> None]

NewProposal(d, k) ==
  [status |-> "pending", version |-> 1, expires |-> now + ProposalTTL,
   task |-> "none", command |-> None, device |-> d, key |-> k]

NoCorr == [command |-> None, proposal |-> None, delivery |-> "unknown"]

CommandRow ==
  [status: Statuses, verify: Outcomes \cup {"none"}, device: Devices \cup {None},
   proposal: Proposals \cup {None}, key: Keys \cup {None}, created: Int]

OutboxRow ==
  [delivery: {"none", "dispatching", "device_acked"} \cup Results,
   attempted: Int, confirmed: Int, next: Int, expires: Int]

WatchRow ==
  [open: BOOLEAN, started: Int, deadline: Int, evidence: Outcomes, sampled: Int,
   error: BOOLEAN]

ProposalRow ==
  [status: {"absent", "pending", "approved", "rejected", "expired"}, version: 0..2,
   expires: Int, task: Outcomes \cup {"none", "running", "verifying"},
   command: Commands \cup {None}, device: Devices \cup {None}, key: Keys \cup {None}]

CorrRow ==
  [command: Commands \cup {None}, proposal: Proposals \cup {None},
   delivery: {"unknown", "delivered"}]

\* Only decisions count versions up, so an undecided proposal has its first.
Undecided == \A p \in Proposals : prop[p].status = "pending" => prop[p].version = 1

TypeOK ==
  /\ now \in 0..MaxTime
  /\ up \in BOOLEAN
  /\ crashes \in 0..MaxCrashes
  /\ cmd \in [Commands -> CommandRow]
  /\ outbox \in [Commands -> OutboxRow]
  /\ watch \in [Commands -> WatchRow]
  /\ prop \in [Proposals -> ProposalRow]
  /\ corr \in [Keys -> CorrRow]
  /\ sender \in [Commands -> {"idle", "claimed"} \cup Results]
  /\ handed \in [Commands -> Nat]
  /\ executed \in [Commands -> 0..MaxExecutions]
  /\ acks \subseteq Commands \X AckKinds
  /\ abandoned \subseteq Commands
  /\ Undecided

Init ==
  /\ now = 0 /\ up = TRUE /\ crashes = 0
  /\ cmd = [c \in Commands |-> AbsentCommand]
  /\ outbox = [c \in Commands |-> NoOutbox]
  /\ watch = [c \in Commands |-> NoWatch]
  /\ prop = [p \in Proposals |-> AbsentProposal]
  /\ corr = [k \in Keys |-> NoCorr]
  /\ sender = [c \in Commands |-> "idle"]
  /\ handed = [c \in Commands |-> 0]
  /\ executed = [c \in Commands |-> 0]
  /\ acks = {} /\ abandoned = {}

-----------------------------------------------------------------------------
(* Requests.  A request may carry a correlation key; the mapping commits    *)
(* with the command or the proposal.                                        *)

Request == up /\ now <= LastRequest

KeyIsFree_forgetsProposals(k) == k = None \/ (k \in Keys /\ corr[k].command = None)

\* A replayed or conflicting key writes nothing: the handler returns the
\* first command (or ACTION_CORRELATION_CONFLICT).
KeyIsFree(k) == k = None \/ (k \in Keys /\ corr[k] = NoCorr)

Remember(k, row) == corr' = [j \in Keys |-> IF j = k THEN row ELSE corr[j]]

CreateCommand(c, d, k) ==
  /\ Request
  /\ cmd[c].status = "absent"
  /\ KeyIsFree(k)
  /\ cmd' = [cmd EXCEPT ![c] = NewCommand(d, None, k)]
  /\ outbox' = [outbox EXCEPT ![c] = Enqueued]
  /\ Remember(k, [NoCorr EXCEPT !.command = c])
  /\ UNCHANGED <<callVars, deviceVars, watch, prop, sender, abandoned>>

CreateProposal(p, d, k) ==
  /\ Request
  /\ prop[p].status = "absent"
  /\ KeyIsFree(k)
  /\ prop' = [prop EXCEPT ![p] = NewProposal(d, k)]
  /\ Remember(k, [NoCorr EXCEPT !.proposal = p])
  /\ UNCHANGED <<callVars, deviceVars, cmd, outbox, watch, sender, abandoned>>

Stale(p) == prop[p].status = "pending" /\ prop[p].expires < now

\* _expire_stale opens every transaction that reads or decides a proposal.
Refreshed(p) == IF Stale(p) THEN [prop[p] EXCEPT !.status = "expired"] ELSE prop[p]

\* list_proposals and get_proposal expire what is stale and then only read.
ReadProposals ==
  /\ up
  /\ prop' = [p \in Proposals |-> Refreshed(p)]
  /\ UNCHANGED <<callVars, deviceVars, cmd, outbox, watch, corr, sender, abandoned>>

Decidable_trustsVersion(p, v) ==
  Request /\ prop[p].status # "absent" /\ ~Stale(p) /\ prop[p].version = v

\* What decide_proposal requires of the proposal, after _expire_stale, when
\* the caller read version v.  Every other case raises and rolls back.
Decidable(p, v) ==
  /\ Request
  /\ prop[p].status = "pending" /\ ~Stale(p)
  /\ prop[p].version = v

Reject(p, v) ==
  /\ Decidable(p, v)
  /\ prop' = [q \in Proposals |->
                IF q = p THEN [prop[p] EXCEPT !.status = "rejected", !.version = @ + 1]
                ELSE Refreshed(q)]
  /\ UNCHANGED <<callVars, deviceVars, cmd, outbox, watch, corr, sender, abandoned>>

Approve(p, v, c) ==
  /\ Decidable(p, v)
  /\ cmd[c].status = "absent"
  /\ cmd' = [cmd EXCEPT ![c] = NewCommand(prop[p].device, p, None)]
  /\ outbox' = [outbox EXCEPT ![c] = Enqueued]
  /\ prop' = [q \in Proposals |->
                IF q = p THEN [prop[p] EXCEPT !.status = "approved", !.version = @ + 1,
                                              !.task = "running", !.command = c]
                ELSE Refreshed(q)]
  /\ UNCHANGED <<callVars, deviceVars, watch, corr, sender, abandoned>>

-----------------------------------------------------------------------------
(* Delivery: dispatch_command, called by a request handler right after its  *)
(* transaction and by dispatch_pending in the background.  Whoever wins the *)
(* claim owns the row until RecordDelivery; the lock is not held meanwhile. *)

Claimable_retriesUnknown(c) ==
  /\ cmd[c].status = "pending"
  /\ outbox[c].delivery \in {"pending", "unknown"}
  /\ outbox[c].next <= now
  /\ outbox[c].expires > now

Claimable(c) ==
  /\ cmd[c].status = "pending"
  /\ outbox[c].delivery = "pending"
  /\ outbox[c].next <= now
  /\ outbox[c].expires > now

Claim(c) ==
  /\ up
  /\ Claimable(c)
  /\ outbox' = [outbox EXCEPT ![c] = [@ EXCEPT !.delivery = "dispatching", !.attempted = now]]
  /\ sender' = [sender EXCEPT ![c] = "claimed"]
  /\ UNCHANGED <<callVars, deviceVars, cmd, watch, prop, corr, abandoned>>

\* send_command: "pending" only if the client is not connected, and then
\* nothing was handed over.  "unknown" covers a refused publish that paho may
\* still have queued, a PUBACK that did not come within 2 s, and an exception.
Send(c, result, queued) ==
  /\ up
  /\ sender[c] = "claimed"
  /\ result = "pending" => ~queued
  /\ result = "broker_confirmed" => queued
  /\ sender' = [sender EXCEPT ![c] = result]
  /\ handed' = [handed EXCEPT ![c] = IF queued THEN @ + 1 ELSE @]
  /\ UNCHANGED <<callVars, executed, acks, cmd, outbox, watch, prop, corr, abandoned>>

\* Correlation rows of the command itself and of its proposal.
Correlated(k, c) ==
  \/ corr[k].command = c
  \/ cmd[c].proposal # None /\ corr[k].proposal = cmd[c].proposal

OwnsRow_always(c) == TRUE

\* The second transaction keeps what an acknowledgement wrote meanwhile.
OwnsRow(c) == outbox[c].delivery = "dispatching"

DeliveryFlag_optimistic(result) == IF result = "pending" THEN "unknown" ELSE "delivered"

DeliveryFlag(result) == IF result = "broker_confirmed" THEN "delivered" ELSE "unknown"

Recorded(c) ==
  [outbox[c] EXCEPT !.delivery = sender[c],
                    !.confirmed = IF sender[c] = "broker_confirmed" THEN now ELSE NoTime,
                    !.next = now + RetryDelay]

RecordDelivery(c) ==
  /\ up
  /\ sender[c] \in Results
  /\ outbox' = IF OwnsRow(c)
               THEN [outbox EXCEPT ![c] = Recorded(c)] ELSE outbox
  /\ corr' = [k \in Keys |->
                IF Correlated(k, c)
                THEN [corr[k] EXCEPT !.delivery = DeliveryFlag(sender[c])]
                ELSE corr[k]]
  /\ sender' = [sender EXCEPT ![c] = "idle"]
  /\ UNCHANGED <<callVars, deviceVars, cmd, watch, prop, abandoned>>

-----------------------------------------------------------------------------
(* The device.  A command handed to MQTT may reach it never, once or        *)
(* several times, at any later moment (QoS 1, persistent session), and the  *)
(* handler does not look whether it has seen the command before.            *)

RefuseExpired(c) ==
  /\ handed[c] > 0
  /\ outbox[c].expires <= now
  /\ acks' = acks \cup {<<c, "failed">>}
  /\ UNCHANGED <<callVars, handed, executed, cmd, outbox, watch, prop, corr, sender, abandoned>>

\* The action or its parameters are not acceptable to the device.
RefuseCommand(c) ==
  /\ handed[c] > 0
  /\ outbox[c].expires > now
  /\ acks' = acks \cup {<<c, "failed">>}
  /\ UNCHANGED <<callVars, handed, executed, cmd, outbox, watch, prop, corr, sender, abandoned>>

Execute(c) ==
  /\ handed[c] > 0
  /\ outbox[c].expires > now
  /\ executed[c] < MaxExecutions
  /\ executed' = [executed EXCEPT ![c] = @ + 1]
  /\ acks' = acks \cup {<<c, "applied">>}
  /\ UNCHANGED <<callVars, handed, cmd, outbox, watch, prop, corr, sender, abandoned>>

-----------------------------------------------------------------------------
(* Uplink messages: acknowledgements, status samples and log lines.  They   *)
(* arrive late, repeatedly, in any order or never: an acknowledgement stays *)
(* in acks, a sample is an input with any earlier timestamp.                *)

\* Device d acknowledges command c: it was told to run it, or it names a
\* command of another device.
Acknowledged(c, d, kind) ==
  \/ <<c, kind>> \in acks /\ d = cmd[c].device
  \/ d \in Devices \ {cmd[c].device}

Accepts_anyDevice(c, d) == cmd[c].status = "pending"

\* A command that is not pending and another device's command are left alone
\* (so is an ACK whose status is neither applied nor failed).
Accepts(c, d) == cmd[c].status = "pending" /\ cmd[c].device = d

\* INSERT OR IGNORE INTO command_verification
OpensWindow(c, kind) == kind = "applied" /\ ~watch[c].open

TaskAfterAck_verifies(kind) == "verifying"

TaskAfterAck(kind) == IF kind = "applied" THEN "verifying" ELSE "failed"

\* mark_command_ack: one transaction over four tables.
MarkAck(c, d, kind) ==
  /\ up
  /\ Acknowledged(c, d, kind)
  /\ Accepts(c, d)
  /\ cmd' = [cmd EXCEPT ![c].status = kind]
  /\ outbox' = [outbox EXCEPT ![c].delivery = "device_acked"]
  /\ watch' = IF OpensWindow(c, kind)
              THEN [watch EXCEPT ![c] = NewWatch] ELSE watch
  /\ prop' = [p \in Proposals |->
                IF prop[p].command = c
                THEN [prop[p] EXCEPT !.task = TaskAfterAck(kind)]
                ELSE prop[p]]
  /\ UNCHANGED <<callVars, deviceVars, corr, sender, abandoned>>

Observes_anyTime(c, d, ts) ==
  watch[c].open /\ cmd[c].device = d /\ watch[c].deadline >= now

\* The windows a message of device d stamped ts speaks about.
Observes(c, d, ts) ==
  /\ watch[c].open
  /\ cmd[c].device = d
  /\ watch[c].started <= ts
  /\ watch[c].deadline >= now

\* A report older than the stored one is not evidence.
Replaces(c, ts) == watch[c].sampled <= ts

\* A status report stamped ts, of which evaluate() would make the outcome v.
\* It reaches every open window of the device.
RecordStatusSample(d, ts, v) ==
  /\ up
  /\ ts <= now + ClockSkew
  /\ watch' = [c \in Commands |->
                 IF Observes(c, d, ts) /\ Replaces(c, ts)
                 THEN [watch[c] EXCEPT !.evidence = v, !.sampled = ts]
                 ELSE watch[c]]
  /\ UNCHANGED <<callVars, deviceVars, cmd, outbox, prop, corr, sender, abandoned>>

\* An ERROR or CRITICAL log line, or a fault message.
RecordErrorLog(d, ts) ==
  /\ up
  /\ ts <= now + ClockSkew
  /\ watch' = [c \in Commands |->
                 IF Observes(c, d, ts) THEN [watch[c] EXCEPT !.error = TRUE] ELSE watch[c]]
  /\ UNCHANGED <<callVars, deviceVars, cmd, outbox, prop, corr, sender, abandoned>>

-----------------------------------------------------------------------------
(* The background worker, every 2 s: timeouts, then verdicts, then claims.  *)

\* COALESCE(confirmed_at, attempted_at, created_at)
AwaitingSince(c) ==
  IF outbox[c].confirmed # NoTime THEN outbox[c].confirmed
  ELSE IF outbox[c].attempted # NoTime THEN outbox[c].attempted
  ELSE cmd[c].created

Overdue_whileDispatching(c) ==
  /\ cmd[c].status = "pending"
  /\ \/ /\ outbox[c].delivery \in {"dispatching", "broker_confirmed", "unknown"}
        /\ AwaitingSince(c) < now - CommandTimeout
     \/ outbox[c].expires < now

Overdue_ifDelivered(c) ==
  /\ cmd[c].status = "pending"
  /\ outbox[c].delivery \in {"broker_confirmed", "unknown"}
  /\ AwaitingSince(c) < now - CommandTimeout

Overdue(c) ==
  /\ cmd[c].status = "pending"
  /\ \/ /\ outbox[c].delivery \in {"broker_confirmed", "unknown"}
        /\ AwaitingSince(c) < now - CommandTimeout
     \/ outbox[c].expires < now

MarkTimedOutCommands ==
  /\ up
  /\ cmd' = [c \in Commands |->
               IF Overdue(c) THEN [cmd[c] EXCEPT !.status = "timeout"] ELSE cmd[c]]
  /\ prop' = [p \in Proposals |->
                IF \E c \in Commands : Overdue(c) /\ prop[p].command = c
                THEN [prop[p] EXCEPT !.task = "inconclusive"] ELSE prop[p]]
  /\ abandoned' = abandoned \cup {c \in Commands : Overdue(c) /\ handed[c] = 0}
  /\ UNCHANGED <<callVars, deviceVars, outbox, watch, corr, sender>>

Due_ifSampled(c) ==
  watch[c].open /\ watch[c].deadline <= now /\ watch[c].sampled # NoTime

Due(c) == watch[c].open /\ watch[c].deadline <= now

Verdict(c) == IF watch[c].error THEN "failed" ELSE watch[c].evidence

FinalizeWatches ==
  /\ up
  /\ cmd' = [c \in Commands |->
               IF Due(c) THEN [cmd[c] EXCEPT !.verify = Verdict(c)] ELSE cmd[c]]
  /\ prop' = [p \in Proposals |->
                IF prop[p].status = "approved" /\ prop[p].command \in {c \in Commands : Due(c)}
                THEN [prop[p] EXCEPT !.task = Verdict(prop[p].command)] ELSE prop[p]]
  /\ watch' = [c \in Commands |-> IF Due(c) THEN NoWatch ELSE watch[c]]
  /\ UNCHANGED <<callVars, deviceVars, outbox, corr, sender, abandoned>>

-----------------------------------------------------------------------------
(* The process and the clock.  A crash loses the threads inside             *)
(* dispatch_command; the tables survive.                                    *)

Crash ==
  /\ up /\ crashes < MaxCrashes
  /\ up' = FALSE /\ crashes' = crashes + 1
  /\ sender' = [c \in Commands |-> "idle"]
  /\ UNCHANGED <<now, deviceVars, cmd, outbox, watch, prop, corr, abandoned>>

Recovered_requeues(c) ==
  IF outbox[c].delivery = "dispatching" THEN "pending" ELSE outbox[c].delivery

\* recover_delivery runs before MQTT and the worker start.
Recovered(c) == IF outbox[c].delivery = "dispatching" THEN "unknown" ELSE outbox[c].delivery

Restart ==
  /\ ~up
  /\ up' = TRUE
  /\ outbox' = [c \in Commands |-> [outbox[c] EXCEPT !.delivery = Recovered(c)]]
  /\ UNCHANGED <<now, crashes, deviceVars, cmd, watch, prop, corr, sender, abandoned>>

Tick ==
  /\ now < MaxTime
  /\ now' = now + 1
  /\ UNCHANGED <<up, crashes, deviceVars, cmd, outbox, watch, prop, corr, sender, abandoned>>

-----------------------------------------------------------------------------
Requests ==
  \/ \E c \in Commands, d \in Devices, k \in Keys \cup {None} : CreateCommand(c, d, k)
  \/ \E p \in Proposals, d \in Devices, k \in Keys \cup {None} : CreateProposal(p, d, k)
  \/ \E p \in Proposals, v \in 1..2 : Reject(p, v)
  \/ \E p \in Proposals, v \in 1..2, c \in Commands : Approve(p, v, c)
  \/ ReadProposals

Delivery ==
  \/ \E c \in Commands : Claim(c)
  \/ \E c \in Commands, r \in Results, queued \in BOOLEAN : Send(c, r, queued)
  \/ \E c \in Commands : RecordDelivery(c)

Device ==
  \E c \in Commands : RefuseExpired(c) \/ RefuseCommand(c) \/ Execute(c)

Uplink ==
  \/ \E c \in Commands, d \in Devices, kind \in AckKinds : MarkAck(c, d, kind)
  \/ \E d \in Devices, ts \in 0..(MaxTime + ClockSkew), v \in Outcomes :
        RecordStatusSample(d, ts, v)
  \/ \E d \in Devices, ts \in 0..(MaxTime + ClockSkew) : RecordErrorLog(d, ts)

Background == MarkTimedOutCommands \/ FinalizeWatches

Next == Requests \/ Delivery \/ Device \/ Uplink \/ Background \/ Crash \/ Restart \/ Tick

Spec == Init /\ [][Next]_vars

\* The worker sweeps every 2 s, well within a tick: once a deadline has passed,
\* the clock waits for the sweep.  Only the liveness runs need this; it keeps
\* the bound on the clock from ending a behaviour between a deadline and its
\* sweep.
Swept == \A c \in Commands : ~Overdue(c) /\ ~Due(c)

PunctualTick == Swept /\ Tick

\* The worker loop survives every exception, a supervisor restarts the
\* service, and time passes.  Neither the network nor the devices nor the
\* callers owe the service anything.
Fairness ==
  /\ WF_vars(PunctualTick)
  /\ WF_vars(Restart)
  /\ WF_vars(MarkTimedOutCommands)
  /\ WF_vars(FinalizeWatches)

FairSpec == Init /\ [][Next /\ (now' # now => Swept)]_vars /\ Fairness

-----------------------------------------------------------------------------
(* Safety.                                                                  *)

\* "Claim once. Only a definitive non-send may return to the retry queue":
\* whatever the request threads, the worker, the acknowledgements and the
\* crashes do, no command is handed to MQTT twice.
HandedAtMostOnce == \A c \in Commands : handed[c] <= 1

\* A command that timed out before it was ever handed to MQTT is never run
\* by a device, not even when its sender was already past the claim: the
\* queue lifetime the timeout waits for is the one the device refuses after.
AbandonedNeverRuns == \A c \in Commands : c \in abandoned => executed[c] = 0

\* A correlation key names at most one command or proposal, however often
\* and with whatever arguments the caller repeats the request.
OneActionPerKey ==
  \A k \in Keys :
    /\ \A c1, c2 \in Commands : cmd[c1].key = k /\ cmd[c2].key = k => c1 = c2
    /\ \A p1, p2 \in Proposals : prop[p1].key = k /\ prop[p2].key = k => p1 = p2
    /\ \A c \in Commands, p \in Proposals : ~(cmd[c].key = k /\ prop[p].key = k)

\* An approved proposal and its command point at each other, no other
\* proposal has a command, and a proposal never gets a second one.
ApprovedHasItsCommand ==
  \A p \in Proposals :
    /\ prop[p].status = "approved" <=> prop[p].command \in Commands
    /\ \A c \in Commands : cmd[c].proposal = p <=> prop[p].command = c

\* What the task status of a proposal must be, given its command.
TaskOf(c) ==
  CASE cmd[c].status = "pending" -> "running"
    [] cmd[c].status = "timeout" -> "inconclusive"
    [] cmd[c].status = "failed" -> "failed"
    [] cmd[c].status = "applied" /\ cmd[c].verify = "none" -> "verifying"
    [] cmd[c].status = "applied" /\ cmd[c].verify # "none" -> cmd[c].verify

\* The task status people read on the proposal tells the state of the
\* command, through acknowledgement, timeout and verdict.
TaskMirrorsCommand ==
  \A p \in Proposals :
    prop[p].task = IF prop[p].command \in Commands THEN TaskOf(prop[p].command) ELSE "none"

\* A command recorded as applied was executed by its own device, and its
\* outbox row says so even if the acknowledgement overtook the PUBACK.
AppliedWasExecuted ==
  \A c \in Commands :
    cmd[c].status = "applied" => executed[c] > 0 /\ outbox[c].delivery = "device_acked"

\* An observation window is open exactly while an applied command has no
\* verdict: the ACK and the window commit together and survive crashes.
WindowUntilVerdict ==
  \A c \in Commands :
    watch[c].open <=> cmd[c].status = "applied" /\ cmd[c].verify = "none"

\* get_action_by_correlation
CommandOf(k) ==
  IF corr[k].command \in Commands THEN corr[k].command
  ELSE IF corr[k].proposal \in Proposals THEN prop[corr[k].proposal].command
  ELSE None

ReportedDelivery(k) ==
  IF CommandOf(k) \in Commands
     /\ outbox[CommandOf(k)].delivery \in {"broker_confirmed", "device_acked"}
  THEN "delivered" ELSE corr[k].delivery

\* "delivered" is reported only when the broker or the device has confirmed:
\* the flag in action_correlation never runs ahead of the outbox.
DeliveredIsConfirmed ==
  \A k \in Keys :
    ReportedDelivery(k) = "delivered" =>
      /\ CommandOf(k) \in Commands
      /\ handed[CommandOf(k)] = 1
      /\ outbox[CommandOf(k)].delivery \in {"broker_confirmed", "device_acked"}

-----------------------------------------------------------------------------
(* Action properties.                                                       *)

\* A settled command stays settled and keeps its verdict: a late or repeated
\* ACK, a timeout that lost the race and a second sweep change nothing.
SettledForGood ==
  [][\A c \in Commands :
       /\ cmd[c].status \in Settled => cmd'[c].status = cmd[c].status
       /\ cmd[c].verify # "none" => cmd'[c].verify = cmd[c].verify]_vars

\* An unknown or acknowledged delivery is final: it may still become
\* acknowledged, but it never returns to the send queue.
NeverBackToQueue ==
  [][\A c \in Commands :
       outbox[c].delivery \in {"unknown", "broker_confirmed", "device_acked"} =>
         outbox'[c].delivery \in {outbox[c].delivery, "device_acked"}]_vars

\* A recovery is certified only by a report the device made after it
\* acknowledged, with no error logged in the window, and only when the window
\* is over.
CertifiedByFreshEvidence ==
  [][\A c \in Commands :
       cmd[c].verify = "none" /\ cmd'[c].verify = "succeeded" =>
         /\ watch[c].open /\ ~watch[c].error /\ now >= watch[c].deadline
         /\ watch[c].sampled >= watch[c].started]_vars

\* Evidence is never replaced by an older report, whatever order the
\* messages arrive in.
EvidenceOnlyGetsNewer ==
  [][\A c \in Commands :
       watch[c].open /\ watch'[c].open => watch[c].sampled <= watch'[c].sampled]_vars

-----------------------------------------------------------------------------
(* Liveness, under Fairness.                                                *)

\* Every accepted command ends applied, failed or timed out, even if the
\* broker is never reached, the PUBACK or the ACK is lost or the service
\* crashes while it is sending.
EveryCommandSettles ==
  \A c \in Commands : cmd[c].status = "pending" ~> cmd[c].status \in Settled

\* Every applied command gets a verdict, across restarts and without any
\* further message of the device.
EveryRepairIsJudged ==
  \A c \in Commands : cmd[c].status = "applied" ~> cmd[c].verify # "none"
=============================================================================

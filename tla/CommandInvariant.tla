-------------------------- MODULE CommandInvariant --------------------------
(***************************************************************************)
(* The inductive invariant behind the safety properties of CommandControl: *)
(* what the outbox row, the thread inside dispatch_command, the device and *)
(* the verification row know of one command, and how these agree.          *)
(***************************************************************************)
EXTENDS CommandControl

\* Between the claim and the hand-over exactly one thread owns the row.  It
\* finds the row as it left it, or acknowledged; only a crash takes it away.
SenderInv(c) ==
  /\ sender[c] \in {"claimed", "pending"} =>
       handed[c] = 0 /\ outbox[c].delivery = "dispatching"
  /\ sender[c] # "idle" => up /\ outbox[c].delivery \in {"dispatching", "device_acked"}
  /\ sender[c] = "broker_confirmed" => handed[c] = 1

\* What each delivery status says about the hand-over and the command.
OutboxInv(c) ==
  /\ handed[c] \in {0, 1}
  /\ outbox[c].delivery \in {"none", "pending"} => handed[c] = 0
  /\ outbox[c].delivery \in {"broker_confirmed", "device_acked"} => handed[c] = 1
  /\ outbox[c].delivery = "none" <=> cmd[c].status = "absent"
  /\ outbox[c].delivery = "device_acked" <=> cmd[c].status \in {"applied", "failed"}

\* A device only speaks of a command it was handed, and says "applied" only
\* of one it ran.
DeviceInv(c) ==
  /\ \A kind \in AckKinds : <<c, kind>> \in acks => handed[c] = 1
  /\ <<c, "applied">> \in acks => executed[c] > 0
  /\ executed[c] > 0 => handed[c] = 1

\* Why an abandoned command cannot run: it has expired, or its only sender
\* gave up without handing it over.
AbandonedInv(c) ==
  c \in abandoned =>
    /\ executed[c] = 0 /\ cmd[c].status = "timeout"
    /\ \/ outbox[c].expires < now
       \/ handed[c] = 0 /\ sender[c] = "idle" /\ outbox[c].delivery = "unknown"

\* Acknowledgement, window and verdict of one repair, and the evidence for it.
RepairInv(c) ==
  /\ cmd[c].status = "applied" => executed[c] > 0
  /\ cmd[c].verify # "none" => cmd[c].status = "applied"
  /\ watch[c].open <=> cmd[c].status = "applied" /\ cmd[c].verify = "none"
  /\ watch[c].evidence = "succeeded" => watch[c].sampled >= watch[c].started

CommandInv(c) ==
  SenderInv(c) /\ OutboxInv(c) /\ DeviceInv(c) /\ AbandonedInv(c) /\ RepairInv(c)

\* Outbox, sending thread, device, verification row and history agree about
\* every command at every step of dispatch_command, mark_command_ack, the
\* sweeps and the recovery.
ControlInv == \A c \in Commands : CommandInv(c)

-----------------------------------------------------------------------------
(* What the tables say of one another: keys, proposals and their commands.  *)

\* A key in a command or a proposal is the key of its row in
\* action_correlation, and that row names one of the two.
KeysInv ==
  \A k \in Keys :
    /\ \A c \in Commands : cmd[c].key = k => corr[k].command = c
    /\ \A p \in Proposals : prop[p].key = k => corr[k].proposal = p
    /\ corr[k].command = None \/ corr[k].proposal = None

\* Rows that are not there yet belong to nobody.
BondInv ==
  /\ \A c \in Commands : cmd[c].status = "absent" => cmd[c].proposal = None
  /\ ApprovedHasItsCommand

\* The flag of a key follows the outbox row of its command.
FlagInv ==
  \A k \in Keys : corr[k].delivery = "delivered" =>
    /\ CommandOf(k) \in Commands
    /\ outbox[CommandOf(k)].delivery \in {"broker_confirmed", "device_acked"}

\* Correlation keys, proposals, commands and the delivery flags agree between
\* any two transactions of the service.
AgreementInv == KeysInv /\ BondInv /\ TaskMirrorsCommand /\ FlagInv
=============================================================================

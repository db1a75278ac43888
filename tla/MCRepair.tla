------------------------------ MODULE MCRepair ------------------------------
(***************************************************************************)
(* Instances of RepairLedger for TLC.                                      *)
(***************************************************************************)
EXTENDS RepairLedger, TLC

CONSTANTS d1, d2

Mix(limit, devices, admin, switch, acts, proposals, faults) ==
  [limit |-> limit, devices |-> devices, admin |-> admin, switch |-> switch,
   runs |-> IF admin > 0 THEN 0 ELSE 1, acts |-> acts, proposals |-> proposals,
   faults |-> faults]

\* The administrator alone; a proposal whose server may go; two repairs of one
\* device; two devices and one attempt.
TurnMixes ==
  {Mix(1, {}, 4, 0, 0, 0, 0), Mix(1, {d1}, 0, 1, 0, 1, 0),
   Mix(2, {d1}, 0, 0, 2, 0, 1), Mix(1, {d1, d2}, 0, 0, 1, 1, 0)}
=============================================================================

---------------------------- MODULE MCMigrations ----------------------------
(***************************************************************************)
(* Instances of SchemaMigrations for TLC: a device with two status rows of *)
(* one timestamp and an older one, and one with a single row; two commands *)
(* of an earlier release, one applied and never verified, and one new      *)
(* command; an outbox entry with a fault case and one without.  A single   *)
(* process is killed up to three times; two upgrade the control database   *)
(* at once, and one of them is killed.                                     *)
(***************************************************************************)
EXTENDS SchemaMigrations

CONSTANTS p1, p2, c1, c2, c3, d1, d2, k1, k2, e1, e2

Setup(v, ps, n) == [service |-> v, procs |-> ps, crashes |-> n]
AllSetups ==
    {Setup(v, {p1}, 3) : v \in Services}
    \cup {Setup("control", {p1, p2}, 1)}

Rows_ == d1 :> {<<2, 1>>, <<2, 3>>, <<1, 4>>} @@ d2 :> {<<1, 2>>}
=============================================================================

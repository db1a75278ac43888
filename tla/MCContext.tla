----------------------------- MODULE MCContext ------------------------------
(***************************************************************************)
(* Instances of ContextStore for TLC: texts of one or two tokens and a     *)
(* budget of three.  Three requests: with one attachment; with two         *)
(* artifacts and a crash and all their messages in view; with one or two   *)
(* messages of history.  Two requests with everything.                     *)
(***************************************************************************)
EXTENDS ContextStore

CONSTANT a1

Setup(h, r, as, n, c) ==
    [history |-> h, requests |-> r, uploads |-> as, artifacts |-> n, crashes |-> c]
AllSetups ==
    {Setup(4, 3, {a1}, 0, 0), Setup(4, 3, {}, 2, 1), Setup(2, 2, {a1}, 2, 1)}
    \cup {Setup(h, 3, {}, 2, 0) : h \in {1, 2}}
=============================================================================

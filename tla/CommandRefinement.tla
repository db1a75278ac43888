------------------------- MODULE CommandRefinement --------------------------
(***************************************************************************)
(* CommandControl implements CommandPromise.                               *)
(***************************************************************************)
EXTENDS CommandControl

Promise == INSTANCE CommandPromise WITH
  stage   <- [c \in Commands |-> cmd[c].status],
  verdict <- [c \in Commands |-> cmd[c].verify],
  sent    <- handed,
  ran     <- [c \in Commands |-> executed[c] > 0]

\* Everything the service does to a command, from the request over the send
\* queue, the ACK, the sweeps and the crashes, is a step the promise allows.
KeepsPromise == Promise!Spec
=============================================================================

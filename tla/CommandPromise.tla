--------------------------- MODULE CommandPromise ---------------------------
(***************************************************************************)
(* What the control service promises about a command, without saying how:  *)
(* it is handed to the network at most once, it gets one answer or none,   *)
(* "applied" is never claimed of a device that did not act, a command      *)
(* without an answer is given up, and only an applied repair is judged,    *)
(* once.  There is no database, no lock, no clock and no crash here.       *)
(***************************************************************************)
EXTENDS Naturals

CONSTANT Commands

VARIABLES
  stage,    \* absent, pending, applied, failed or timeout
  verdict,  \* none, succeeded, failed or inconclusive
  sent,     \* how often the command was handed to the network
  ran       \* has a device acted on it?

vars == <<stage, verdict, sent, ran>>

Verdicts == {"succeeded", "failed", "inconclusive"}

Init ==
  /\ stage = [c \in Commands |-> "absent"]
  /\ verdict = [c \in Commands |-> "none"]
  /\ sent = [c \in Commands |-> 0]
  /\ ran = [c \in Commands |-> FALSE]

Accept(c) ==
  /\ stage[c] = "absent"
  /\ stage' = [stage EXCEPT ![c] = "pending"]
  /\ UNCHANGED <<verdict, sent, ran>>

\* A sender may already be past its last check when the command is given up.
Hand(c) ==
  /\ stage[c] \in {"pending", "timeout"}
  /\ sent[c] = 0
  /\ sent' = [sent EXCEPT ![c] = 1]
  /\ UNCHANGED <<stage, verdict, ran>>

Run(c) ==
  /\ sent[c] = 1
  /\ ran' = [ran EXCEPT ![c] = TRUE]
  /\ UNCHANGED <<stage, verdict, sent>>

Answer(c, kind) ==
  /\ stage[c] = "pending"
  /\ sent[c] = 1
  /\ kind = "applied" => ran[c]
  /\ stage' = [stage EXCEPT ![c] = kind]
  /\ UNCHANGED <<verdict, sent, ran>>

\* One sweep gives up any number of commands.
GiveUp ==
  /\ stage' \in [Commands -> {"absent", "pending", "applied", "failed", "timeout"}]
  /\ \A c \in Commands :
       stage'[c] = stage[c] \/ (stage[c] = "pending" /\ stage'[c] = "timeout")
  /\ UNCHANGED <<verdict, sent, ran>>

\* One sweep judges any number of repairs.
Judge ==
  /\ verdict' \in [Commands -> Verdicts \cup {"none"}]
  /\ \A c \in Commands :
       \/ verdict'[c] = verdict[c]
       \/ stage[c] = "applied" /\ verdict[c] = "none" /\ verdict'[c] \in Verdicts
  /\ UNCHANGED <<stage, sent, ran>>

Next ==
  \/ \E c \in Commands : Accept(c) \/ Hand(c) \/ Run(c)
  \/ \E c \in Commands, kind \in {"applied", "failed"} : Answer(c, kind)
  \/ GiveUp
  \/ Judge

Spec == Init /\ [][Next]_vars
=============================================================================

--------------------------- MODULE RunRefinement ----------------------------
(***************************************************************************)
(* RunLifecycle implements RunPromise while the database accepts writes.   *)
(***************************************************************************)
EXTENDS RunLifecycle

Promise == INSTANCE RunPromise WITH
  stage <- [r \in Runs |-> run[r].status],
  told  <- [r \in Runs |-> IF Has(r, {"completed"}) THEN "answer"
                           ELSE IF Has(r, Failures) THEN "failure"
                           ELSE "nothing"]

\* Claims, completion, stops, cancellation, shutdown, crashes and recovery
\* only do to a run what the promise allows; for databases that accept writes.
RunKeepsPromise == Promise!Init /\ [][faults' = 0 => Promise!Next]_(Promise!vars)
=============================================================================

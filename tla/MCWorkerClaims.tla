--------------------------- MODULE MCWorkerClaims ---------------------------
(***************************************************************************)
(* What the repository's documents say of the worker and its code does not *)
(* do.                                                                     *)
(***************************************************************************)
EXTENDS MCWorker

OutageFaults == FaultBudget(4, 0, 0, 0)

\* .github/copilot-instructions.md, "DLQ flow": when the worker keeps failing to
\* store an event, "After retries, the message should land in the DLQ".
RetriesEndInDLQ ==
    \A m \in exhausted : Settled(m) => place[m] = "dead"
=============================================================================

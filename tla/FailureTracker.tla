--------------------------- MODULE FailureTracker ---------------------------
(***************************************************************************)
(* The tracker of consecutive ingress failures                             *)
(* (api/handlers/failure_tracker.go) and the gauge that publishes it.      *)
(* The map is behind a mutex; the gauge is set outside it, and has a series *)
(* for each pair of labels, client_id and webhook_id.                      *)
(***************************************************************************)
EXTENDS Naturals

CONSTANTS
    Keys,         \* what failureKey can return: never the empty string
    Series        \* the labels under which the gauge may be set

VARIABLES
    counts,       \* a key that is not in the map counts 0
    gauge         \* webhook_ingress_consecutive_failures; 0 until it is set

trackerVars == <<counts, gauge>>

TrackerTypeOK ==
    /\ counts \in [Keys -> Nat]
    /\ gauge \in [Series -> Nat]

TrackerInit ==
    /\ counts = [k \in Keys |-> 0]
    /\ gauge = [l \in Series |-> 0]

\* The count RecordFailure returns is counts'[k].
RecordFailure(k) ==
    /\ counts' = [counts EXCEPT ![k] = @ + 1]
    /\ UNCHANGED gauge

\* Variant: the key's count outlives the success.
RecordSuccessKeeping(k) == UNCHANGED trackerVars

\* The key is deleted.
RecordSuccess(k) ==
    /\ counts' = [counts EXCEPT ![k] = 0]
    /\ UNCHANGED gauge

\* Variant: the gauge only ever rises.
SetGaugeRising(l, n) ==
    /\ gauge' = [gauge EXCEPT ![l] = IF n > @ THEN n ELSE @]
    /\ UNCHANGED counts

SetGauge(l, n) ==
    /\ gauge' = [gauge EXCEPT ![l] = n]
    /\ UNCHANGED counts
=============================================================================

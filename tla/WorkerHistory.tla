--------------------------- MODULE WorkerHistory ---------------------------
(***************************************************************************)
(* Worker with two history variables, which count what each message cost:  *)
(* how often a goroutine received it and how many attempts at it failed.   *)
(* They are read off the goroutines' steps and restrict nothing, except    *)
(* that MaxDeliveries bounds the redeliveries of a behaviour.              *)
(***************************************************************************)
EXTENDS Worker

CONSTANT MaxDeliveries

ASSUME HistoryAssumption ==
    /\ MaxDeliveries \in Nat
    /\ IsFiniteSet(Workers)

VARIABLES deliveries, failures

historyVars == <<vars, deliveries, failures>>

HistoryInit ==
    /\ Init
    /\ deliveries = [m \in Messages |-> 0]
    /\ failures = [m \in Messages |-> 0]

\* Goroutines that receive m, or fail an attempt at it, in this step.
Receivers(m) ==
    {g \in Threads : pc[g] = "idle" /\ pc'[g] \in Busy /\ msg'[g] = m}
Failing(m) ==
    {g \in Threads : /\ pc[g] \in {"insert", "update"}
                     /\ pc'[g] \in {"mark_retrying", "mark_failed"}
                     /\ msg[g] = m}

HistoryNext ==
    /\ Next
    /\ deliveries' = [m \in Messages |-> deliveries[m] + Cardinality(Receivers(m))]
    /\ failures' = [m \in Messages |-> failures[m] + Cardinality(Failing(m))]
    /\ \A m \in Messages : deliveries'[m] <= MaxDeliveries

HistorySpec == HistoryInit /\ [][HistoryNext]_historyVars

\* Duplicates have a price: an event has no more documents than it was received
\* and its attempts failed.  Delivered once and without an error, it has one.
DuplicateBound ==
    \A m \in Messages :
        Cardinality({i \in DOMAIN docs : docs[i].msg = m})
            <= deliveries[m] + failures[m]

\* Losing an event takes MaxRetries failed attempts at it: no crash, redelivery
\* or shutdown shortens the count.
LossBound ==
    \A m \in Messages :
        place[m] = "acked" /\ ~Stored(m) => failures[m] >= MaxRetries

\* As long as nobody stops a worker, the broker delivers a message once, and once
\* more at most for every crash and every lost connection: what the code does
\* about an error never brings a message back.  During a shutdown it may come back
\* any number of times, because the goroutine that hands it back and the one
\* that cancels the consumer are not ordered.
RedeliveryBound ==
    \A m \in Messages :
        faults["signal"] = 0 =>
            deliveries[m] <= 1 + faults["crash"] + faults["disconnect"]
=============================================================================

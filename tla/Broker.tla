------------------------------- MODULE Broker -------------------------------
(***************************************************************************)
(* RabbitMQ as this program uses it: the durable work queue and the        *)
(* optional dead letter queue that DeclareTopology sets up, and one AMQP   *)
(* channel per worker process with manual acknowledgement.  The broker     *)
(* itself is external; these are the effects of the calls the code makes   *)
(* and of the events it does not control.                                  *)
(***************************************************************************)
EXTENDS Events, Naturals, FiniteSets

CONSTANTS
    Workers,     \* worker processes
    Prefetch,    \* the basic.qos limit of a worker's channel
    HasDLQ,      \* cfg.DLXName # "" and cfg.DLXQueue # ""
    HasTTL       \* cfg.MessageTTL > 0

ASSUME BrokerAssumption ==
    /\ Prefetch \in Nat
    /\ HasDLQ \in BOOLEAN
    /\ HasTTL \in BOOLEAN

VARIABLES
    place,       \* where each message is, as the broker sees it
    unacked,     \* messages delivered on each worker's channel, not yet settled
    channel,     \* whether each worker's channel is open
    consuming    \* whether the broker delivers to it (basic.consume .. cancel)

brokerVars == <<place, unacked, channel, consuming>>

Places == {"unsent", "ready", "unacked", "acked", "dead", "dropped"}

BrokerTypeOK ==
    /\ place \in [Messages -> Places]
    /\ unacked \in [Workers -> SUBSET Messages]
    /\ channel \in [Workers -> {"open", "closed"}]
    /\ consuming \in [Workers -> BOOLEAN]

BrokerInit ==
    /\ place = [m \in Messages |-> "unsent"]
    /\ unacked = [w \in Workers |-> {}]
    /\ channel = [w \in Workers |-> "closed"]
    /\ consuming = [w \in Workers |-> FALSE]

\* A settled message is one the broker will never deliver again.
Settled(m) == place[m] \in {"acked", "dead", "dropped"}

\* The message reaches the work queue through the exchange.
Enqueue(m) ==
    /\ place[m] = "unsent"
    /\ place' = [place EXCEPT ![m] = "ready"]
    /\ UNCHANGED <<unacked, channel, consuming>>

OpenChannel(w) ==
    /\ channel' = [channel EXCEPT ![w] = "open"]
    /\ consuming' = [consuming EXCEPT ![w] = TRUE]
    /\ UNCHANGED <<place, unacked>>

\* Which ready message goes to which consumer is not fixed: requeued messages
\* go back near the head of the queue and consumers are served round robin.
Deliver(w, m) ==
    /\ consuming[w]
    /\ place[m] = "ready"
    /\ Cardinality(unacked[w]) < Prefetch
    /\ place' = [place EXCEPT ![m] = "unacked"]
    /\ unacked' = [unacked EXCEPT ![w] = @ \cup {m}]
    /\ UNCHANGED <<channel, consuming>>

\* Settling a delivery.  On a closed channel the call returns an error, which
\* the code ignores, and the broker hears nothing.
Settle(w, m, where) ==
    /\ IF channel[w] = "open"
       THEN /\ place' = [place EXCEPT ![m] = where]
            /\ unacked' = [unacked EXCEPT ![w] = @ \ {m}]
       ELSE UNCHANGED <<place, unacked>>
    /\ UNCHANGED <<channel, consuming>>

\* Where the queue's arguments send a rejected or expired message.
DeadLetter == IF HasDLQ THEN "dead" ELSE "dropped"

Ack(w, m) == Settle(w, m, "acked")
NackRequeue(w, m) == Settle(w, m, "ready")
NackDiscard(w, m) == Settle(w, m, DeadLetter)

CancelConsumer(w) ==
    /\ consuming' = [consuming EXCEPT ![w] = FALSE]
    /\ UNCHANGED <<place, unacked, channel>>

\* A channel that closes, for whatever reason, gives back what it held.
CloseChannel(w) ==
    /\ channel' = [channel EXCEPT ![w] = "closed"]
    /\ consuming' = [consuming EXCEPT ![w] = FALSE]
    /\ unacked' = [unacked EXCEPT ![w] = {}]
    /\ place' = [m \in Messages |-> IF m \in unacked[w] THEN "ready" ELSE place[m]]

\* x-message-ttl applies to messages waiting in the queue.
Expire(m) ==
    /\ HasTTL
    /\ place[m] = "ready"
    /\ place' = [place EXCEPT ![m] = DeadLetter]
    /\ UNCHANGED <<unacked, channel, consuming>>
=============================================================================

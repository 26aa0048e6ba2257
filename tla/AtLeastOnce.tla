---------------------------- MODULE AtLeastOnce ----------------------------
(***************************************************************************)
(* What the queue and its workers promise together, without saying how:    *)
(* a message leaves the queue for good only after its event was stored,    *)
(* after it was given up, or because it may be discarded.  Nothing that    *)
(* was stored, given up or settled is ever taken back.                     *)
(***************************************************************************)
CONSTANTS
    Messages,
    Undecodable,  \* messages whose event can never be stored
    Discardable   \* messages that may be settled without being stored

VARIABLES
    sent,         \* messages accepted by the queue
    stored,       \* messages whose event is in the collection
    abandoned,    \* messages some delivery of which was given up
    settled       \* messages that will not be delivered again

promise == <<sent, stored, abandoned, settled>>

Init ==
    /\ sent = {}
    /\ stored = {}
    /\ abandoned = {}
    /\ settled = {}

Send(m) ==
    /\ sent' = sent \cup {m}
    /\ UNCHANGED <<stored, abandoned, settled>>

\* A lost answer makes one attempt both store the event and be given up; a
\* consumer that was cut off may still store an event that is settled.
Attempt(m) ==
    /\ m \in sent \ Undecodable
    /\ stored' \in {stored, stored \cup {m}}
    /\ abandoned' \in {abandoned, abandoned \cup {m}}
    /\ UNCHANGED <<sent, settled>>

Settle(m) ==
    /\ m \in sent \cap (stored \cup abandoned \cup Discardable)
    /\ settled' = settled \cup {m}
    /\ UNCHANGED <<sent, stored, abandoned>>

Next == \E m \in Messages : Send(m) \/ Attempt(m) \/ Settle(m)

Spec == Init /\ [][Next]_promise
=============================================================================

----------------------------- MODULE MCDelivery -----------------------------
(***************************************************************************)
(* Small instances of Delivery for TLC.                                    *)
(***************************************************************************)
EXTENDS Delivery

\* No two pairs of labels here have their text in common.
MCSeries == {LabelsOf[r] : r \in Requests}
MCFailureKey == [l \in MCSeries |-> l]

\* A body with nothing but an event's id, or its name.
Body(ids, name) == [ids |-> ids, parts |-> <<Absent, Absent, Absent, name>>]

\* One client's deliveries of one event, as a sender makes that was told 500.
TwoRequests == {"r1", "r2"}
MCClientOf == [r \in Requests |-> "r"]
OneEvent == [r \in Requests |-> Body(<<Absent, "a">>, "open")]

\* Two events of one client.
TwoEvents == [r \in Requests |-> Body(<<>>, IF r = "r1" THEN "open" ELSE "click")]

\* The gauge "tracks consecutive ingress failures per webhook"
\* (pkg/metrics/metrics.go:42): once all is quiet, a client whose requests have
\* all failed has a gauge that shows how many did.  The key has the event's id
\* in it, so each event of a webhook is counted by itself.
Answered(status) == {r \in Requests : pc[r] = "answered" /\ response[r] = status}

GaugeTracksWebhook ==
    \A c \in Clients :
        LET own == {r \in Requests : ClientOf[r] = c}
        IN  ~debug /\ (\A r \in own : ~UnderWay(r)) /\ own \cap Answered("200") = {}
                => \E l \in Series :
                     l[1] = c /\ gauge[l] >= Cardinality(own \cap Answered("500"))

\* "Health checks and graceful shutdowns" (README.md:19): when the process exits
\* for its listener's sake, no request is under way.  The goroutine that runs the
\* listener does not wait for Shutdown.
GracefulShutdown == server = "exiting" => \A r \in Requests : ~UnderWay(r)
=============================================================================

------------------------------ MODULE Ingress ------------------------------
(***************************************************************************)
(* POST /webhook (api/handlers/webhook.go): one goroutine per request asks *)
(* the limiter, publishes the event with retries, and reports the outcome  *)
(* to the failure tracker, to the gauge and to the sender.  The handler    *)
(* that WEBHOOK_DEBUG selects (webhook_debug.go) publishes once and only   *)
(* answers.  A request is a payload that parses and is no validation       *)
(* request: the others are answered without a change of state.  What a     *)
(* call of Publish does inside is Publisher's; here it returns nil or an   *)
(* error.                                                                  *)
(***************************************************************************)
EXTENDS RateLimiter, FailureTracker, EventID, FiniteSets

CONSTANTS
    Requests,
    ClientOf,     \* extractClientID: the client of each request
    Payload,      \* what of each request's body its id is made of
    failureKey,   \* the text "client:id" of each pair of labels
    Attempts      \* IngressRetryCount, which publishWithRetry makes 1 or more

\* The event's ClientID and WebhookID.  No two requests fall back on the same
\* nanosecond.
LabelsOf ==
    [r \in Requests |-> <<ClientOf[r], generateWebhookID(Payload[r], r)>>]

\* The tracker is asked under one text, which two pairs may have in common, a
\* colon being allowed in either part.
KeyOf == [r \in Requests |-> failureKey[LabelsOf[r]]]

ASSUME IngressAssumption ==
    /\ IsFiniteSet(Requests)
    /\ ClientOf \in [Requests -> Clients]
    /\ failureKey \in [Series -> Keys]
    /\ \A r \in Requests : LabelsOf[r] \in Series
    /\ Attempts \in Nat \ {0}

VARIABLES
    debug,        \* which handler the process runs
    pc, attempt,
    gone,         \* the sender is: the context of a request under way is done,
                  \* and an answer is lost
    count,        \* failureCount, the count RecordFailure returned
    response,
    raced,        \* history: keys two requests have reported on at one time
    cleared       \* history: requests whose failure a later success took away

requestVars == <<pc, attempt, gone, count, response>>
serverVars == <<limiterVars, trackerVars, debug>>
pastVars == <<raced, cleared>>
vars == <<serverVars, requestVars, pastVars>>

Reporting == {"record_failure", "set_gauge", "record_success", "clear_gauge"}

TypeOK ==
    /\ LimiterTypeOK /\ TrackerTypeOK
    /\ debug \in BOOLEAN
    /\ pc \in [Requests -> Reporting \cup {"new", "publish", "pause", "answered", "lost"}]
    /\ attempt \in [Requests -> 1..Attempts]
    /\ gone \subseteq Requests
    /\ count \in [Requests -> Nat]
    /\ response \in [Requests -> {"none", "200", "429", "500"}]
    /\ raced \subseteq Keys
    /\ cleared \subseteq Requests

Init ==
    /\ LimiterInit /\ TrackerInit
    /\ debug \in BOOLEAN
    /\ pc = [r \in Requests |-> "new"]
    /\ attempt = [r \in Requests |-> 1]
    /\ gone = {}
    /\ count = [r \in Requests |-> 0]
    /\ response = [r \in Requests |-> "none"]
    /\ raced = {} /\ cleared = {}
-----------------------------------------------------------------------------
OfKey(k) == {r \in Requests : KeyOf[r] = k}

\* The requests of a key whose failure the tracker has been told of, which the
\* debug handler does not do.
Failed(k) ==
    {r \in OfKey(k) : pc[r] = "set_gauge" \/ (pc[r] = "answered" /\ response[r] = "500")}

Goto(r, label) == pc' = [pc EXCEPT ![r] = label]

Answer(r, status) ==
    /\ Goto(r, "answered")
    /\ response' = [response EXCEPT ![r] = status]

\* The limiter lets the request in, and the handler makes an event of it ...
LetIn(r) ==
    /\ pc[r] = "new"
    /\ Admit(ClientOf[r])
    /\ Goto(r, "publish")
    /\ UNCHANGED <<trackerVars, debug, attempt, gone, count, response, pastVars>>

\* ... or does not, and neither the broker nor the tracker hears of it.
TurnAway(r) ==
    /\ pc[r] = "new"
    /\ Refuse(ClientOf[r])
    /\ Answer(r, "429")
    /\ UNCHANGED <<trackerVars, debug, attempt, gone, count, pastVars>>

\* publishWithRetry returns: from here the outcome is reported.
Report(r, label) ==
    /\ Goto(r, label)
    /\ raced' = raced \cup {k \in {KeyOf[r]} : \E o \in Requests \ {r} :
                                KeyOf[o] = k /\ pc[o] \in Reporting}

PublishOK(r) ==
    /\ pc[r] = "publish" /\ ~debug
    /\ Report(r, "record_success")
    /\ UNCHANGED <<serverVars, attempt, gone, count, response, cleared>>

\* Variant: one attempt too many.
PublishFailsLate(r) ==
    /\ pc[r] = "publish" /\ ~debug
    /\ IF attempt[r] <= Attempts
       THEN Goto(r, "pause") /\ UNCHANGED raced
       ELSE Report(r, "record_failure")
    /\ UNCHANGED <<serverVars, attempt, gone, count, response, cleared>>

PublishFails(r) ==
    /\ pc[r] = "publish" /\ ~debug
    /\ IF attempt[r] < Attempts
       THEN Goto(r, "pause") /\ UNCHANGED raced
       ELSE Report(r, "record_failure")
    /\ UNCHANGED <<serverVars, attempt, gone, count, response, cleared>>

\* The debug handler calls Publish once, and tells nobody but the sender.
DebugPublishOK(r) ==
    /\ pc[r] = "publish" /\ debug
    /\ Answer(r, "200")
    /\ UNCHANGED <<serverVars, attempt, gone, count, pastVars>>

DebugPublishFails(r) ==
    /\ pc[r] = "publish" /\ debug
    /\ Answer(r, "500")
    /\ UNCHANGED <<serverVars, attempt, gone, count, pastVars>>

\* Variant: the attempt is not counted.
RetryUncounted(r) ==
    /\ pc[r] = "pause"
    /\ Goto(r, "publish")
    /\ UNCHANGED <<serverVars, attempt, gone, count, response, pastVars>>

\* The delay passes before the sender hangs up, or the select takes the timer.
Retry(r) ==
    /\ pc[r] = "pause"
    /\ Goto(r, "publish")
    /\ attempt' = [attempt EXCEPT ![r] = @ + 1]
    /\ UNCHANGED <<serverVars, gone, count, response, pastVars>>

\* ctx.Done(): publishWithRetry gives up with attempts left.
GiveUp(r) ==
    /\ pc[r] = "pause"
    /\ r \in gone
    /\ Report(r, "record_failure")
    /\ UNCHANGED <<serverVars, attempt, gone, count, response, cleared>>

CountFailure(r) ==
    /\ pc[r] = "record_failure"
    /\ RecordFailure(KeyOf[r])
    /\ count' = [count EXCEPT ![r] = counts'[KeyOf[r]]]
    /\ Goto(r, "set_gauge")
    /\ UNCHANGED <<limiterVars, debug, attempt, gone, response, pastVars>>

ShowFailures(r) ==
    /\ pc[r] = "set_gauge"
    /\ SetGauge(LabelsOf[r], count[r])
    /\ Answer(r, "500")
    /\ UNCHANGED <<limiterVars, debug, attempt, gone, count, pastVars>>

CountSuccess(r) ==
    /\ pc[r] = "record_success"
    /\ RecordSuccess(KeyOf[r])
    /\ cleared' = cleared \cup Failed(KeyOf[r])
    /\ Goto(r, "clear_gauge")
    /\ UNCHANGED <<limiterVars, debug, attempt, gone, count, response, raced>>

ShowSuccess(r) ==
    /\ pc[r] = "clear_gauge"
    /\ SetGauge(LabelsOf[r], 0)
    /\ Answer(r, "200")
    /\ UNCHANGED <<limiterVars, debug, attempt, gone, count, pastVars>>
-----------------------------------------------------------------------------
\* The sender hangs up, or its connection is lost: under the handler, or under
\* the answer on its way.
HangUp(r) ==
    /\ pc[r] # "new"
    /\ gone' = gone \cup {r}
    /\ UNCHANGED <<serverVars, pc, attempt, count, response, pastVars>>

\* The process ends, and a new one starts, with either handler: the requests
\* under way are never answered, and limits, counts and the gauge start from
\* nothing.
Restart ==
    /\ ForgetLimits
    /\ debug' \in BOOLEAN
    /\ counts' = [k \in Keys |-> 0]
    /\ gauge' = [l \in Series |-> 0]
    /\ pc' = [r \in Requests |-> IF pc[r] = "new" THEN "new" ELSE "lost"]
    /\ raced' = {} /\ cleared' = {}
    /\ UNCHANGED <<attempt, gone, count, response>>

Step(r) ==
    \/ LetIn(r) \/ TurnAway(r)
    \/ PublishOK(r) \/ PublishFails(r)
    \/ DebugPublishOK(r) \/ DebugPublishFails(r)
    \/ Retry(r) \/ GiveUp(r)
    \/ CountFailure(r) \/ ShowFailures(r)
    \/ CountSuccess(r) \/ ShowSuccess(r)

Next ==
    \/ \E r \in Requests : Step(r) \/ HangUp(r)
    \/ Time /\ UNCHANGED <<trackerVars, debug, requestVars, pastVars>>
    \/ Restart

Spec == Init /\ [][Next]_vars /\ \A r \in Requests : WF_vars(Step(r))
-----------------------------------------------------------------------------
Quiet(k) == \A r \in OfKey(k) : pc[r] \notin Reporting

\* Events of two clients, or with two ids, that the tracker takes for one.
Shared(k) == \E r, o \in OfKey(k) : LabelsOf[r] # LabelsOf[o]

\* When nobody is reporting on a key, its gauge shows the tracker's count,
\* unless two requests have reported on it at the same time: the gauge is set
\* outside the tracker's mutex, and the later Set may carry the older count.
\* Nor need it if the key is that of two series, each set by its own requests.
GaugeShowsCount ==
    \A r \in Requests :
        LET k == KeyOf[r]
        IN  Quiet(k) /\ k \notin raced /\ ~Shared(k)
                => gauge[LabelsOf[r]] = counts[k]

\* However requests of a key interleave, the count is that of the failures
\* answered with 500, each once, without those that a success has come after:
\* it takes away all that were counted before it, and none of the later ones.
\* The debug handler counts nothing.
FailuresCounted ==
    \A k \in Keys : Quiet(k) =>
        counts[k] = IF debug THEN 0 ELSE Cardinality(Failed(k) \ cleared)

\* A request that was let in is answered, unless the process ends first.
AnsweredEventually ==
    \A r \in Requests : pc[r] = "publish" ~> pc[r] \in {"answered", "lost"}

\* How many steps of its own a request is at most away from its answer: an
\* attempt takes two, the call and the pause, and the report two more.
StepsAfter == [publish |-> 4, pause |-> 3, record_failure |-> 2,
               record_success |-> 2, set_gauge |-> 1, clear_gauge |-> 1]

StepsLeft(r) ==
    IF pc[r] \in DOMAIN StepsAfter
    THEN 2 * (Attempts - attempt[r]) + StepsAfter[pc[r]]
    ELSE 0

\* No request is handled for ever: each of its steps takes it nearer to its
\* answer, and no sender, no other request and no restart takes it further away.
RequestsEnd ==
    [][\A r \in Requests :
          /\ StepsLeft(r) \in 0..(2 * Attempts + 2)
          /\ StepsLeft(r) > 0 /\ <<pc[r], attempt[r]>>' # <<pc[r], attempt[r]>>
                 => StepsLeft(r)' < StepsLeft(r)]_vars
=============================================================================

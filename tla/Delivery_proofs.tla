-------------------------- MODULE Delivery_proofs --------------------------
(***************************************************************************)
(* What the handler tells the sender, the failure tracker and the gauge,   *)
(* for any number of requests, clients and attempts.  The first part is    *)
(* about Ingress alone: HandlerInv types its state, GaugeInv and CountInv  *)
(* relate the tracker to what the requests are doing.  The second part is  *)
(* about Delivery, all of whose steps are steps of Ingress or none: what a *)
(* request has put into the queue (SentInv), and how copies of an event    *)
(* follow each other (CopiesInv).                                          *)
(***************************************************************************)
EXTENDS Delivery, RateLimiter_proofs, FiniteSetTheorems

Labels == Reporting \cup {"new", "publish", "pause", "answered", "lost"}

HandlerInv ==
    /\ TrackerTypeOK
    /\ debug \in BOOLEAN
    /\ pc \in [Requests -> Labels]
    /\ attempt \in [Requests -> 1..Attempts]
    /\ gone \subseteq Requests
    /\ count \in [Requests -> Nat]
    /\ response \in [Requests -> {"none", "200", "429", "500"}]
    /\ raced \subseteq Keys
    /\ cleared \subseteq Requests
    /\ \A r \in Requests :
         /\ pc[r] = "pause" => attempt[r] < Attempts
         /\ pc[r] \notin {"answered", "lost"} => response[r] = "none"
         /\ debug => pc[r] \notin Reporting \cup {"pause"}

\* What is known of a key of one series, on which no two requests have reported
\* at one time.
GaugeOf(k) ==
    k \notin raced /\ ~Shared(k) =>
        /\ \A r, o \in OfKey(k) : pc[r] \in Reporting /\ pc[o] \in Reporting => r = o
        /\ \A r \in OfKey(k) :
             /\ pc[r] = "set_gauge" => count[r] = counts[k]
             /\ pc[r] = "clear_gauge" => counts[k] = 0
        /\ (\A r \in OfKey(k) : pc[r] \notin {"set_gauge", "clear_gauge"})
             => \A r \in OfKey(k) : gauge[LabelsOf[r]] = counts[k]

GaugeInv == \A k \in Keys : GaugeOf(k)

\* The failures a key's count is made of.
Standing(k) == Failed(k) \ cleared

CountInv ==
    /\ \A k \in Keys : counts[k] = IF debug THEN 0 ELSE Cardinality(Standing(k))
    /\ \A r \in cleared : pc[r] \in {"set_gauge", "answered"}
-----------------------------------------------------------------------------
LEMMA KeyType ==
  \A r \in Requests :
    KeyOf[r] \in Keys /\ LabelsOf[r] \in Series /\ ClientOf[r] \in Clients
  BY IngressAssumption DEF KeyOf

LEMMA HandlerInit == Init => HandlerInv /\ GaugeInv
  BY IngressAssumption, KeyType
  DEF Init, TrackerInit, HandlerInv, TrackerTypeOK, GaugeInv, GaugeOf, Labels, Reporting, OfKey

LEMMA HandlerStep == HandlerInv /\ [Next]_vars => HandlerInv'
<1> SUFFICES ASSUME HandlerInv, [Next]_vars PROVE HandlerInv'
  OBVIOUS
<1> USE DEF HandlerInv, Labels, Reporting, Goto, Answer, Report, trackerVars,
            limiterVars, serverVars, pastVars
<1>1. ASSUME NEW r \in Requests, LetIn(r) \/ TurnAway(r) PROVE HandlerInv'
  BY <1>1 DEF LetIn, TurnAway, TrackerTypeOK
<1>2. ASSUME NEW r \in Requests, PublishOK(r) \/ PublishFails(r) PROVE HandlerInv'
  <2>1. raced' \subseteq Keys
    BY <1>2, KeyType DEF PublishOK, PublishFails
  <2> QED
    BY <1>2, <2>1, IngressAssumption DEF PublishOK, PublishFails, TrackerTypeOK
<1>3. ASSUME NEW r \in Requests, DebugPublishOK(r) \/ DebugPublishFails(r)
      PROVE  HandlerInv'
  BY <1>3 DEF DebugPublishOK, DebugPublishFails, TrackerTypeOK
<1>4. ASSUME NEW r \in Requests, Retry(r) PROVE HandlerInv'
  BY <1>4, IngressAssumption DEF Retry, TrackerTypeOK
<1>5. ASSUME NEW r \in Requests, GiveUp(r) PROVE HandlerInv'
  <2>1. raced' \subseteq Keys
    BY <1>5, KeyType DEF GiveUp
  <2> QED
    BY <1>5, <2>1 DEF GiveUp, TrackerTypeOK
<1>6. ASSUME NEW r \in Requests, CountFailure(r) PROVE HandlerInv'
  <2>1. TrackerTypeOK' /\ counts'[KeyOf[r]] \in Nat
    BY <1>6, KeyType DEF CountFailure, RecordFailure, TrackerTypeOK
  <2> QED
    BY <1>6, <2>1 DEF CountFailure
<1>7. ASSUME NEW r \in Requests, ShowFailures(r) PROVE HandlerInv'
  <2>1. TrackerTypeOK'
    BY <1>7, KeyType DEF ShowFailures, SetGauge, TrackerTypeOK
  <2> QED
    BY <1>7, <2>1 DEF ShowFailures
<1>8. ASSUME NEW r \in Requests, CountSuccess(r) PROVE HandlerInv'
  <2>1. TrackerTypeOK' /\ cleared' \subseteq Requests
    BY <1>8, KeyType DEF CountSuccess, RecordSuccess, TrackerTypeOK, Failed, OfKey
  <2> QED
    BY <1>8, <2>1 DEF CountSuccess
<1>9. ASSUME NEW r \in Requests, ShowSuccess(r) PROVE HandlerInv'
  <2>1. TrackerTypeOK'
    BY <1>9, KeyType DEF ShowSuccess, SetGauge, TrackerTypeOK
  <2> QED
    BY <1>9, <2>1 DEF ShowSuccess
<1>10. ASSUME NEW r \in Requests, HangUp(r) PROVE HandlerInv'
  BY <1>10 DEF HangUp, TrackerTypeOK
<1>11. CASE UNCHANGED <<trackerVars, debug, requestVars, pastVars>>
  BY <1>11 DEF requestVars, TrackerTypeOK
<1>12. CASE Restart
  BY <1>12 DEF Restart, TrackerTypeOK
<1> QED
  BY <1>1, <1>2, <1>3, <1>4, <1>5, <1>6, <1>7, <1>8, <1>9, <1>10, <1>11, <1>12
     DEF Next, Step, vars

\* A step of a request, of which the tracker and the gauge do not hear, and by
\* which the request may begin to report.
LEMMA GaugeKept ==
  ASSUME HandlerInv, GaugeInv, NEW r \in Requests,
         UNCHANGED <<counts, gauge, count>>,
         pc[r] \notin Reporting,
         \A o \in Requests \ {r} : pc'[o] = pc[o],
         \/ pc'[r] \notin Reporting /\ raced' = raced
         \/ /\ pc'[r] \in {"record_failure", "record_success"}
            /\ Report(r, pc'[r])
  PROVE  GaugeInv'
<1> SUFFICES ASSUME NEW k \in Keys PROVE GaugeOf(k)'
  BY DEF GaugeInv
<1>1. GaugeOf(k)
  BY DEF GaugeInv
<1>2. k \notin raced' => k \notin raced
  BY DEF Report
<1>3. CASE pc'[r] \notin Reporting
  BY <1>1, <1>2, <1>3 DEF GaugeOf, OfKey, Reporting
<1>4. CASE pc'[r] \in {"record_failure", "record_success"} /\ Report(r, pc'[r])
  <2>1. KeyOf[r] = k /\ k \notin raced' =>
          \A o \in Requests \ {r} : KeyOf[o] = k => pc[o] \notin Reporting
    BY <1>4 DEF Report
  <2> QED
    BY <1>1, <1>2, <1>4, <2>1 DEF GaugeOf, OfKey, Reporting
<1> QED
  BY <1>3, <1>4

\* A step by which a request reports: it alone reports on its key, or the key is
\* among those of which nothing is claimed.
LEMMA GaugeMoved ==
  ASSUME HandlerInv, GaugeInv, NEW r \in Requests,
         pc[r] \in Reporting, raced' = raced,
         \A o \in Requests \ {r} : pc'[o] = pc[o] /\ count'[o] = count[o],
         \A k \in Keys \ {KeyOf[r]} : counts'[k] = counts[k],
         \A l \in Series \ {LabelsOf[r]} : gauge'[l] = gauge[l],
         LET k == KeyOf[r]
         IN  \/ pc'[r] = "set_gauge" /\ count'[r] = counts'[k]
             \/ pc'[r] = "clear_gauge" /\ counts'[k] = 0
             \/ pc'[r] = "answered" /\ (k \notin raced /\ ~Shared(k) => gauge'[LabelsOf[r]] = counts'[k])
  PROVE  GaugeInv'
<1> SUFFICES ASSUME NEW k \in Keys PROVE GaugeOf(k)'
  BY DEF GaugeInv
<1>1. GaugeOf(k)
  BY DEF GaugeInv
<1>2. CASE k # KeyOf[r]
  <2>1. \A o \in OfKey(k) : o # r /\ gauge'[LabelsOf[o]] = gauge[LabelsOf[o]]
    <3> SUFFICES ASSUME NEW o \in OfKey(k)
                 PROVE  o # r /\ gauge'[LabelsOf[o]] = gauge[LabelsOf[o]]
      OBVIOUS
    <3>1. o \in Requests /\ KeyOf[o] # KeyOf[r] /\ LabelsOf[o] \in Series
      BY <1>2, KeyType DEF OfKey
    <3>2. LabelsOf[o] # LabelsOf[r]
      BY <3>1 DEF KeyOf
    <3> QED
      BY <3>1, <3>2
  <2> QED
    BY <1>1, <1>2, <2>1 DEF GaugeOf, Shared, OfKey
<1>3. CASE k = KeyOf[r]
  <2> SUFFICES ASSUME k \notin raced, ~Shared(k) PROVE GaugeOf(k)'
    BY DEF GaugeOf, Shared, OfKey
  <2>1. \A o \in OfKey(k) : o # r => pc[o] \notin Reporting
    BY <1>1, <1>3 DEF GaugeOf, OfKey
  <2>2. \A o \in OfKey(k) : o # r => pc'[o] \notin Reporting
    BY <2>1 DEF OfKey
  <2>3. \A o \in OfKey(k) : LabelsOf[o] = LabelsOf[r]
    BY <1>3 DEF Shared, OfKey
  <2> QED
    BY <1>3, <2>2, <2>3 DEF GaugeOf, OfKey, Reporting
<1> QED
  BY <1>2, <1>3

LEMMA GaugeStep == HandlerInv /\ GaugeInv /\ [Next]_vars => GaugeInv'
<1> SUFFICES ASSUME HandlerInv, GaugeInv, [Next]_vars PROVE GaugeInv'
  OBVIOUS
<1>0. pc \in [Requests -> Labels] /\ count \in [Requests -> Nat] /\ TrackerTypeOK
  BY DEF HandlerInv
<1>1. ASSUME NEW r \in Requests,
             \/ LetIn(r) \/ TurnAway(r) \/ PublishOK(r) \/ PublishFails(r)
             \/ DebugPublishOK(r) \/ DebugPublishFails(r) \/ Retry(r) \/ GiveUp(r)
      PROVE  GaugeInv'
  <2>1. /\ UNCHANGED <<counts, gauge, count>>
        /\ pc[r] \notin Reporting
        /\ \A o \in Requests \ {r} : pc'[o] = pc[o]
        /\ \/ pc'[r] \notin Reporting /\ raced' = raced
           \/ /\ pc'[r] \in {"record_failure", "record_success"}
              /\ Report(r, pc'[r])
    BY <1>0, <1>1
       DEF LetIn, TurnAway, PublishOK, PublishFails, DebugPublishOK, DebugPublishFails,
           Retry, GiveUp, Goto, Answer, Report, Reporting, trackerVars, serverVars,
           pastVars
  <2> QED
    BY <2>1, GaugeKept
<1>2. ASSUME NEW r \in Requests, CountFailure(r) PROVE GaugeInv'
  <2>1. pc'[r] = "set_gauge" /\ count'[r] = counts'[KeyOf[r]] /\ raced' = raced
    BY <1>0, <1>2 DEF CountFailure, Goto, pastVars
  <2>2. /\ \A k \in Keys \ {KeyOf[r]} : counts'[k] = counts[k]
        /\ gauge' = gauge
    BY <1>0, <1>2 DEF CountFailure, RecordFailure, TrackerTypeOK
  <2>3. \A o \in Requests \ {r} : pc'[o] = pc[o] /\ count'[o] = count[o]
    BY <1>0, <1>2 DEF CountFailure, Goto
  <2> QED
    BY <1>2, <2>1, <2>2, <2>3, KeyType, GaugeMoved DEF CountFailure, Reporting
<1>3. ASSUME NEW r \in Requests, CountSuccess(r) PROVE GaugeInv'
  <2>1. pc'[r] = "clear_gauge" /\ counts'[KeyOf[r]] = 0 /\ raced' = raced
    BY <1>0, <1>3, KeyType
    DEF CountSuccess, Goto, RecordSuccess, TrackerTypeOK
  <2>2. /\ \A k \in Keys \ {KeyOf[r]} : counts'[k] = counts[k]
        /\ gauge' = gauge
    BY <1>0, <1>3 DEF CountSuccess, RecordSuccess, TrackerTypeOK
  <2>3. \A o \in Requests \ {r} : pc'[o] = pc[o] /\ count'[o] = count[o]
    BY <1>0, <1>3 DEF CountSuccess, Goto
  <2> QED
    BY <1>3, <2>1, <2>2, <2>3, KeyType, GaugeMoved DEF CountSuccess, Reporting
<1>4. ASSUME NEW r \in Requests, ShowFailures(r) \/ ShowSuccess(r) PROVE GaugeInv'
  <2>1. pc'[r] = "answered" /\ raced' = raced /\ pc[r] \in Reporting
    BY <1>0, <1>4 DEF ShowFailures, ShowSuccess, Answer, Goto, Reporting, pastVars
  <2>2. /\ counts' = counts
        /\ \A l \in Series \ {LabelsOf[r]} : gauge'[l] = gauge[l]
    BY <1>0, <1>4 DEF ShowFailures, ShowSuccess, SetGauge, TrackerTypeOK
  <2>3. \A o \in Requests \ {r} : pc'[o] = pc[o] /\ count'[o] = count[o]
    BY <1>0, <1>4 DEF ShowFailures, ShowSuccess, Answer, Goto
  <2>4. KeyOf[r] \in Keys /\ LabelsOf[r] \in Series /\ GaugeOf(KeyOf[r])
    BY KeyType DEF GaugeInv
  <2>5. KeyOf[r] \notin raced /\ ~Shared(KeyOf[r])
          => gauge'[LabelsOf[r]] = counts'[KeyOf[r]]
    <3>1. CASE ShowFailures(r)
      <4>1. gauge'[LabelsOf[r]] = count[r] /\ counts' = counts
        BY <1>0, <2>4, <3>1 DEF ShowFailures, SetGauge, TrackerTypeOK
      <4> QED
        BY <2>4, <3>1, <4>1 DEF ShowFailures, GaugeOf, OfKey
    <3>2. CASE ShowSuccess(r)
      <4>1. gauge'[LabelsOf[r]] = 0 /\ counts' = counts
        BY <1>0, <2>4, <3>2 DEF ShowSuccess, SetGauge, TrackerTypeOK
      <4> QED
        BY <2>4, <3>2, <4>1 DEF ShowSuccess, GaugeOf, OfKey
    <3> QED
      BY <1>4, <3>1, <3>2
  <2> QED
    BY <2>1, <2>2, <2>3, <2>4, <2>5, GaugeMoved
<1>5. CASE UNCHANGED <<trackerVars, pc, count, raced>>
  BY <1>5 DEF trackerVars, GaugeInv, GaugeOf, Shared, OfKey
<1>6. CASE Restart
  <2>1. \A r \in Requests : pc'[r] \notin Reporting
    BY <1>6 DEF Restart, Reporting
  <2>2. \A r \in Requests : gauge'[LabelsOf[r]] = counts'[KeyOf[r]]
    BY <1>6, KeyType DEF Restart
  <2> QED
    BY <2>1, <2>2 DEF GaugeInv, GaugeOf, OfKey, Reporting
<1> QED
  BY <1>1, <1>2, <1>3, <1>4, <1>5, <1>6
     DEF Next, Step, vars, HangUp, requestVars, serverVars, pastVars

\* Whether o is in them, and after a step.
LEMMA FailedMembers ==
  ASSUME NEW k, NEW o
  PROVE  /\ o \in Failed(k) <=>
              /\ o \in Requests /\ KeyOf[o] = k
              /\ pc[o] = "set_gauge" \/ (pc[o] = "answered" /\ response[o] = "500")
         /\ o \in Failed(k)' <=>
              /\ o \in Requests /\ KeyOf[o] = k
              /\ pc'[o] = "set_gauge" \/ (pc'[o] = "answered" /\ response'[o] = "500")
  BY DEF Failed, OfKey

LEMMA StandingFinite ==
  \A k \in Keys : IsFiniteSet(Standing(k)) /\ Cardinality(Standing(k)) \in Nat
<1> SUFFICES ASSUME NEW k \in Keys
             PROVE  IsFiniteSet(Standing(k)) /\ Cardinality(Standing(k)) \in Nat
  OBVIOUS
<1>1. Standing(k) \subseteq Requests
  BY DEF Standing, Failed, OfKey
<1>2. IsFiniteSet(Standing(k))
  BY <1>1, IngressAssumption, FS_Subset
<1> QED
  BY <1>2, FS_CardinalityType

\* A step of a handler that does not touch the tracker's count keeps who failed.
LEMMA CountKept ==
  ASSUME CountInv, UNCHANGED <<counts, debug, cleared>>,
         debug \/ \A k \in Keys : Failed(k)' = Failed(k),
         \A r \in cleared : pc'[r] \in {"set_gauge", "answered"}
  PROVE  CountInv'
<1> SUFFICES ASSUME NEW k \in Keys
             PROVE  counts'[k] = IF debug' THEN 0 ELSE Cardinality(Standing(k)')
  BY DEF CountInv
<1>1. CASE debug
  BY <1>1 DEF CountInv
<1>2. CASE ~debug /\ Failed(k)' = Failed(k)
  <2>1. Standing(k)' = Standing(k)
    BY <1>2 DEF Standing
  <2> QED
    BY <1>2, <2>1 DEF CountInv
<1> QED
  BY <1>1, <1>2

LEMMA CountFailureStep ==
  ASSUME HandlerInv, CountInv, NEW r \in Requests, CountFailure(r)
  PROVE  CountInv'
<1> DEFINE K == KeyOf[r]
<1>1. K \in Keys /\ ~debug /\ debug' = debug
  BY KeyType DEF HandlerInv, CountFailure, Reporting
<1>2. counts \in [Keys -> Nat] /\ pc \in [Requests -> Labels]
  BY DEF HandlerInv, TrackerTypeOK
<1>3. /\ counts'[K] = counts[K] + 1
      /\ \A k \in Keys \ {K} : counts'[k] = counts[k]
  BY <1>1, <1>2 DEF CountFailure, RecordFailure
<1>4. /\ pc[r] = "record_failure" /\ pc'[r] = "set_gauge"
      /\ response' = response /\ cleared' = cleared
      /\ \A o \in Requests \ {r} : pc'[o] = pc[o]
  BY <1>2 DEF CountFailure, Goto, pastVars
<1>5. r \notin cleared /\ \A o \in cleared : pc'[o] \in {"set_gauge", "answered"}
  BY <1>4 DEF CountInv, HandlerInv
<1>6. Standing(K)' = Standing(K) \cup {r} /\ r \notin Standing(K)
  <2>1. r \notin Failed(K) /\ r \in Failed(K)'
    BY <1>4, FailedMembers
  <2>2. \A o : o # r => (o \in Failed(K)' <=> o \in Failed(K))
    BY <1>4, FailedMembers
  <2> HIDE DEF K
  <2> QED
    BY <1>4, <1>5, <2>1, <2>2 DEF Standing
<1>7. \A k \in Keys \ {K} : Standing(k)' = Standing(k)
  BY <1>4 DEF Standing, Failed, OfKey
<1>8. Cardinality(Standing(K)') = Cardinality(Standing(K)) + 1
  BY <1>1, <1>6, StandingFinite, FS_AddElement
<1> HIDE DEF K
<1>9. ASSUME NEW k \in Keys
      PROVE  counts'[k] = Cardinality(Standing(k)')
  <2>1. counts[k] = Cardinality(Standing(k))
    BY <1>1 DEF CountInv
  <2> QED
    BY <1>3, <1>7, <1>8, <2>1
<1> QED
  BY <1>1, <1>4, <1>5, <1>9 DEF CountInv

LEMMA CountSuccessStep ==
  ASSUME HandlerInv, CountInv, NEW r \in Requests, CountSuccess(r)
  PROVE  CountInv'
<1> DEFINE K == KeyOf[r]
<1>1. K \in Keys /\ ~debug /\ debug' = debug
  BY KeyType DEF HandlerInv, CountSuccess, Reporting
<1>2. counts \in [Keys -> Nat] /\ pc \in [Requests -> Labels]
  BY DEF HandlerInv, TrackerTypeOK
<1>3. counts'[K] = 0 /\ \A k \in Keys \ {K} : counts'[k] = counts[k]
  BY <1>1, <1>2 DEF CountSuccess, RecordSuccess
<1>4. /\ pc[r] = "record_success" /\ pc'[r] = "clear_gauge" /\ response' = response
      /\ cleared' = cleared \cup Failed(K)
      /\ \A o \in Requests \ {r} : pc'[o] = pc[o]
  BY <1>2 DEF CountSuccess, Goto
<1>5. \A k \in Keys : Failed(k)' = Failed(k)
  BY <1>4 DEF Failed, OfKey
<1>6. Standing(K)' = {}
  BY <1>1, <1>4, <1>5 DEF Standing
<1>7. \A k \in Keys \ {K} : Standing(k)' = Standing(k)
  <2> SUFFICES ASSUME NEW k \in Keys, k # K
               PROVE  Standing(k)' = Standing(k)
    OBVIOUS
  <2>1. \A o \in Failed(k) : o \notin Failed(K)
    BY FailedMembers
  <2> QED
    BY <1>4, <1>5, <2>1 DEF Standing
<1>8. \A o \in cleared' : pc'[o] \in {"set_gauge", "answered"}
  <2>1. \A o \in cleared' : o \in Requests /\ pc[o] \in {"set_gauge", "answered"}
    BY <1>4, FailedMembers DEF CountInv, HandlerInv
  <2> QED
    BY <1>4, <2>1
<1> HIDE DEF K
<1>9. ASSUME NEW k \in Keys
      PROVE  counts'[k] = Cardinality(Standing(k)')
  <2>1. counts[k] = Cardinality(Standing(k))
    BY <1>1 DEF CountInv
  <2> QED
    BY <1>3, <1>6, <1>7, <2>1, FS_EmptySet
<1> QED
  BY <1>1, <1>8, <1>9 DEF CountInv

LEMMA CountStep == HandlerInv /\ CountInv /\ [Next]_vars => CountInv'
<1> SUFFICES ASSUME HandlerInv, CountInv, [Next]_vars PROVE CountInv'
  OBVIOUS
<1>0. /\ pc \in [Requests -> Labels]
      /\ response \in [Requests -> {"none", "200", "429", "500"}]
      /\ cleared \subseteq Requests
  BY DEF HandlerInv
<1>1. ASSUME NEW r \in Requests,
             \/ LetIn(r) \/ TurnAway(r) \/ PublishOK(r) \/ PublishFails(r)
             \/ DebugPublishOK(r) \/ DebugPublishFails(r) \/ Retry(r) \/ GiveUp(r)
             \/ ShowFailures(r) \/ ShowSuccess(r)
      PROVE  CountInv'
  <2>1. /\ counts' = counts /\ debug' = debug /\ cleared' = cleared
        /\ \A o \in Requests \ {r} : pc'[o] = pc[o] /\ response'[o] = response[o]
    BY <1>0, <1>1
       DEF LetIn, TurnAway, PublishOK, PublishFails, DebugPublishOK, DebugPublishFails,
           Retry, GiveUp, ShowFailures, ShowSuccess, SetGauge, Goto, Answer, Report,
           trackerVars, serverVars, pastVars
  <2>2. \/ /\ pc[r] \in {"new", "publish", "pause"}
           /\ \/ pc'[r] \in {"publish", "pause", "record_success", "record_failure"}
              \/ pc'[r] = "answered" /\ (response'[r] = "429" \/ debug)
        \/ pc[r] = "set_gauge" /\ pc'[r] = "answered" /\ response'[r] = "500"
        \/ pc[r] = "clear_gauge" /\ pc'[r] = "answered" /\ response'[r] = "200"
    BY <1>0, <1>1
       DEF LetIn, TurnAway, PublishOK, PublishFails, DebugPublishOK,
           DebugPublishFails, Retry, GiveUp, ShowFailures, ShowSuccess, Goto, Answer,
           Report
  <2>3. \A o \in cleared : pc'[o] \in {"set_gauge", "answered"}
    <3>1. r \in cleared => pc[r] \in {"set_gauge", "answered"}
      BY DEF CountInv
    <3> QED
      BY <1>0, <2>1, <2>2, <3>1 DEF CountInv
  <2>4. debug \/ \A k \in Keys : Failed(k)' = Failed(k)
    <3> SUFFICES ASSUME ~debug, NEW k \in Keys PROVE Failed(k)' = Failed(k)
      OBVIOUS
    <3>1. \A o : o \in Failed(k)' <=> o \in Failed(k)
      BY <2>1, <2>2, FailedMembers
    <3> QED
      BY <3>1
  <2> QED
    BY <2>1, <2>3, <2>4, CountKept
<1>2. ASSUME NEW r \in Requests, CountFailure(r) \/ CountSuccess(r) PROVE CountInv'
  BY <1>2, CountFailureStep, CountSuccessStep
<1>3. CASE UNCHANGED <<trackerVars, debug, pc, response, cleared>>
  <2>1. \A k \in Keys : Failed(k)' = Failed(k)
    BY <1>3 DEF Failed, OfKey
  <2> QED
    BY <1>3, <2>1, CountKept DEF trackerVars, CountInv
<1>4. CASE Restart
  <2>1. /\ cleared' = {}
        /\ \A k \in Keys : Standing(k)' = {} /\ counts'[k] = 0
    BY <1>4 DEF Restart, Standing, Failed, OfKey
  <2> QED
    BY <2>1, FS_EmptySet DEF CountInv
<1> QED
  BY <1>1, <1>2, <1>3, <1>4
     DEF Next, Step, vars, HangUp, requestVars, serverVars, pastVars

LEMMA CountInit == Init => CountInv
<1> SUFFICES ASSUME Init PROVE CountInv
  OBVIOUS
<1>1. cleared = {} /\ \A k \in Keys : Standing(k) = {} /\ counts[k] = 0
  BY DEF Init, TrackerInit, Standing, Failed, OfKey
<1> QED
  BY <1>1, FS_EmptySet DEF CountInv

IngressInv == HandlerInv /\ GaugeInv /\ CountInv

LEMMA IngressInit == Init => IngressInv
  BY HandlerInit, CountInit DEF IngressInv

LEMMA IngressStep == IngressInv /\ [Next]_vars => IngressInv'
  BY HandlerStep, GaugeStep, CountStep DEF IngressInv

\* What follows of it.
LEMMA GaugeFollows == IngressInv => GaugeShowsCount
  BY KeyType DEF IngressInv, GaugeInv, GaugeOf, GaugeShowsCount, Quiet, Reporting, OfKey

LEMMA CountsFollow == IngressInv => FailuresCounted
  BY DEF IngressInv, CountInv, FailuresCounted, Standing
-----------------------------------------------------------------------------
(***************************************************************************)
(* Delivery.                                                               *)
(***************************************************************************)

\* Whatever the server, the broker and the workers do, the requests do what
\* Ingress says.
LEMMA DeliveryIsIngress == [DeliveryNext]_deliveryVars => [Next]_vars
<1> SUFFICES ASSUME [DeliveryNext]_deliveryVars PROVE [Next]_vars
  OBVIOUS
<1>1. ASSUME NEW r \in Requests,
             Arrive(r) \/ Publish(r) \/ PublishErrs(r) \/ Handle(r) \/ HangUp(r)
      PROVE  Next
  BY <1>1 DEF Arrive, Publish, PublishErrs, Handle, Next, Step
<1>2. ASSUME NEW r \in Requests, Work(r) PROVE UNCHANGED vars
  BY <1>2 DEF Work
<1>3. CASE UNCHANGED deliveryVars
  BY <1>3 DEF deliveryVars
<1>4. CASE ClosePublisher \/ CloseListeners \/ ListenerFails
  BY <1>4 DEF ClosePublisher, CloseListeners, ListenerFails
<1>5. CASE ShutdownReturns \/ FatalExit \/ Crash
  BY <1>5 DEF ShutdownReturns, FatalExit, Crash, End, Next
<1>6. CASE Time /\ UNCHANGED <<trackerVars, debug, requestVars, pastVars, server, queueVars>>
  BY <1>6 DEF Next
<1> QED
  BY <1>1, <1>2, <1>3, <1>4, <1>5, <1>6 DEF DeliveryNext

\* And to the limiter all of them are the same.
LEMMA IngressAsksLimiter == [Next]_vars => [LimiterNext]_limiterVars
<1> SUFFICES ASSUME [Next]_vars PROVE [LimiterNext]_limiterVars
  OBVIOUS
<1>1. ASSUME NEW r \in Requests, LetIn(r) \/ TurnAway(r) PROVE LimiterNext
  BY <1>1, KeyType DEF LetIn, TurnAway, LimiterNext
<1>2. CASE UNCHANGED limiterVars
  BY <1>2
<1>3. CASE Time \/ ForgetLimits
  BY <1>3 DEF LimiterNext
<1> QED
  BY <1>1, <1>2, <1>3
  DEF Next, Step, HangUp, Restart, vars, serverVars, PublishOK, PublishFails,
      DebugPublishOK, DebugPublishFails, Retry, GiveUp, CountFailure, ShowFailures,
      CountSuccess, ShowSuccess

\* A request that has left something behind goes on to be answered with 200, and
\* none is so answered that has not.
SentInv ==
    /\ sent \subseteq Requests /\ stored \subseteq Requests
    /\ abandoned \subseteq Requests /\ settled \subseteq Requests
    /\ vanished \subseteq Requests
    /\ server \in {"up", "closing", "draining", "exiting"}
    /\ \A r \in sent \cup vanished :
         /\ pc[r] \in {"record_success", "clear_gauge", "answered", "lost"}
         /\ response[r] \in {"none", "200"}
    /\ \A r \in Requests :
         pc[r] \in {"record_success", "clear_gauge"} \/ response[r] = "200"
             => r \in sent \cup vanished
    /\ settled \subseteq
         sent \cap (stored \cup abandoned \cup (IF HasTTL THEN Requests ELSE {}))

\* A request that its sender has stopped waiting for, without having heard 200.
Over(r) == Unheard(r) \/ response[r] \in {"429", "500"}

\* Of two copies of an event that have both arrived, one was over before.
CopiesInv ==
    \A r \in Requests : \A o \in Copies[r] :
        pc[r] # "new" /\ pc[o] # "new" => Over(r) \/ Over(o)

DeliveryInv == IngressInv /\ SentInv /\ CopiesInv

LEMMA SentStep == HandlerInv /\ SentInv /\ [DeliveryNext]_deliveryVars => SentInv'
<1> SUFFICES ASSUME HandlerInv, SentInv, [DeliveryNext]_deliveryVars PROVE SentInv'
  OBVIOUS
<1>0. /\ pc \in [Requests -> Labels]
      /\ response \in [Requests -> {"none", "200", "429", "500"}]
      /\ \A r \in Requests : pc[r] \notin {"answered", "lost"} => response[r] = "none"
  BY DEF HandlerInv
<1> USE DEF SentInv, queueVars, queueState
<1>1. ASSUME NEW r \in Requests, Arrive(r) PROVE SentInv'
  BY <1>0, <1>1 DEF Arrive, LetIn, TurnAway, Answer, Goto
<1>2. ASSUME NEW r \in Requests, Publish(r) PROVE SentInv'
  <2>1. /\ pc' = [pc EXCEPT ![r] = pc'[r]]
        /\ \/ pc'[r] = "record_success" /\ response' = response
           \/ pc'[r] = "answered" /\ response' = [response EXCEPT ![r] = "200"]
        /\ pc[r] = "publish" /\ response[r] = "none"
    BY <1>0, <1>2 DEF Publish, PublishOK, DebugPublishOK, Report, Answer, Goto
  <2>2. /\ sent' \cup vanished' = sent \cup vanished \cup {r}
        /\ UNCHANGED <<server, stored, abandoned, settled>>
    BY <1>2 DEF Publish, Queue!Send
  <2> QED
    BY <1>0, <2>1, <2>2
<1>3. ASSUME NEW r \in Requests, PublishErrs(r) PROVE SentInv'
  BY <1>0, <1>3
  DEF PublishErrs, PublishFails, DebugPublishFails, Report, Answer, Goto
<1>4. ASSUME NEW r \in Requests, Handle(r) PROVE SentInv'
  BY <1>0, <1>4
  DEF Handle, Retry, GiveUp, CountFailure, ShowFailures, CountSuccess, ShowSuccess,
      Report, Answer, Goto
<1>5. ASSUME NEW r \in Requests, Work(r) PROVE SentInv'
  BY <1>5 DEF Work, Queue!Attempt, Queue!Settle, vars, requestVars
<1>6. ASSUME NEW r \in Requests, HangUp(r), UNCHANGED <<server, queueVars>> PROVE SentInv'
  BY <1>6 DEF HangUp
<1>7. CASE UNCHANGED <<requestVars, server, queueVars>>
  BY <1>7 DEF requestVars
<1>8. CASE ClosePublisher \/ CloseListeners \/ ListenerFails
  BY <1>8 DEF ClosePublisher, CloseListeners, ListenerFails, vars, requestVars
<1>9. CASE End
  BY <1>9 DEF End, Restart
<1> QED
  BY <1>1, <1>2, <1>3, <1>4, <1>5, <1>6, <1>7, <1>8, <1>9
  DEF DeliveryNext, deliveryVars, vars, ShutdownReturns, FatalExit, Crash

\* What is over stays so.
LEMMA OverStays ==
  ASSUME HandlerInv, [Next]_vars, NEW x \in Requests, Over(x)
  PROVE  Over(x)'
<1>0. /\ pc \in [Requests -> Labels]
      /\ response \in [Requests -> {"none", "200", "429", "500"}]
      /\ pc[x] \notin {"answered", "lost"} => response[x] = "none"
  BY DEF HandlerInv
<1> USE DEF Over, Unheard
<1>1. ASSUME NEW r \in Requests, Step(r) PROVE Over(x)'
  <2>1. gone' = gone
    BY <1>1
    DEF Step, LetIn, TurnAway, PublishOK, PublishFails, DebugPublishOK,
        DebugPublishFails, Retry, GiveUp, CountFailure, ShowFailures, CountSuccess,
        ShowSuccess
  <2>2. CASE x # r
    <3>1. pc'[x] = pc[x] /\ response'[x] = response[x]
      BY <1>0, <1>1, <2>2
      DEF Step, LetIn, TurnAway, PublishOK, PublishFails, DebugPublishOK,
          DebugPublishFails, Retry, GiveUp, CountFailure, ShowFailures, CountSuccess,
          ShowSuccess, Report, Answer, Goto
    <3> QED
      BY <2>1, <3>1
  <2>3. CASE x = r
    <3>1. pc[x] \notin {"answered", "lost"}
      BY <1>1, <2>3
      DEF Step, LetIn, TurnAway, PublishOK, PublishFails, DebugPublishOK,
          DebugPublishFails, Retry, GiveUp, CountFailure, ShowFailures, CountSuccess,
          ShowSuccess
    <3>2. x \in gone
      BY <1>0, <3>1
    <3> QED
      BY <2>1, <3>2
  <2> QED
    BY <2>2, <2>3
<1>2. ASSUME NEW r \in Requests, HangUp(r) PROVE Over(x)'
  BY <1>2 DEF HangUp
<1>3. CASE UNCHANGED requestVars
  BY <1>3 DEF requestVars
<1>4. CASE Restart
  BY <1>0, <1>4 DEF Restart
<1> QED
  BY <1>1, <1>2, <1>3, <1>4 DEF Next, vars

LEMMA CopiesStep ==
  HandlerInv /\ CopiesInv /\ [DeliveryNext]_deliveryVars => CopiesInv'
<1> SUFFICES ASSUME HandlerInv, CopiesInv, [DeliveryNext]_deliveryVars,
                    NEW r \in Requests, NEW o \in Copies[r],
                    pc'[r] # "new", pc'[o] # "new"
             PROVE  Over(r)' \/ Over(o)'
  BY DEF CopiesInv
<1>1. o \in Requests /\ r # o /\ r \in Copies[o]
  BY DEF Copies
<1>2. (Over(r) => Over(r)') /\ (Over(o) => Over(o)')
  BY <1>1, OverStays, DeliveryIsIngress
<1>3. CASE pc[r] # "new" /\ pc[o] # "new"
  BY <1>2, <1>3 DEF CopiesInv
<1>4. ASSUME NEW x \in Requests, pc[x] = "new", pc'[x] # "new" PROVE Arrive(x)
  <2>0. pc \in [Requests -> Labels]
    BY DEF HandlerInv
  <2>1. ASSUME NEW y \in Requests, Arrive(y) PROVE x = y
    BY <1>4, <2>0, <2>1 DEF Arrive, LetIn, TurnAway, Answer, Goto
  <2>2. ASSUME NEW y \in Requests, Publish(y) \/ PublishErrs(y) \/ Handle(y) PROVE FALSE
    BY <1>4, <2>0, <2>2
    DEF Publish, PublishErrs, Handle, PublishOK, PublishFails, DebugPublishOK,
        DebugPublishFails, Retry, GiveUp, CountFailure, ShowFailures, CountSuccess,
        ShowSuccess, Report, Answer, Goto
  <2>3. CASE UNCHANGED pc
    BY <1>4, <2>3
  <2>4. CASE Restart
    BY <1>4, <2>4 DEF Restart
  <2> QED
    BY <2>1, <2>2, <2>3, <2>4
    DEF DeliveryNext, deliveryVars, Work, HangUp, requestVars, vars, ClosePublisher,
        CloseListeners, ListenerFails, ShutdownReturns, FatalExit, Crash, End
<1>5. CASE pc[r] = "new"
  <2>1. Arrive(r)
    BY <1>4, <1>5
  <2>2. pc[o] = pc'[o]
    BY <1>1, <2>1 DEF HandlerInv, Arrive, LetIn, TurnAway, Answer, Goto
  <2>3. Over(o)
    BY <2>1, <2>2 DEF Arrive, Repeats, Over
  <2> QED
    BY <1>2, <2>3
<1>6. CASE pc[o] = "new"
  <2>1. Arrive(o)
    BY <1>1, <1>4, <1>6
  <2>2. pc[r] = pc'[r]
    BY <1>1, <2>1 DEF HandlerInv, Arrive, LetIn, TurnAway, Answer, Goto
  <2>3. Over(r)
    BY <1>1, <2>1, <2>2 DEF Arrive, Repeats, Over
  <2> QED
    BY <1>2, <2>3
<1> QED
  BY <1>3, <1>5, <1>6

THEOREM DeliveryInvariance == DeliverySpec => []DeliveryInv
<1>1. DeliveryInit => DeliveryInv
  <2> SUFFICES ASSUME DeliveryInit PROVE DeliveryInv
    OBVIOUS
  <2>1. IngressInv
    BY IngressInit DEF DeliveryInit
  <2>2. SentInv
    BY DEF DeliveryInit, Queue!Init, SentInv, Init
  <2>3. CopiesInv
    BY DEF DeliveryInit, Init, CopiesInv
  <2> QED
    BY <2>1, <2>2, <2>3 DEF DeliveryInv
<1>2. DeliveryInv /\ [DeliveryNext]_deliveryVars => DeliveryInv'
  BY IngressStep, DeliveryIsIngress, SentStep, CopiesStep DEF DeliveryInv, IngressInv
<1> QED
  BY <1>1, <1>2, PTL DEF DeliverySpec

LEMMA DeliveryAsksLimiter == DeliverySpec => LimiterSpec
<1>1. DeliveryInit => LimiterInit
  BY DEF DeliveryInit, Init
<1>2. [DeliveryNext]_deliveryVars => [LimiterNext]_limiterVars
  BY DeliveryIsIngress, IngressAsksLimiter
<1> QED
  BY <1>1, <1>2, PTL DEF DeliverySpec, LimiterSpec

\* The state has its type.
THEOREM DeliveryTypeCorrect == DeliverySpec => []DeliveryTypeOK
<1>1. DeliveryInv /\ LimiterInv => DeliveryTypeOK
  BY DEF DeliveryInv, IngressInv, HandlerInv, SentInv, LimiterInv, DeliveryTypeOK,
         TypeOK, Labels
<1> QED
  BY <1>1, DeliveryInvariance, DeliveryAsksLimiter, LimiterInvariance, PTL

\* What each answer of Handle means for the event: nothing of it is left after
\* 429 and 500, and after 200 it is the queue's until it is stored, given up or
\* expired, unless its connection was lost under it.
THEOREM AnswersMean == DeliverySpec => []AnswersHold
<1>1. DeliveryInv => AnswersHold
  BY DEF DeliveryInv, SentInv, AnswersHold
<1> QED
  BY <1>1, DeliveryInvariance, PTL

\* A sender that repeats an event only until it hears 200 has it in the queue
\* twice only if an answer was lost.
THEOREM Duplicates == DeliverySpec => []DuplicatesUnheard
<1>1. DeliveryInv => DuplicatesUnheard
  <2> SUFFICES ASSUME DeliveryInv, NEW r \in sent, NEW o \in sent \cap Copies[r]
               PROVE  Unheard(r) \/ Unheard(o)
    BY DEF DuplicatesUnheard
  <2>1. r \in Requests /\ o \in Requests
    BY DEF DeliveryInv, SentInv
  <2>2. /\ pc[r] # "new" /\ response[r] \notin {"429", "500"}
        /\ pc[o] # "new" /\ response[o] \notin {"429", "500"}
    BY DEF DeliveryInv, SentInv
  <2> QED
    BY <2>1, <2>2 DEF DeliveryInv, CopiesInv, Over
<1> QED
  BY <1>1, DeliveryInvariance, PTL

\* The gauge shows what the tracker has counted, unless two requests reported at
\* one time (webhook.go, after publishWithRetry).
THEOREM Gauge == DeliverySpec => []GaugeShowsCount
<1>1. DeliveryInv => GaugeShowsCount
  BY GaugeFollows DEF DeliveryInv
<1> QED
  BY <1>1, DeliveryInvariance, PTL

\* The count is that of the failures answered with 500 that no success has come
\* after, of any number of requests in any order (failure_tracker.go).
THEOREM Counts == DeliverySpec => []FailuresCounted
<1>1. DeliveryInv => FailuresCounted
  BY CountsFollow DEF DeliveryInv
<1> QED
  BY <1>1, DeliveryInvariance, PTL

\* A client's share of what is let in is the limiter's, through every restart.
THEOREM DeliveryWindowBound == DeliverySpec => []WindowBound
BY DeliveryAsksLimiter, TwiceADay, PTL
-----------------------------------------------------------------------------
(* What Delivery implements, and how long a request lasts. *)

\* The server's requests behave as Ingress says, whatever becomes of the server
\* they run in and of what they publish.
THEOREM ImplementsIngress == DeliverySpec => Init /\ [][Next]_vars
<1>1. DeliveryInit => Init
  BY DEF DeliveryInit
<1> QED
  BY <1>1, DeliveryIsIngress, PTL DEF DeliverySpec

LEMMA QueueStep == [DeliveryNext]_deliveryVars => [Queue!Next]_(Queue!promise)
<1> SUFFICES ASSUME [DeliveryNext]_deliveryVars PROVE [Queue!Next]_(Queue!promise)
  OBVIOUS
<1> USE DEF Queue!promise, queueVars, queueState
<1>1. ASSUME NEW r \in Requests,
             Arrive(r) \/ PublishErrs(r) \/ Handle(r)
               \/ (HangUp(r) /\ UNCHANGED <<server, queueVars>>)
      PROVE  UNCHANGED queueState
  BY <1>1 DEF Arrive, PublishErrs, Handle
<1>2. ASSUME NEW r \in Requests, Publish(r)
      PROVE  Queue!Next \/ UNCHANGED queueState
  BY <1>2 DEF Publish, Queue!Next
<1>3. ASSUME NEW r \in Requests, Work(r)
      PROVE  Queue!Next
  BY <1>3 DEF Work, Queue!Next
<1>4. CASE UNCHANGED queueVars
  BY <1>4
<1>5. CASE ClosePublisher \/ CloseListeners \/ ListenerFails
  BY <1>5 DEF ClosePublisher, CloseListeners, ListenerFails
<1>6. CASE ShutdownReturns \/ FatalExit \/ Crash
  BY <1>6 DEF ShutdownReturns, FatalExit, Crash, End
<1> QED
  BY <1>1, <1>2, <1>3, <1>4, <1>5, <1>6 DEF DeliveryNext, deliveryVars

\* The queue that the handler publishes to keeps the promise that Worker was
\* shown to keep: no step of the server takes anything out of it.
THEOREM QueueKeepsPromise == DeliverySpec => Queue!Spec
<1>1. DeliveryInit => Queue!Init
  BY DEF DeliveryInit
<1> QED
  BY <1>1, QueueStep, PTL DEF DeliverySpec, Queue!Spec

\* What a request has left is a number.
LEMMA StepsLeftType ==
  ASSUME HandlerInv, NEW r \in Requests
  PROVE  /\ StepsLeft(r) \in 0..(2 * Attempts + 2)
         /\ pc[r] \in DOMAIN StepsAfter => StepsLeft(r) > 0
<1>1. attempt[r] \in 1..Attempts /\ Attempts \in Nat
  BY IngressAssumption DEF HandlerInv
<1>2. CASE pc[r] \in DOMAIN StepsAfter
  <2>1. StepsAfter[pc[r]] \in 1..4
    BY <1>2 DEF StepsAfter
  <2>2. StepsLeft(r) = 2 * (Attempts - attempt[r]) + StepsAfter[pc[r]]
    BY <1>2 DEF StepsLeft
  <2> QED
    BY <1>1, <2>1, <2>2
<1>3. CASE pc[r] \notin DOMAIN StepsAfter
  BY <1>1, <1>3 DEF StepsLeft
<1> QED
  BY <1>2, <1>3

LEMMA StepsDecrease ==
  ASSUME HandlerInv, HandlerInv', [Next]_vars, NEW r \in Requests,
         StepsLeft(r) > 0, <<pc[r], attempt[r]>>' # <<pc[r], attempt[r]>>
  PROVE  StepsLeft(r)' < StepsLeft(r)
<1>1. /\ attempt[r] \in Nat /\ Attempts \in Nat /\ StepsLeft(r) \in Nat
      /\ pc[r] \in DOMAIN StepsAfter
      /\ pc \in [Requests -> Labels] /\ attempt \in [Requests -> 1..Attempts]
  BY StepsLeftType, IngressAssumption DEF HandlerInv, StepsLeft
<1>2. ASSUME NEW o \in Requests, Step(o)
      PROVE  o = r
  <2>1. ASSUME o # r
        PROVE  pc'[r] = pc[r] /\ attempt'[r] = attempt[r]
    BY <1>1, <1>2, <2>1
    DEF Step, LetIn, TurnAway, PublishOK, PublishFails, DebugPublishOK,
        DebugPublishFails, Retry, GiveUp, CountFailure, ShowFailures, CountSuccess,
        ShowSuccess, Report, Answer, Goto
  <2> QED
    BY <2>1
<1>3. ASSUME pc'[r] \notin DOMAIN StepsAfter
      PROVE  StepsLeft(r)' < StepsLeft(r)
  BY <1>1, <1>3 DEF StepsLeft
<1>4. CASE Retry(r)
  <2>1. pc[r] = "pause" /\ pc'[r] = "publish" /\ attempt'[r] = attempt[r] + 1
    BY <1>1, <1>4 DEF Retry, Goto
  <2>2. /\ StepsLeft(r) = 2 * (Attempts - attempt[r]) + 3
        /\ StepsLeft(r)' = 2 * (Attempts - attempt'[r]) + 4
    BY <2>1 DEF StepsLeft, StepsAfter
  <2> QED
    BY <1>1, <2>1, <2>2
<1>5. CASE Step(r) /\ ~Retry(r)
  <2>1. /\ attempt' = attempt
        /\ \/ pc'[r] = "answered"
           \/ pc[r] = "publish"
                /\ pc'[r] \in {"pause", "record_failure", "record_success"}
           \/ pc[r] = "pause" /\ pc'[r] = "record_failure"
           \/ pc[r] = "record_failure" /\ pc'[r] = "set_gauge"
           \/ pc[r] = "record_success" /\ pc'[r] = "clear_gauge"
    BY <1>1, <1>5
    DEF Step, LetIn, TurnAway, PublishOK, PublishFails, DebugPublishOK,
        DebugPublishFails, GiveUp, CountFailure, ShowFailures, CountSuccess,
        ShowSuccess, Report, Answer, Goto, StepsAfter
  <2>2. CASE pc'[r] # "answered"
    <3>1. /\ pc'[r] \in DOMAIN StepsAfter
          /\ StepsAfter[pc[r]] \in Nat /\ StepsAfter[pc'[r]] \in Nat
          /\ StepsAfter[pc'[r]] < StepsAfter[pc[r]]
      BY <2>1, <2>2 DEF StepsAfter
    <3>2. /\ StepsLeft(r) = 2 * (Attempts - attempt[r]) + StepsAfter[pc[r]]
          /\ StepsLeft(r)' = 2 * (Attempts - attempt[r]) + StepsAfter[pc'[r]]
      BY <1>1, <2>1, <3>1 DEF StepsLeft
    <3> QED
      BY <1>1, <3>1, <3>2
  <2>3. CASE pc'[r] = "answered"
    BY <1>3, <2>3 DEF StepsAfter
  <2> QED
    BY <2>2, <2>3
<1>6. CASE Restart
  BY <1>1, <1>3, <1>6 DEF Restart, StepsAfter
<1>7. CASE UNCHANGED <<pc, attempt>>
  BY <1>7
<1> QED
  BY <1>2, <1>4, <1>5, <1>6, <1>7 DEF Next, vars, requestVars, HangUp

\* A request is answered within two steps per attempt and two more, whatever
\* else the server and the other requests do meanwhile.
THEOREM RequestsAreBounded == DeliverySpec => RequestsEnd
<1>1. DeliveryInv /\ DeliveryInv' /\ [DeliveryNext]_deliveryVars =>
        [\A r \in Requests :
           /\ StepsLeft(r) \in 0..(2 * Attempts + 2)
           /\ StepsLeft(r) > 0 /\ <<pc[r], attempt[r]>>' # <<pc[r], attempt[r]>>
                => StepsLeft(r)' < StepsLeft(r)]_vars
  BY StepsLeftType, StepsDecrease, DeliveryIsIngress DEF DeliveryInv, IngressInv
<1> QED
  BY <1>1, DeliveryInvariance, PTL DEF DeliverySpec, RequestsEnd
=============================================================================

------------------------ MODULE WorkerHistory_proofs ------------------------
(***************************************************************************)
(* What duplicates and losses cost, for any number of messages, workers,   *)
(* goroutines, attempts and faults.  Of a step of Worker only its shape    *)
(* matters here: at most one goroutine goes on with a delivery, and the    *)
(* collection grows by at most one document.                               *)
(***************************************************************************)
EXTENDS WorkerHistory, Worker_proofs, FiniteSetTheorems

Docs(m) == {i \in DOMAIN docs : docs[i].msg = m}

\* Goroutines whose next failure or document is not paid for by one already
\* counted: they may still insert m in this delivery or attempt.
Free(m) == {g \in Threads : /\ pc[g] \in {"insert", "mark_retrying", "backoff"}
                            /\ msg[g] = m}

Same(g) == pc'[g] = pc[g] /\ msg'[g] = msg[g] /\ attempt'[g] = attempt[g]

DocsKept ==
    DOMAIN docs' = DOMAIN docs /\ \A i \in DOMAIN docs : docs'[i].msg = docs[i].msg

DocsGrow(m) ==
    /\ DOMAIN docs' = DOMAIN docs \cup {Len(docs) + 1}
    /\ Len(docs) + 1 \notin DOMAIN docs
    /\ docs'[Len(docs) + 1].msg = m
    /\ \A i \in DOMAIN docs : docs'[i].msg = docs[i].msg

\* g takes a delivery.
Takes(g) ==
    /\ pc[g] = "idle" /\ pc'[g] \in {"reject", "insert"}
    /\ msg'[g] \in Messages /\ attempt'[g] = 1
    /\ DocsKept /\ exhausted' = exhausted

\* g gets from one call to the next, which leaves the documents' contents alone.
Moves(g) ==
    /\ msg'[g] = msg[g]
    /\ \/ pc[g] = "mark_retrying" /\ pc'[g] = "backoff" /\ attempt'[g] = attempt[g]
       \/ pc[g] = "backoff" /\ pc'[g] = "insert" /\ attempt'[g] = attempt[g] + 1
       \/ pc[g] \in {"update", "mark_failed"} /\ pc'[g] = "ack" /\ attempt'[g] = attempt[g]
    /\ DocsKept /\ exhausted' = exhausted

\* g has inserted its message.
Inserts(g) ==
    /\ pc[g] = "insert" /\ pc'[g] = "update"
    /\ msg'[g] = msg[g] /\ attempt'[g] = attempt[g]
    /\ DocsGrow(msg[g]) /\ exhausted' = exhausted

\* An attempt of g failed, perhaps after its document was written.
Fails(g) ==
    /\ pc[g] \in {"insert", "update"}
    /\ msg'[g] = msg[g] /\ attempt'[g] = attempt[g]
    /\ \/ pc'[g] = "mark_retrying" /\ exhausted' = exhausted
       \/ /\ pc'[g] = "mark_failed" /\ attempt[g] >= MaxRetries
          /\ exhausted' = exhausted \cup {msg[g]}
    /\ DocsKept \/ (pc[g] = "insert" /\ DocsGrow(msg[g]))

\* Nobody takes a delivery or goes on with one.
Quiet ==
    /\ \A g \in Threads : Same(g) \/ pc'[g] \notin Busy
    /\ DocsKept /\ exhausted' = exhausted

OneGoesOn ==
    \E g \in Threads :
        /\ \A h \in Threads \ {g} : Same(h)
        /\ Takes(g) \/ Moves(g) \/ Inserts(g) \/ Fails(g)
-----------------------------------------------------------------------------
LEMMA GrowFacts ==
  ASSUME StoreTypeOK, NEW m \in Messages, NEW n \in Nat, InsertEvent(m, n)
  PROVE  DocsGrow(m)
<1> DEFINE d == [msg |-> m, status |-> "pending", retry |-> n]
<1>1. d \in Document /\ d.msg = m
  BY DEF Document, EventStatus
<1>2. docs \in Seq(Document) /\ docs' = Append(docs, d)
  BY DEF StoreTypeOK, InsertEvent
<1> HIDE DEF d
<1>3. /\ DOMAIN docs = 1..Len(docs) /\ Len(docs) \in Nat
      /\ DOMAIN docs' = 1..(Len(docs) + 1)
      /\ docs'[Len(docs) + 1] = d
      /\ \A i \in 1..Len(docs) : docs'[i] = docs[i]
  BY <1>1, <1>2
<1>4. QED
  BY <1>1, <1>3 DEF DocsGrow

LEMMA KeptFacts ==
  ASSUME StoreTypeOK, NEW m \in Messages, NEW s \in EventStatus, NEW n \in Nat,
         UpdateEventStatus(m, s, n)
  PROVE  DocsKept
  BY UpdateFacts DEF DocsKept

LEMMA FailFacts ==
  ASSUME TypeOK, LoopInv, NEW g \in Threads, pc[g] \in {"insert", "update"},
         AttemptFails(g)
  PROVE  /\ \A h \in Threads \ {g} : Same(h)
         /\ msg'[g] = msg[g] /\ attempt'[g] = attempt[g]
         /\ \/ pc'[g] = "mark_retrying" /\ exhausted' = exhausted
            \/ /\ pc'[g] = "mark_failed" /\ attempt[g] >= MaxRetries
               /\ exhausted' = exhausted \cup {msg[g]}
<1>1. attempt[g] \in Nat /\ MaxRetries \in Nat
  BY BusyFacts DEF Busy
<1>2. /\ msg' = msg /\ attempt' = attempt
      /\ \/ Goto(g, "mark_retrying") /\ exhausted' = exhausted
         \/ /\ attempt[g] >= MaxRetries /\ Goto(g, "mark_failed")
            /\ exhausted' = exhausted \cup {msg[g]}
  BY <1>1 DEF AttemptFails
<1>3. QED
  BY <1>2, GotoFacts DEF TypeOK, Same, Busy

LEMMA GoesOnFacts ==
  ASSUME TypeOK, NEW g \in Threads, NEW label \in Busy, AttemptGoesOn(g, label)
  PROVE  /\ \A h \in Threads \ {g} : Same(h)
         /\ pc'[g] = label /\ msg'[g] = msg[g] /\ attempt'[g] = attempt[g]
         /\ exhausted' = exhausted
  BY GotoFacts DEF TypeOK, AttemptGoesOn, Same

LEMMA InsertShape ==
  ASSUME TypeOK, LoopInv, NEW g \in Threads, Insert(g)
  PROVE  OneGoesOn
<1> DEFINE effect == InsertEvent(msg[g], attempt[g] - 1)
<1>1. /\ pc[g] = "insert"
      /\ \/ DatabaseSucceeds(Owner(g), effect) /\ AttemptGoesOn(g, "update")
         \/ DatabaseFails(Owner(g), effect) /\ AttemptFails(g)
  BY DEF Insert
<1>2. msg[g] \in Messages /\ attempt[g] - 1 \in Nat
  BY <1>1 DEF LoopInv, Busy, TypeOK, LoopTypeOK
<1>3. effect => DocsGrow(msg[g])
  BY <1>2, GrowFacts DEF TypeOK
<1>4. UNCHANGED docs => DocsKept
  BY DEF DocsKept
<1> HIDE DEF effect
<1>5. CASE DatabaseSucceeds(Owner(g), effect) /\ AttemptGoesOn(g, "update")
  <2>1. Inserts(g) /\ \A h \in Threads \ {g} : Same(h)
    BY <1>1, <1>3, <1>5, GoesOnFacts DEF DatabaseSucceeds, Inserts, Busy
  <2>2. QED
    BY <2>1 DEF OneGoesOn
<1>6. CASE DatabaseFails(Owner(g), effect) /\ AttemptFails(g)
  <2>1. Fails(g) /\ \A h \in Threads \ {g} : Same(h)
    BY <1>1, <1>3, <1>4, <1>6, FailFacts DEF DatabaseFails, Fails
  <2>2. QED
    BY <2>1 DEF OneGoesOn
<1>7. QED
  BY <1>1, <1>5, <1>6

LEMMA MarkProcessedShape ==
  ASSUME TypeOK, LoopInv, NEW g \in Threads, MarkProcessed(g)
  PROVE  OneGoesOn
<1> DEFINE effect == UpdateEventStatus(msg[g], "processed", attempt[g] - 1)
<1>1. /\ pc[g] = "update"
      /\ \/ DatabaseSucceeds(Owner(g), effect) /\ AttemptGoesOn(g, "ack")
         \/ DatabaseFails(Owner(g), effect) /\ AttemptFails(g)
  BY DEF MarkProcessed
<1>2. msg[g] \in Messages /\ attempt[g] - 1 \in Nat
  BY <1>1 DEF LoopInv, Busy, TypeOK, LoopTypeOK
<1>3. effect \/ UNCHANGED docs => DocsKept
  BY <1>2, KeptFacts DEF TypeOK, EventStatus, DocsKept
<1> HIDE DEF effect
<1>4. CASE DatabaseSucceeds(Owner(g), effect) /\ AttemptGoesOn(g, "ack")
  <2>1. Moves(g) /\ \A h \in Threads \ {g} : Same(h)
    BY <1>1, <1>3, <1>4, GoesOnFacts DEF DatabaseSucceeds, Moves, Busy
  <2>2. QED
    BY <2>1 DEF OneGoesOn
<1>5. CASE DatabaseFails(Owner(g), effect) /\ AttemptFails(g)
  <2>1. Fails(g) /\ \A h \in Threads \ {g} : Same(h)
    BY <1>1, <1>3, <1>5, FailFacts DEF DatabaseFails, Fails
  <2>2. QED
    BY <2>1 DEF OneGoesOn
<1>6. QED
  BY <1>1, <1>4, <1>5

\* The two updates whose errors are ignored.
LEMMA MarkShape ==
  ASSUME TypeOK, LoopInv, NEW g \in Threads, MarkRetrying(g) \/ MarkFailed(g)
  PROVE  OneGoesOn
<1>1. PICK s \in EventStatus, label \in Busy :
        /\ \/ pc[g] = "mark_retrying" /\ label = "backoff"
           \/ pc[g] = "mark_failed" /\ label = "ack"
        /\ UpdateIgnoringErrors(g, s)
        /\ AttemptGoesOn(g, label)
  BY DEF MarkRetrying, MarkFailed, EventStatus, Busy
<1> DEFINE effect == UpdateEventStatus(msg[g], s, attempt[g])
<1>2. effect \/ UNCHANGED docs
  BY <1>1 DEF UpdateIgnoringErrors, DatabaseSucceeds, DatabaseFails
<1>3. msg[g] \in Messages /\ attempt[g] \in Nat
  BY <1>1, BusyFacts DEF Busy
<1>4. DocsKept
  BY <1>2, <1>3, KeptFacts DEF TypeOK, DocsKept
<1>5. Moves(g) /\ \A h \in Threads \ {g} : Same(h)
  BY <1>1, <1>4, GoesOnFacts DEF Moves
<1>6. QED
  BY <1>5 DEF OneGoesOn

LEMMA ReceiveShape ==
  ASSUME TypeOK, NEW g \in Threads, Receive(g)
  PROVE  OneGoesOn
<1>1. PICK m \in buffer[Owner(g)] :
        /\ msg' = [msg EXCEPT ![g] = m]
        /\ attempt' = [attempt EXCEPT ![g] = 1]
        /\ Goto(g, IF m \in Malformed THEN "reject" ELSE "insert")
  BY DEF Receive
<1>2. m \in Messages
  BY <1>1, OwnerType DEF TypeOK
<1>3. pc[g] = "idle" /\ docs' = docs /\ exhausted' = exhausted
  BY DEF Receive
<1>4. PICK label \in {"reject", "insert"} : Goto(g, label)
  BY <1>1
<1>5. Takes(g) /\ \A h \in Threads \ {g} : Same(h)
  BY <1>1, <1>2, <1>3, <1>4, GotoFacts
     DEF TypeOK, LoopTypeOK, Takes, Same, DocsKept, Busy
<1>6. QED
  BY <1>5 DEF OneGoesOn

LEMMA RetryShape ==
  ASSUME TypeOK, NEW g \in Threads, Retry(g)
  PROVE  OneGoesOn
<1>1. Moves(g) /\ \A h \in Threads \ {g} : Same(h)
  BY GotoFacts DEF Retry, TypeOK, LoopTypeOK, Moves, Same, DocsKept, Busy
<1>2. QED
  BY <1>1 DEF OneGoesOn

LEMMA Shape ==
  ASSUME TypeOK, LoopInv, [Next]_vars
  PROVE  Quiet \/ OneGoesOn
<1>1. CASE UNCHANGED vars
  BY <1>1 DEF vars, threadVars, Quiet, Same, DocsKept
<1>2. ASSUME NEW m \in Messages, Publish(m) \/ ExpireMessage(m) PROVE Quiet
  BY <1>2 DEF Publish, ExpireMessage, threadVars, Quiet, Same, DocsKept
<1>3. ASSUME NEW g \in Threads, Step(g) PROVE Quiet \/ OneGoesOn
  <2>1. CASE Receive(g)
    BY <2>1, ReceiveShape
  <2>2. CASE RejectMalformed(g) \/ NackOnShutdown(g) \/ AckMessage(g)
    <3>1. Return(g) /\ docs' = docs /\ exhausted' = exhausted
      BY <2>2 DEF RejectMalformed, NackOnShutdown, AckMessage
    <3>2. QED
      BY <3>1, ReturnFacts DEF TypeOK, Quiet, Same, DocsKept, Busy
  <2>3. CASE Insert(g)
    BY <2>3, InsertShape
  <2>4. CASE MarkProcessed(g)
    BY <2>4, MarkProcessedShape
  <2>5. CASE MarkRetrying(g) \/ MarkFailed(g)
    BY <2>5, MarkShape
  <2>6. CASE Retry(g)
    BY <2>6, RetryShape
  <2>7. CASE ExitLoop(g)
    <3>1. /\ Goto(g, "exited") /\ docs' = docs /\ exhausted' = exhausted
          /\ msg' = msg /\ attempt' = attempt
      BY <2>7 DEF ExitLoop
    <3>2. QED
      BY <3>1, GotoFacts DEF TypeOK, Quiet, Same, DocsKept, Busy
  <2>8. QED
    BY <1>3, <2>1, <2>2, <2>3, <2>4, <2>5, <2>6, <2>7 DEF Step
<1>4. ASSUME NEW w \in Workers,
             StartWorker(w) \/ Exit(w) \/ Crash(w)
      PROVE  Quiet
  <2>1. PICK label \in {"idle", "exited"} : ResetLoops(w, label)
    BY <1>4 DEF StartWorker, Exit, Crash
  <2>2. docs' = docs /\ exhausted' = exhausted
    BY <1>4 DEF StartWorker, Exit, Crash
  <2>3. QED
    BY <2>1, <2>2, ResetFacts DEF TypeOK, Quiet, Same, DocsKept, Busy
<1>5. ASSUME NEW w \in Workers,
             DeliverTo(w) \/ StopConsuming(w) \/ Signal(w) \/ Disconnect(w)
      PROVE  Quiet
  BY <1>5 DEF DeliverTo, StopConsuming, Signal, Disconnect, threadVars,
              Quiet, Same, DocsKept
<1>6. QED
  BY <1>1, <1>2, <1>3, <1>4, <1>5 DEF Next
-----------------------------------------------------------------------------
(* The invariants behind the two bounds. *)

HistoryTypeOK ==
    /\ deliveries \in [Messages -> Nat]
    /\ failures \in [Messages -> Nat]

\* A goroutine's attempts before this one have all failed, and so has this one
\* once the goroutine says so.
FailuresInv ==
    /\ \A g \in Threads :
         /\ pc[g] \in Busy => failures[msg[g]] >= attempt[g] - 1
         /\ pc[g] \in {"mark_retrying", "backoff"} => failures[msg[g]] >= attempt[g]
    /\ \A m \in exhausted : failures[m] >= MaxRetries

\* What a goroutine may still insert has been paid for already.
DuplicatesInv ==
    \A m \in Messages :
        Cardinality(Docs(m)) + Cardinality(Free(m)) <= deliveries[m] + failures[m]

HistoryInv ==
    /\ IndInv
    /\ HistoryTypeOK
    /\ FailuresInv
    /\ DuplicatesInv

LEMMA ThreadsFinite == IsFiniteSet(Threads)
<1>1. NumLoops \in Int
  BY WorkerAssumption DEF NumLoops
<1>2. IsFiniteSet(1..NumLoops)
  BY <1>1, FS_Interval
<1>3. QED
  BY <1>2, HistoryAssumption, FS_Product DEF Threads

\* Sets of goroutines are finite, and their sizes are numbers.
LEMMA ThreadSets ==
  ASSUME NEW S, S \subseteq Threads
  PROVE  IsFiniteSet(S) /\ Cardinality(S) \in Nat
<1>1. IsFiniteSet(S)
  BY ThreadsFinite, FS_Subset
<1>2. QED
  BY <1>1, FS_CardinalityType

LEMMA DocsFinite ==
  ASSUME StoreTypeOK, NEW m
  PROVE  IsFiniteSet(Docs(m)) /\ Cardinality(Docs(m)) \in Nat
<1>1. DOMAIN docs = 1..Len(docs) /\ Len(docs) \in Nat
  BY DEF StoreTypeOK
<1>2. IsFiniteSet(DOMAIN docs)
  BY <1>1, FS_Interval
<1>3. Docs(m) \subseteq DOMAIN docs
  BY DEF Docs
<1>4. IsFiniteSet(Docs(m))
  BY <1>2, <1>3, FS_Subset
<1>5. QED
  BY <1>4, FS_CardinalityType

\* How the counters move in a step.
Counting ==
    /\ deliveries' = [m \in Messages |-> deliveries[m] + Cardinality(Receivers(m))]
    /\ failures' = [m \in Messages |-> failures[m] + Cardinality(Failing(m))]

LEMMA CountFacts ==
  ASSUME HistoryTypeOK, Counting
  PROVE  /\ HistoryTypeOK'
         /\ \A m \in Messages : /\ deliveries'[m] >= deliveries[m]
                                /\ failures'[m] >= failures[m]
         /\ \A m \in Messages :
                \A g \in Receivers(m) : deliveries'[m] >= deliveries[m] + 1
         /\ \A m \in Messages :
                \A g \in Failing(m) : failures'[m] >= failures[m] + 1
<1>1. ASSUME NEW m \in Messages
      PROVE  /\ IsFiniteSet(Receivers(m)) /\ Cardinality(Receivers(m)) \in Nat
             /\ IsFiniteSet(Failing(m)) /\ Cardinality(Failing(m)) \in Nat
  BY ThreadSets DEF Receivers, Failing
<1>2. ASSUME NEW m \in Messages
      PROVE  /\ Receivers(m) # {} => Cardinality(Receivers(m)) >= 1
             /\ Failing(m) # {} => Cardinality(Failing(m)) >= 1
  <2>1. /\ Cardinality(Receivers(m)) = 0 <=> Receivers(m) = {}
        /\ Cardinality(Failing(m)) = 0 <=> Failing(m) = {}
    BY <1>1, FS_EmptySet
  <2>2. QED
    BY <1>1, <2>1
<1>3. QED
  BY <1>1, <1>2 DEF HistoryTypeOK, Counting

LEMMA FailuresStep ==
  ASSUME TypeOK, LoopInv, HistoryTypeOK, FailuresInv, Counting, Quiet \/ OneGoesOn
  PROVE  FailuresInv'
<1>1. /\ HistoryTypeOK'
      /\ \A m \in Messages : failures'[m] >= failures[m]
      /\ \A m \in Messages :
             \A g \in Failing(m) : failures'[m] >= failures[m] + 1
  BY CountFacts
<1>2. \A g \in Threads : pc[g] \in Busy =>
         msg[g] \in Messages /\ attempt[g] \in Nat /\ MaxRetries \in Nat
  BY BusyFacts
<1>3. exhausted \subseteq Messages /\ MaxRetries \in Nat
  BY WorkerAssumption DEF TypeOK
<1>4. \A m \in exhausted : failures'[m] >= MaxRetries
  BY <1>1, <1>3 DEF FailuresInv, HistoryTypeOK
<1>5. ASSUME NEW g \in Threads, Same(g)
      PROVE  /\ pc'[g] \in Busy => failures'[msg'[g]] >= attempt'[g] - 1
             /\ pc'[g] \in {"mark_retrying", "backoff"} =>
                    failures'[msg'[g]] >= attempt'[g]
  BY <1>1, <1>2, <1>5 DEF FailuresInv, HistoryTypeOK, Same, Busy
<1>6. CASE Quiet
  BY <1>4, <1>5, <1>6 DEF FailuresInv, Quiet, Busy
<1>7. CASE OneGoesOn
  <2>1. PICK g \in Threads :
          /\ \A h \in Threads \ {g} : Same(h)
          /\ Takes(g) \/ Moves(g) \/ Inserts(g) \/ Fails(g)
    BY <1>7 DEF OneGoesOn
  <2>2. /\ pc'[g] \in Busy => failures'[msg'[g]] >= attempt'[g] - 1
        /\ pc'[g] \in {"mark_retrying", "backoff"} =>
               failures'[msg'[g]] >= attempt'[g]
        /\ \A m \in exhausted' : failures'[m] >= MaxRetries
    <3>1. CASE Takes(g)
      BY <1>1, <1>4, <3>1 DEF Takes, HistoryTypeOK
    <3>2. CASE Moves(g)
      <4>1. pc[g] \in Busy /\ exhausted' = exhausted /\ msg'[g] = msg[g]
        BY <3>2 DEF Moves, Busy
      <4>2. /\ failures'[msg[g]] >= failures[msg[g]]
            /\ failures'[msg[g]] \in Nat /\ failures[msg[g]] \in Nat
        BY <1>1, <1>2, <4>1 DEF HistoryTypeOK
      <4>3. QED
        BY <1>2, <1>4, <3>2, <4>1, <4>2 DEF Moves, FailuresInv
    <3>3. CASE Inserts(g)
      <4>1. /\ pc[g] \in Busy /\ exhausted' = exhausted /\ msg'[g] = msg[g]
            /\ attempt'[g] = attempt[g] /\ pc'[g] = "update"
        BY <3>3 DEF Inserts, Busy
      <4>2. /\ failures'[msg[g]] >= failures[msg[g]]
            /\ failures'[msg[g]] \in Nat /\ failures[msg[g]] \in Nat
        BY <1>1, <1>2, <4>1 DEF HistoryTypeOK
      <4>3. QED
        BY <1>2, <1>4, <4>1, <4>2 DEF FailuresInv
    <3>4. CASE Fails(g)
      <4>1. /\ pc[g] \in Busy /\ msg'[g] = msg[g] /\ attempt'[g] = attempt[g]
            /\ g \in Failing(msg[g])
        BY <3>4 DEF Fails, Busy, Failing
      <4>2. /\ failures'[msg[g]] >= failures[msg[g]] + 1
            /\ failures'[msg[g]] \in Nat /\ failures[msg[g]] \in Nat
        BY <1>1, <1>2, <4>1 DEF HistoryTypeOK
      <4>3. failures'[msg[g]] >= attempt[g]
        BY <1>2, <4>1, <4>2 DEF FailuresInv
      <4>4. \A m \in exhausted' :
               m \in exhausted \/ (m = msg[g] /\ attempt[g] >= MaxRetries)
        BY <3>4 DEF Fails
      <4>5. \A m \in exhausted' : failures'[m] >= MaxRetries
        BY <1>2, <1>3, <1>4, <4>1, <4>2, <4>3, <4>4
      <4>6. QED
        BY <1>2, <4>1, <4>2, <4>3, <4>5
    <3>5. QED
      BY <2>1, <3>1, <3>2, <3>3, <3>4
  <2>3. QED
    BY <1>5, <2>1, <2>2 DEF FailuresInv
<1>8. QED
  BY <1>6, <1>7
-----------------------------------------------------------------------------
LEMMA DocsCount ==
  ASSUME StoreTypeOK, StoreTypeOK', NEW m \in Messages
  PROVE  /\ DocsKept => Cardinality(Docs(m)') = Cardinality(Docs(m))
         /\ \A k : DocsGrow(k) =>
                /\ k # m => Cardinality(Docs(m)') = Cardinality(Docs(m))
                /\ Cardinality(Docs(m)') <= Cardinality(Docs(m)) + 1
<1>1. /\ IsFiniteSet(Docs(m)) /\ Cardinality(Docs(m)) \in Nat
      /\ IsFiniteSet(Docs(m)') /\ Cardinality(Docs(m)') \in Nat
  <2>1. /\ IsFiniteSet(Docs(m)) /\ Cardinality(Docs(m)) \in Nat
    BY DocsFinite
  <2>2. DOMAIN docs' = 1..Len(docs') /\ Len(docs') \in Nat
    BY DEF StoreTypeOK
  <2>3. IsFiniteSet(DOMAIN docs')
    BY <2>2, FS_Interval
  <2>4. Docs(m)' \subseteq DOMAIN docs'
    BY DEF Docs
  <2>5. IsFiniteSet(Docs(m)')
    BY <2>3, <2>4, FS_Subset
  <2>6. QED
    BY <2>1, <2>5, FS_CardinalityType
<1>2. ASSUME DocsKept PROVE Docs(m)' = Docs(m)
  BY <1>2 DEF DocsKept, Docs
<1>3. ASSUME NEW k, DocsGrow(k), k # m PROVE Docs(m)' = Docs(m)
  BY <1>3 DEF DocsGrow, Docs
<1>4. ASSUME NEW k, DocsGrow(k)
      PROVE  Cardinality(Docs(m)') <= Cardinality(Docs(m)) + 1
  <2> DEFINE n == Len(docs) + 1
  <2>1. Docs(m)' \subseteq Docs(m) \cup {n}
    BY <1>4 DEF DocsGrow, Docs
  <2> HIDE DEF n
  <2>2. /\ IsFiniteSet(Docs(m) \cup {n})
        /\ Cardinality(Docs(m) \cup {n})
             = IF n \in Docs(m) THEN Cardinality(Docs(m)) ELSE Cardinality(Docs(m)) + 1
    BY <1>1, FS_AddElement
  <2>3. Cardinality(Docs(m)') <= Cardinality(Docs(m) \cup {n})
    BY <2>1, <2>2, FS_Subset
  <2>4. QED
    BY <1>1, <2>2, <2>3
<1>5. QED
  BY <1>2, <1>3, <1>4

LEMMA FreeCount ==
  ASSUME NEW m \in Messages
  PROVE  /\ Cardinality(Free(m)) \in Nat /\ Cardinality(Free(m)') \in Nat
         /\ Free(m)' \subseteq Free(m) => Cardinality(Free(m)') <= Cardinality(Free(m))
         /\ \A g \in Threads : Free(m)' \subseteq Free(m) \cup {g} =>
                Cardinality(Free(m)') <= Cardinality(Free(m)) + 1
         /\ \A g \in Free(m) : Free(m)' \subseteq Free(m) \ {g} =>
                Cardinality(Free(m)') <= Cardinality(Free(m)) - 1
<1>1. /\ IsFiniteSet(Free(m)) /\ Cardinality(Free(m)) \in Nat
      /\ IsFiniteSet(Free(m)') /\ Cardinality(Free(m)') \in Nat
  <2>1. Free(m) \subseteq Threads /\ Free(m)' \subseteq Threads
    BY DEF Free
  <2>2. QED
    BY <2>1, ThreadSets
<1>2. Free(m)' \subseteq Free(m) => Cardinality(Free(m)') <= Cardinality(Free(m))
  BY <1>1, FS_Subset
<1>3. ASSUME NEW g \in Threads, Free(m)' \subseteq Free(m) \cup {g}
      PROVE  Cardinality(Free(m)') <= Cardinality(Free(m)) + 1
  <2>1. /\ IsFiniteSet(Free(m) \cup {g})
        /\ Cardinality(Free(m) \cup {g})
             = IF g \in Free(m) THEN Cardinality(Free(m)) ELSE Cardinality(Free(m)) + 1
    BY <1>1, FS_AddElement
  <2>2. Cardinality(Free(m)') <= Cardinality(Free(m) \cup {g})
    BY <1>3, <2>1, FS_Subset
  <2>3. QED
    BY <1>1, <2>1, <2>2
<1>4. ASSUME NEW g \in Free(m), Free(m)' \subseteq Free(m) \ {g}
      PROVE  Cardinality(Free(m)') <= Cardinality(Free(m)) - 1
  <2>1. /\ IsFiniteSet(Free(m) \ {g})
        /\ Cardinality(Free(m) \ {g}) = Cardinality(Free(m)) - 1
    BY <1>1, FS_RemoveElement
  <2>2. Cardinality(Free(m)') <= Cardinality(Free(m) \ {g})
    BY <1>4, <2>1, FS_Subset
  <2>3. QED
    BY <2>1, <2>2
<1>5. QED
  BY <1>1, <1>2, <1>3, <1>4

LEMMA DuplicatesStep ==
  ASSUME TypeOK, StoreTypeOK', LoopInv, HistoryTypeOK, DuplicatesInv, Counting,
         Quiet \/ OneGoesOn
  PROVE  DuplicatesInv'
<1> SUFFICES ASSUME NEW m \in Messages
             PROVE  Cardinality(Docs(m)') + Cardinality(Free(m)')
                        <= deliveries'[m] + failures'[m]
  BY DEF DuplicatesInv
<1> DEFINE D == Cardinality(Docs(m))
           D1 == Cardinality(Docs(m)')
           F == Cardinality(Free(m))
           F1 == Cardinality(Free(m)')
           C == deliveries[m] + failures[m]
           C1 == deliveries'[m] + failures'[m]
<1>1. D \in Nat /\ D1 \in Nat /\ F \in Nat /\ F1 \in Nat /\ D + F <= C
  <2>1. StoreTypeOK
    BY DEF TypeOK
  <2>2. D \in Nat
    BY <2>1, DocsFinite
  <2>3. DOMAIN docs' = 1..Len(docs') /\ Len(docs') \in Nat
    BY DEF StoreTypeOK
  <2>4. IsFiniteSet(DOMAIN docs')
    BY <2>3, FS_Interval
  <2>5. Docs(m)' \subseteq DOMAIN docs'
    BY DEF Docs
  <2>6. D1 \in Nat
    BY <2>4, <2>5, FS_Subset, FS_CardinalityType
  <2>7. QED
    BY <2>2, <2>6, FreeCount DEF DuplicatesInv
<1>2. /\ C \in Nat /\ C1 \in Nat /\ C1 >= C
      /\ \A g \in Receivers(m) : C1 >= C + 1
      /\ \A g \in Failing(m) : C1 >= C + 1
  BY CountFacts DEF HistoryTypeOK
<1>3. /\ DocsKept => D1 = D
      /\ \A k : DocsGrow(k) => D1 <= D + 1 /\ (k # m => D1 = D)
  BY DocsCount DEF TypeOK
<1>4. /\ Free(m)' \subseteq Free(m) => F1 <= F
      /\ \A g \in Threads : Free(m)' \subseteq Free(m) \cup {g} => F1 <= F + 1
      /\ \A g \in Free(m) : Free(m)' \subseteq Free(m) \ {g} => F1 <= F - 1
  BY FreeCount
<1> HIDE DEF D, D1, F, F1, C, C1
<1>5. SUFFICES D1 + F1 <= C1
  BY DEF D1, F1, C1
<1>6. CASE Quiet
  <2>1. Free(m)' \subseteq Free(m) /\ DocsKept
    BY <1>6 DEF Quiet, Free, Same, Busy
  <2>2. QED
    BY <1>1, <1>2, <1>3, <1>4, <2>1
<1>7. CASE OneGoesOn
  <2>1. PICK g \in Threads :
          /\ \A h \in Threads \ {g} : Same(h)
          /\ Takes(g) \/ Moves(g) \/ Inserts(g) \/ Fails(g)
    BY <1>7 DEF OneGoesOn
  <2>2. Free(m)' \subseteq Free(m) \cup {g}
    BY <2>1 DEF Free, Same
  <2>3. CASE Takes(g)
    <3>1. CASE msg'[g] = m
      <4>1. g \in Receivers(m)
        BY <2>3, <3>1 DEF Takes, Receivers, Busy
      <4>2. QED
        BY <1>1, <1>2, <1>3, <1>4, <2>2, <2>3, <4>1 DEF Takes
    <3>2. CASE msg'[g] # m
      <4>1. Free(m)' \subseteq Free(m)
        BY <2>2, <3>2 DEF Free
      <4>2. QED
        BY <1>1, <1>2, <1>3, <1>4, <2>3, <4>1 DEF Takes
    <3>3. QED
      BY <3>1, <3>2
  <2>4. CASE Moves(g)
    <3>1. Free(m)' \subseteq Free(m)
      BY <2>2, <2>4 DEF Moves, Free
    <3>2. QED
      BY <1>1, <1>2, <1>3, <1>4, <2>4, <3>1 DEF Moves
  <2>5. CASE Inserts(g)
    <3>1. CASE msg[g] = m
      <4>1. g \in Free(m) /\ Free(m)' \subseteq Free(m) \ {g}
        BY <2>2, <2>5, <3>1 DEF Inserts, Free
      <4>2. QED
        BY <1>1, <1>2, <1>3, <1>4, <2>5, <4>1 DEF Inserts
    <3>2. CASE msg[g] # m
      <4>1. Free(m)' \subseteq Free(m)
        BY <2>2, <2>5, <3>2 DEF Inserts, Free
      <4>2. QED
        BY <1>1, <1>2, <1>3, <1>4, <2>5, <3>2, <4>1 DEF Inserts
    <3>3. QED
      BY <3>1, <3>2
  <2>6. CASE Fails(g)
    <3>1. CASE msg[g] = m
      <4>1. g \in Failing(m)
        BY <2>6, <3>1 DEF Fails, Failing
      <4>2. CASE pc[g] = "insert"
        <5>1. Free(m)' \subseteq Free(m)
          BY <2>2, <3>1, <4>2 DEF Free
        <5>2. D1 <= D + 1
          BY <1>1, <1>3, <2>6 DEF Fails
        <5>3. QED
          BY <1>1, <1>2, <1>4, <4>1, <5>1, <5>2
      <4>3. CASE pc[g] = "update"
        BY <1>1, <1>2, <1>3, <1>4, <2>2, <2>6, <4>1, <4>3 DEF Fails
      <4>4. QED
        BY <2>6, <4>2, <4>3 DEF Fails
    <3>2. CASE msg[g] # m
      <4>1. Free(m)' \subseteq Free(m)
        BY <2>2, <2>6, <3>2 DEF Fails, Free
      <4>2. D1 = D
        BY <1>3, <2>6, <3>2 DEF Fails
      <4>3. QED
        BY <1>1, <1>2, <1>4, <4>1, <4>2
    <3>3. QED
      BY <3>1, <3>2
  <2>7. QED
    BY <2>1, <2>3, <2>4, <2>5, <2>6
<1>8. QED
  BY <1>6, <1>7
-----------------------------------------------------------------------------
(* How often a message comes back. *)

Holders(m) == {w \in Workers : m \in buffer[w]}
Waits == {"unsent", "ready"}
Waiting(m) == IF place[m] \in Waits THEN 1 ELSE 0
Losses == faults["crash"] + faults["disconnect"]

\* The deliveries a message has had, those some process has before it and the
\* one the broker has before it together come of its publication and of losses.
\* Of the processes that hold it all but one lost their connection.
RedeliveryInv ==
    faults["signal"] = 0 =>
        /\ \A w \in Workers : process[w] # "stopping"
        /\ \A m \in Messages :
               deliveries[m] + Cardinality(Holders(m)) + Waiting(m) <= 1 + Losses

\* What a step may do to a message: nothing that counts; bring it to a process;
\* hand it to a goroutine; or lose it, which puts it back into the queue.
Calm(m) ==
    /\ Receivers(m) = {} /\ Holders(m)' \subseteq Holders(m)
    /\ place'[m] \in Waits => place[m] \in Waits
    /\ Losses' >= Losses
Arrives(m) ==
    /\ Receivers(m) = {} /\ \E w \in Workers : Holders(m)' \subseteq Holders(m) \cup {w}
    /\ place[m] \in Waits /\ place'[m] \notin Waits
    /\ Losses' = Losses
Received(m) ==
    /\ \E g \in Threads :
         /\ Receivers(m) \subseteq {g} /\ Owner(g) \in Holders(m)
         /\ Holders(m)' \subseteq Holders(m) \ {Owner(g)}
    /\ place' = place /\ Losses' = Losses
Returned(m) ==
    /\ Receivers(m) = {} /\ Holders(m)' \subseteq Holders(m)
    /\ Losses' = Losses + 1

LEMMA FaultFacts ==
  ASSUME TypeOK, NEW f \in Faults, SpendFault(f)
  PROVE  /\ Losses \in Nat /\ Losses' \in Nat
         /\ f \in {"crash", "disconnect"} => Losses' = Losses + 1
         /\ f \in {"db", "signal"} => Losses' = Losses
         /\ f = "signal" => faults'["signal"] = faults["signal"] + 1
         /\ f # "signal" => faults'["signal"] = faults["signal"]
<1>1. faults \in [Faults -> Nat]
  BY DEF TypeOK
<1>2. /\ faults'[f] = faults[f] + 1
      /\ \A k \in Faults : k # f => faults'[k] = faults[k]
  BY <1>1, SpendFacts
<1> QED
  BY <1>1, <1>2 DEF Faults, Losses

\* A call of the database, or none.
LEMMA CallFacts ==
  ASSUME TypeOK, UNCHANGED faults \/ SpendFault("db")
  PROVE  Losses' = Losses /\ faults'["signal"] = faults["signal"]
  BY FaultFacts DEF Losses, Faults

\* Without a signal no process stops.
LEMMA NobodyStops ==
  ASSUME TypeOK, Next, faults'["signal"] = 0,
         faults["signal"] = 0 => \A w \in Workers : process[w] # "stopping"
  PROVE  faults["signal"] = 0 /\ \A w \in Workers : process'[w] # "stopping"
<1>0. /\ process \in [Workers -> {"down", "running", "stopping"}]
      /\ faults["signal"] \in Nat
  BY DEF TypeOK, Faults
<1>1. CASE \E m \in Messages : Publish(m) \/ ExpireMessage(m)
  BY <1>1 DEF Publish, ExpireMessage
<1>2. CASE \E g \in Threads : Step(g)
  <2>1. faults' = faults \/ SpendFault("db")
    BY <1>2 DEF Step, Receive, RejectMalformed, Insert, MarkProcessed, MarkRetrying,
                Retry, NackOnShutdown, MarkFailed, AckMessage, ExitLoop,
                UpdateIgnoringErrors, DatabaseSucceeds, DatabaseFails
  <2>2. process' = process
    BY <1>2 DEF Step, Receive, RejectMalformed, Insert, MarkProcessed, MarkRetrying,
                Retry, NackOnShutdown, MarkFailed, AckMessage, ExitLoop,
                AttemptFails, AttemptGoesOn
  <2> QED
    BY <2>1, <2>2, CallFacts
<1>3. CASE \E w \in Workers : StartWorker(w) \/ DeliverTo(w) \/ StopConsuming(w) \/ Exit(w)
  BY <1>0, <1>3 DEF StartWorker, DeliverTo, StopConsuming, Exit
<1>4. CASE \E w \in Workers : Signal(w)
  BY <1>0, <1>4, FaultFacts DEF Signal, Faults
<1>5. CASE \E w \in Workers : Crash(w)
  BY <1>0, <1>5, FaultFacts DEF Crash, Faults
<1>6. CASE \E w \in Workers : Disconnect(w)
  BY <1>0, <1>6, FaultFacts DEF Disconnect, Faults
<1> QED
  BY <1>1, <1>2, <1>3, <1>4, <1>5, <1>6 DEF Next

LEMMA StepComesBack ==
  ASSUME TypeOK, NEW g \in Threads, Step(g),
         \A w \in Workers : process[w] # "stopping",
         NEW m \in Messages
  PROVE  Calm(m) \/ Received(m)
<1>0. /\ LoopTypeOK /\ BrokerTypeOK /\ faults \in [Faults -> Nat]
      /\ buffer \in [Workers -> SUBSET Messages]
      /\ Owner(g) \in Workers
  BY OwnerType DEF TypeOK
<1>1. ASSUME Losses' = Losses, buffer' = buffer, place' = place,
             \A h \in Threads : pc'[h] = pc[h] \/ pc'[h] \notin Busy \/ pc[h] # "idle"
      PROVE  Calm(m)
  <2>1. Receivers(m) = {}
    BY <1>1 DEF Receivers, Busy
  <2>2. Losses' >= Losses
    BY <1>0, <1>1 DEF Losses, Faults
  <2> QED
    BY <1>1, <2>1, <2>2 DEF Calm, Holders
<1>2. CASE Receive(g)
  <2>1. PICK k \in buffer[Owner(g)] :
          /\ buffer' = [buffer EXCEPT ![Owner(g)] = @ \ {k}]
          /\ msg' = [msg EXCEPT ![g] = k]
          /\ Goto(g, IF k \in Malformed THEN "reject" ELSE "insert")
    BY <1>2 DEF Receive
  <2>2. /\ place' = place /\ faults' = faults
        /\ k \in Messages /\ pc[g] = "idle"
    BY <1>0, <1>2, <2>1 DEF Receive, brokerVars
  <2>3. \A h \in Threads : h # g => pc'[h] = pc[h]
    BY <1>0, <2>1 DEF Goto, LoopTypeOK
  <2>4. msg'[g] = k
    BY <1>0, <2>1 DEF LoopTypeOK
  <2>5. Receivers(m) \subseteq {g} /\ (m # k => Receivers(m) = {})
    BY <2>3, <2>4 DEF Receivers, Busy
  <2>6. Losses' = Losses /\ Losses \in Nat
    BY <1>0, <2>2 DEF Losses, Faults
  <2>7. CASE m = k
    <3>1. Owner(g) \in Holders(m) /\ Holders(m)' \subseteq Holders(m) \ {Owner(g)}
      BY <1>0, <2>1, <2>7 DEF Holders
    <3> QED
      BY <2>2, <2>5, <2>6, <3>1 DEF Received
  <2>8. CASE m # k
    <3>1. Holders(m)' \subseteq Holders(m)
      BY <1>0, <2>1 DEF Holders
    <3> QED
      BY <2>2, <2>5, <2>6, <2>8, <3>1 DEF Calm
  <2> QED
    BY <2>7, <2>8
<1>3. CASE RejectMalformed(g) \/ AckMessage(g)
  <2>1. /\ Return(g) /\ faults' = faults /\ buffer' = buffer
        /\ Settle(Owner(g), msg[g], "acked") \/ Settle(Owner(g), msg[g], DeadLetter)
    BY <1>3 DEF RejectMalformed, AckMessage, Ack, NackDiscard
  <2>2. PICK where \in {"acked", "dead", "dropped"} : Settle(Owner(g), msg[g], where)
    BY <2>1 DEF DeadLetter
  <2>3. place'[m] \in Waits => place[m] \in Waits
    BY <1>0, <2>2 DEF Settle, BrokerTypeOK, Waits
  <2>4. Receivers(m) = {}
    BY <1>0, <2>1, ReturnFacts DEF Receivers, Busy
  <2>5. Losses' >= Losses
    BY <1>0, <2>1 DEF Losses, Faults
  <2> QED
    BY <2>1, <2>3, <2>4, <2>5 DEF Calm, Holders
<1>4. CASE Insert(g) \/ MarkProcessed(g) \/ MarkRetrying(g) \/ MarkFailed(g)
  <2>1. UNCHANGED faults \/ SpendFault("db")
    BY <1>4 DEF Insert, MarkProcessed, MarkRetrying, MarkFailed,
                UpdateIgnoringErrors, DatabaseSucceeds, DatabaseFails
  <2>2. \E label \in Busy : Goto(g, label)
    BY <1>4 DEF Insert, MarkProcessed, MarkRetrying, MarkFailed, AttemptFails,
                AttemptGoesOn, Busy
  <2>3. buffer' = buffer /\ place' = place /\ pc[g] # "idle"
    BY <1>4 DEF Insert, MarkProcessed, MarkRetrying, MarkFailed, AttemptFails,
                AttemptGoesOn, brokerVars
  <2>4. \A h \in Threads : pc'[h] = pc[h] \/ pc[h] # "idle"
    BY <1>0, <2>2, <2>3 DEF Goto, LoopTypeOK
  <2> QED
    BY <1>1, <2>1, <2>3, <2>4, CallFacts
<1>5. CASE Retry(g)
  <2>1. /\ faults' = faults /\ buffer' = buffer /\ place' = place
        /\ pc[g] # "idle" /\ Goto(g, "insert")
    BY <1>5 DEF Retry, brokerVars
  <2>2. \A h \in Threads : pc'[h] = pc[h] \/ pc[h] # "idle"
    BY <1>0, <2>1 DEF Goto, LoopTypeOK
  <2> QED
    BY <1>1, <2>1, <2>2, CallFacts
<1>6. CASE NackOnShutdown(g)
  BY <1>0, <1>6 DEF NackOnShutdown
<1>7. CASE ExitLoop(g)
  <2>1. /\ faults' = faults /\ place' = place /\ Goto(g, "exited")
        /\ buffer' = buffer \/ buffer' = [buffer EXCEPT ![Owner(g)] = {}]
    BY <1>7 DEF ExitLoop, brokerVars
  <2>2. Receivers(m) = {}
    BY <1>0, <2>1, GotoFacts DEF Receivers, Busy
  <2>3. Holders(m)' \subseteq Holders(m)
    BY <1>0, <2>1 DEF Holders
  <2>4. Losses' >= Losses
    BY <1>0, <2>1 DEF Losses, Faults
  <2> QED
    BY <2>1, <2>2, <2>3, <2>4 DEF Calm
<1> QED
  BY <1>2, <1>3, <1>4, <1>5, <1>6, <1>7 DEF Step

LEMMA ComesBack ==
  ASSUME TypeOK, Next, \A w \in Workers : process[w] # "stopping",
         faults["signal"] = 0, faults'["signal"] = 0, NEW m \in Messages
  PROVE  Calm(m) \/ Arrives(m) \/ Received(m) \/ Returned(m)
<1>0. /\ LoopTypeOK /\ BrokerTypeOK /\ faults \in [Faults -> Nat]
      /\ buffer \in [Workers -> SUBSET Messages]
      /\ Losses \in Nat
  BY DEF TypeOK, Losses, Faults
<1>1. ASSUME UNCHANGED threadVars
      PROVE  Receivers(m) = {}
  BY <1>1 DEF threadVars, Receivers, Busy
<1>2. ASSUME NEW k \in Messages, Publish(k) \/ ExpireMessage(k)
      PROVE  Calm(m)
  <2>1. /\ faults' = faults /\ buffer' = buffer
        /\ UNCHANGED threadVars
        /\ Enqueue(k) \/ Expire(k)
    BY <1>2 DEF Publish, ExpireMessage
  <2>2. place'[m] \in Waits => place[m] \in Waits
    BY <1>0, <2>1 DEF Enqueue, Expire, DeadLetter, BrokerTypeOK, Waits
  <2>3. Losses' >= Losses
    BY <1>0, <2>1 DEF Losses
  <2> QED
    BY <1>1, <2>1, <2>2, <2>3 DEF Calm, Holders
<1>3. ASSUME NEW g \in Threads, Step(g)
      PROVE  Calm(m) \/ Received(m)
  BY <1>3, StepComesBack
<1>4. ASSUME NEW w \in Workers, StartWorker(w)
      PROVE  Calm(m)
  <2>1. faults' = faults /\ place' = place /\ ResetLoops(w, "idle")
    BY <1>4 DEF StartWorker, OpenChannel
  <2>2. /\ buffer'[w] = {} /\ \A v \in Workers : v # w => buffer'[v] = buffer[v]
        /\ \A g \in Threads : pc'[g] = pc[g] \/ pc'[g] = "idle"
    BY <1>0, <2>1, ResetFacts
  <2>3. Receivers(m) = {}
    BY <2>2 DEF Receivers, Busy
  <2>4. Holders(m)' \subseteq Holders(m)
    BY <2>2 DEF Holders
  <2>5. Losses' >= Losses
    BY <1>0, <2>1 DEF Losses
  <2> QED
    BY <2>1, <2>3, <2>4, <2>5 DEF Calm
<1>5. ASSUME NEW w \in Workers, DeliverTo(w)
      PROVE  Calm(m) \/ Arrives(m)
  <2>1. PICK k \in Messages :
          Deliver(w, k) /\ buffer' = [buffer EXCEPT ![w] = @ \cup {k}]
    BY <1>5 DEF DeliverTo
  <2>2. faults' = faults /\ UNCHANGED threadVars
    BY <1>5 DEF DeliverTo
  <2>3. /\ place[k] = "ready" /\ place' = [place EXCEPT ![k] = "unacked"]
    BY <2>1 DEF Deliver
  <2>4. Losses' = Losses /\ Losses' >= Losses
    BY <1>0, <2>2 DEF Losses
  <2>5. CASE m = k
    <3>1. Holders(m)' \subseteq Holders(m) \cup {w}
      BY <1>0, <2>1 DEF Holders
    <3>2. place[m] \in Waits /\ place'[m] \notin Waits
      BY <1>0, <2>3, <2>5 DEF BrokerTypeOK, Waits
    <3> QED
      BY <1>1, <2>2, <2>4, <3>1, <3>2 DEF Arrives
  <2>6. CASE m # k
    <3>1. Holders(m)' \subseteq Holders(m)
      BY <1>0, <2>1, <2>6 DEF Holders
    <3>2. place'[m] = place[m]
      BY <1>0, <2>3, <2>6 DEF BrokerTypeOK
    <3> QED
      BY <1>1, <2>2, <2>4, <3>1, <3>2 DEF Calm
  <2> QED
    BY <2>5, <2>6
<1>6. ASSUME NEW w \in Workers,
             StopConsuming(w) \/ Exit(w) \/ Signal(w)
      PROVE  FALSE
  <2>1. CASE Signal(w)
    BY <2>1, FaultFacts DEF Signal, Faults, TypeOK
  <2>2. CASE StopConsuming(w) \/ Exit(w)
    BY <2>2 DEF StopConsuming, Exit
  <2> QED
    BY <1>6, <2>1, <2>2
<1>7. ASSUME NEW w \in Workers, Crash(w)
      PROVE  Returned(m)
  <2>1. SpendFault("crash") /\ ResetLoops(w, "exited")
    BY <1>7 DEF Crash
  <2>2. /\ buffer'[w] = {} /\ \A v \in Workers : v # w => buffer'[v] = buffer[v]
        /\ \A g \in Threads : pc'[g] = pc[g] \/ pc'[g] = "exited"
    BY <1>0, <2>1, ResetFacts
  <2>3. Receivers(m) = {}
    BY <2>2 DEF Receivers, Busy
  <2>4. Holders(m)' \subseteq Holders(m)
    BY <2>2 DEF Holders
  <2> QED
    BY <2>1, <2>3, <2>4, FaultFacts DEF Returned, Faults
<1>8. ASSUME NEW w \in Workers, Disconnect(w)
      PROVE  Returned(m)
  <2>1. SpendFault("disconnect") /\ UNCHANGED threadVars /\ buffer' = buffer
    BY <1>8 DEF Disconnect
  <2> QED
    BY <1>1, <2>1, FaultFacts DEF Returned, Holders, Faults
<1>9. CASE \E w \in Workers : StartWorker(w) \/ DeliverTo(w)
  BY <1>4, <1>5, <1>9
<1>10. CASE \E w \in Workers : Crash(w) \/ Disconnect(w)
  BY <1>7, <1>8, <1>10
<1> QED
  BY <1>2, <1>3, <1>6, <1>9, <1>10 DEF Next

\* The messages processes hold can be counted.
LEMMA HoldersCount ==
  ASSUME NEW m \in Messages
  PROVE  /\ Cardinality(Holders(m)) \in Nat /\ Cardinality(Holders(m)') \in Nat
         /\ Holders(m)' \subseteq Holders(m) =>
                Cardinality(Holders(m)') <= Cardinality(Holders(m))
         /\ \A w : Holders(m)' \subseteq Holders(m) \cup {w} =>
                Cardinality(Holders(m)') <= Cardinality(Holders(m)) + 1
         /\ \A w \in Holders(m) : Holders(m)' \subseteq Holders(m) \ {w} =>
                Cardinality(Holders(m)') <= Cardinality(Holders(m)) - 1
<1>1. /\ IsFiniteSet(Holders(m)) /\ Cardinality(Holders(m)) \in Nat
      /\ IsFiniteSet(Holders(m)') /\ Cardinality(Holders(m)') \in Nat
  <2>1. Holders(m) \subseteq Workers /\ Holders(m)' \subseteq Workers
    BY DEF Holders
  <2>2. IsFiniteSet(Holders(m)) /\ IsFiniteSet(Holders(m)')
    BY <2>1, HistoryAssumption, FS_Subset
  <2> QED
    BY <2>2, FS_CardinalityType
<1>2. Holders(m)' \subseteq Holders(m) =>
          Cardinality(Holders(m)') <= Cardinality(Holders(m))
  BY <1>1, FS_Subset
<1>3. ASSUME NEW w, Holders(m)' \subseteq Holders(m) \cup {w}
      PROVE  Cardinality(Holders(m)') <= Cardinality(Holders(m)) + 1
  <2>1. /\ IsFiniteSet(Holders(m) \cup {w})
        /\ Cardinality(Holders(m) \cup {w})
             = IF w \in Holders(m) THEN Cardinality(Holders(m))
                                   ELSE Cardinality(Holders(m)) + 1
    BY <1>1, FS_AddElement
  <2>2. Cardinality(Holders(m)') <= Cardinality(Holders(m) \cup {w})
    BY <1>3, <2>1, FS_Subset
  <2> QED
    BY <1>1, <2>1, <2>2
<1>4. ASSUME NEW w \in Holders(m), Holders(m)' \subseteq Holders(m) \ {w}
      PROVE  Cardinality(Holders(m)') <= Cardinality(Holders(m)) - 1
  <2>1. /\ IsFiniteSet(Holders(m) \ {w})
        /\ Cardinality(Holders(m) \ {w}) = Cardinality(Holders(m)) - 1
    BY <1>1, FS_RemoveElement
  <2>2. Cardinality(Holders(m)') <= Cardinality(Holders(m) \ {w})
    BY <1>4, <2>1, FS_Subset
  <2> QED
    BY <2>1, <2>2
<1> QED
  BY <1>1, <1>2, <1>3, <1>4

LEMMA RedeliveryStep ==
  ASSUME TypeOK, TypeOK', HistoryTypeOK, RedeliveryInv, Next, Counting
  PROVE  RedeliveryInv'
<1> SUFFICES ASSUME faults'["signal"] = 0, NEW m \in Messages
             PROVE  deliveries'[m] + Cardinality(Holders(m)') + Waiting(m)'
                        <= 1 + Losses'
  BY NobodyStops DEF RedeliveryInv
<1> DEFINE H == Cardinality(Holders(m))
           H1 == Cardinality(Holders(m)')
           R == Cardinality(Receivers(m))
           W == Waiting(m)
           W1 == Waiting(m)'
<1>1. /\ faults["signal"] = 0
      /\ Calm(m) \/ Arrives(m) \/ Received(m) \/ Returned(m)
  BY NobodyStops, ComesBack DEF RedeliveryInv
<1>2. /\ deliveries'[m] = deliveries[m] + R /\ deliveries[m] \in Nat
      /\ Losses \in Nat /\ Losses' \in Nat /\ H \in Nat /\ H1 \in Nat
  BY HoldersCount DEF Counting, HistoryTypeOK, TypeOK, Losses, Faults
<1>3. deliveries[m] + H + W <= 1 + Losses
  BY <1>1 DEF RedeliveryInv
<1>4. /\ Holders(m)' \subseteq Holders(m) => H1 <= H
      /\ \A w : Holders(m)' \subseteq Holders(m) \cup {w} => H1 <= H + 1
      /\ \A w \in Holders(m) : Holders(m)' \subseteq Holders(m) \ {w} => H1 <= H - 1
  BY HoldersCount
<1>5. /\ R \in Nat
      /\ Receivers(m) = {} => R = 0
      /\ \A g \in Threads : Receivers(m) \subseteq {g} => R <= 1
  <2>1. IsFiniteSet(Receivers(m)) /\ R \in Nat
    BY ThreadSets DEF Receivers
  <2>2. ASSUME NEW g \in Threads, Receivers(m) \subseteq {g} PROVE R <= 1
    <3>1. IsFiniteSet({g}) /\ Cardinality({g}) = 1
      BY FS_Singleton
    <3> QED
      BY <2>2, <3>1, FS_Subset
  <2> QED
    BY <2>1, <2>2, FS_EmptySet
<1>6. /\ W \in {0, 1} /\ W1 \in {0, 1}
      /\ (place'[m] \in Waits => place[m] \in Waits) => W1 <= W
      /\ place[m] \in Waits => W = 1
      /\ place'[m] \notin Waits => W1 = 0
  BY DEF Waiting
<1> HIDE DEF H, H1, R, W, W1
<1>7. CASE Calm(m)
  BY <1>1, <1>2, <1>3, <1>4, <1>5, <1>6, <1>7 DEF Calm, H1, W1
<1>8. CASE Arrives(m)
  <2>1. R = 0 /\ H1 <= H + 1 /\ W = 1 /\ W1 = 0 /\ Losses' = Losses
    BY <1>4, <1>5, <1>6, <1>8 DEF Arrives
  <2> QED
    BY <1>2, <1>3, <2>1 DEF H1, W1
<1>9. CASE Received(m)
  BY <1>1, <1>2, <1>3, <1>4, <1>5, <1>6, <1>9 DEF Received, H1, W1
<1>10. CASE Returned(m)
  BY <1>1, <1>2, <1>3, <1>4, <1>5, <1>6, <1>10 DEF Returned, H1, W1
<1> QED
  BY <1>1, <1>7, <1>8, <1>9, <1>10
-----------------------------------------------------------------------------
LEMMA HistoryInitInv == HistoryInit => HistoryInv
<1> SUFFICES ASSUME HistoryInit PROVE HistoryInv
  OBVIOUS
<1>1. IndInv
  BY InitInv DEF HistoryInit
<1>2. HistoryTypeOK
  BY DEF HistoryInit, HistoryTypeOK
<1>3. FailuresInv
  BY DEF HistoryInit, Init, FailuresInv, Busy
<1>4. DuplicatesInv
  <2>1. docs = << >> /\ pc = [g \in Threads |-> "exited"]
    BY DEF HistoryInit, Init, StoreInit
  <2>2. ASSUME NEW m \in Messages
        PROVE  Cardinality(Docs(m)) = 0 /\ Cardinality(Free(m)) = 0
    <3>1. DOMAIN docs = {}
      BY <2>1
    <3>2. Docs(m) = {}
      BY <3>1 DEF Docs
    <3>3. Free(m) = {}
      BY <2>1 DEF Free
    <3>4. QED
      BY <3>2, <3>3, FS_EmptySet
  <2>3. \A m \in Messages : deliveries[m] = 0 /\ failures[m] = 0
    BY DEF HistoryInit
  <2>4. ASSUME NEW m \in Messages
        PROVE  Cardinality(Docs(m)) + Cardinality(Free(m)) <= deliveries[m] + failures[m]
    BY <2>2, <2>3
  <2>5. QED
    BY <2>4 DEF DuplicatesInv
<1>5. QED
  BY <1>1, <1>2, <1>3, <1>4 DEF HistoryInv

LEMMA HistoryNextInv == HistoryInv /\ [HistoryNext]_historyVars => HistoryInv'
<1>1. ASSUME HistoryInv, HistoryNext PROVE HistoryInv'
  <2>1. [Next]_vars /\ Counting
    BY <1>1 DEF HistoryNext, Counting
  <2>2. IndInv'
    BY <1>1, <2>1, NextInv DEF HistoryInv
  <2>3. TypeOK /\ LoopInv /\ StoreTypeOK'
    BY <1>1, <2>2 DEF HistoryInv, IndInv, TypeOK
  <2>4. Quiet \/ OneGoesOn
    BY <2>1, <2>3, Shape
  <2>5. HistoryTypeOK'
    BY <1>1, <2>1, CountFacts DEF HistoryInv
  <2>6. FailuresInv'
    BY <1>1, <2>1, <2>3, <2>4, FailuresStep DEF HistoryInv
  <2>7. DuplicatesInv'
    BY <1>1, <2>1, <2>3, <2>4, DuplicatesStep DEF HistoryInv
  <2>8. QED
    BY <2>2, <2>5, <2>6, <2>7 DEF HistoryInv
<1>2. ASSUME HistoryInv, UNCHANGED historyVars PROVE HistoryInv'
  <2>1. UNCHANGED vars /\ deliveries' = deliveries /\ failures' = failures
    BY <1>2 DEF historyVars
  <2>2. IndInv'
    BY <1>2, <2>1, NextInv DEF HistoryInv
  <2>3. /\ docs' = docs /\ pc' = pc /\ msg' = msg /\ attempt' = attempt
        /\ exhausted' = exhausted
    BY <2>1 DEF vars, threadVars
  <2>4. HistoryTypeOK' /\ FailuresInv' /\ DuplicatesInv'
    BY <1>2, <2>1, <2>3
       DEF HistoryInv, HistoryTypeOK, FailuresInv, DuplicatesInv, Docs, Free
  <2>5. QED
    BY <2>2, <2>4 DEF HistoryInv
<1>3. QED
  BY <1>1, <1>2

\* Every reachable state satisfies the invariant of the counters.
THEOREM HistoryInvariance == HistorySpec => []HistoryInv
  BY HistoryInitInv, HistoryNextInv, PTL DEF HistorySpec

\* An event has no more documents than it was received and its attempts failed:
\* InsertEvent in processEvent is reached once per attempt, and an attempt
\* follows another only if that one failed.
THEOREM Duplication == HistorySpec => []DuplicateBound
<1>1. HistoryInv => DuplicateBound
  <2> SUFFICES ASSUME HistoryInv, NEW m \in Messages
               PROVE  Cardinality(Docs(m)) <= deliveries[m] + failures[m]
    BY DEF DuplicateBound, Docs
  <2>1. Cardinality(Docs(m)) \in Nat
    BY DocsFinite DEF HistoryInv, IndInv, TypeOK
  <2>2. Cardinality(Free(m)) \in Nat
    BY FreeCount
  <2>3. /\ deliveries[m] \in Nat /\ failures[m] \in Nat
        /\ Cardinality(Docs(m)) + Cardinality(Free(m)) <= deliveries[m] + failures[m]
    BY DEF HistoryInv, HistoryTypeOK, DuplicatesInv
  <2>4. QED
    BY <2>1, <2>2, <2>3
<1>2. QED
  BY <1>1, HistoryInvariance, PTL

\* An event that was acknowledged and lost cost MaxRetries failed attempts: no
\* crash, redelivery or shutdown makes processDelivery give up sooner.
THEOREM Loss == HistorySpec => []LossBound
<1>1. HistoryInv => LossBound
  BY DEF HistoryInv, IndInv, AckedAccountedFor, FailuresInv, LossBound
<1>2. QED
  BY <1>1, HistoryInvariance, PTL

\* The counters' own invariants and the redeliveries' together.
RedeliveredInv == HistoryInv /\ RedeliveryInv

LEMMA RedeliveredInitInv == HistoryInit => RedeliveredInv
<1> SUFFICES ASSUME HistoryInit PROVE RedeliveryInv
  BY HistoryInitInv DEF RedeliveredInv
<1>1. /\ \A w \in Workers : process[w] # "stopping"
      /\ Losses = 0
  BY DEF HistoryInit, Init, Losses, Faults
<1>2. ASSUME NEW m \in Messages
      PROVE  deliveries[m] = 0 /\ Cardinality(Holders(m)) = 0 /\ Waiting(m) = 1
  <2>1. Holders(m) = {}
    BY DEF HistoryInit, Init, Holders
  <2>2. deliveries[m] = 0 /\ Waiting(m) = 1
    BY DEF HistoryInit, Init, BrokerInit, Waiting, Waits
  <2> QED
    BY <2>1, <2>2, FS_EmptySet
<1> QED
  BY <1>1, <1>2 DEF RedeliveryInv

LEMMA RedeliveredNextInv ==
    RedeliveredInv /\ [HistoryNext]_historyVars => RedeliveredInv'
<1>1. ASSUME RedeliveredInv, HistoryNext PROVE RedeliveryInv'
  BY <1>1, RedeliveryStep, HistoryNextInv
     DEF RedeliveredInv, HistoryInv, IndInv, HistoryNext, Counting
<1>2. ASSUME RedeliveredInv, UNCHANGED historyVars PROVE RedeliveryInv'
  BY <1>2 DEF RedeliveredInv, RedeliveryInv, historyVars, vars, brokerVars,
              Holders, Waiting, Losses
<1> QED
  BY <1>1, <1>2, HistoryNextInv DEF RedeliveredInv

\* As long as nobody stops a worker, a message is delivered once, and once more
\* for each crash and each lost connection: processDelivery never hands back what
\* it did not lose the context of.
THEOREM Redelivery == HistorySpec => []RedeliveryBound
<1>1. RedeliveredInv => RedeliveryBound
  <2> SUFFICES ASSUME RedeliveredInv, NEW m \in Messages, faults["signal"] = 0
               PROVE  deliveries[m] <= 1 + faults["crash"] + faults["disconnect"]
    BY DEF RedeliveryBound
  <2>1. deliveries[m] + Cardinality(Holders(m)) + Waiting(m) <= 1 + Losses
    BY DEF RedeliveredInv, RedeliveryInv
  <2>2. /\ deliveries[m] \in Nat
        /\ faults["crash"] \in Nat /\ faults["disconnect"] \in Nat
        /\ Cardinality(Holders(m)) \in Nat /\ Waiting(m) \in {0, 1}
    BY HoldersCount DEF RedeliveredInv, HistoryInv, HistoryTypeOK, IndInv, TypeOK,
                        Faults, Waiting
  <2> QED
    BY <2>1, <2>2 DEF Losses
<1> QED
  BY <1>1, RedeliveredInitInv, RedeliveredNextInv, PTL DEF HistorySpec
=============================================================================

------------------------------- MODULE Worker -------------------------------
(***************************************************************************)
(* The worker processes (cmd/worker/main.go, internal/worker/processor.go) *)
(* that take events from the queue and store them.  Each process runs      *)
(* NumLoops goroutines of consumeLoop over one AMQP channel; "restart:     *)
(* unless-stopped" in docker-compose.prod.yml brings an exited process     *)
(* back.  Every call to the database or to the broker is one step, so the  *)
(* steps of all goroutines, the broker and the environment interleave      *)
(* between any two calls.                                                  *)
(***************************************************************************)
EXTENDS EventStore, Broker, Integers

CONSTANTS
    Concurrency, \* cfg.Worker.Concurrency
    MaxRetries,  \* Worker.maxRetries
    NoMessage,   \* what a goroutine holds between deliveries
    MaxFaults    \* how often each kind of fault may happen in a behaviour

Faults == {"db", "crash", "disconnect", "signal"}

NumLoops == IF Concurrency < 1 THEN 1 ELSE Concurrency

ASSUME WorkerAssumption ==
    /\ Concurrency \in Int
    /\ MaxRetries \in Nat \ {0}
    /\ NoMessage \notin Messages
    /\ MaxFaults \in [Faults -> Nat]
    /\ Prefetch = 2 * NumLoops

Threads == Workers \X (1..NumLoops)
Owner(g) == g[1]

VARIABLES
    process,     \* "stopping" once main has cancelled the context
    buffer,      \* deliveries the client library holds for consumeLoop
    pc,          \* where each goroutine is
    msg,         \* the delivery it is processing
    attempt,     \* its loop counter
    exhausted,   \* history: messages that used up their attempts
    faults       \* how many faults of each kind have happened

threadVars == <<pc, msg, attempt>>
vars == <<docs, brokerVars, process, buffer, threadVars, exhausted, faults>>

Busy == {"reject", "insert", "update", "mark_retrying", "backoff",
         "mark_failed", "ack"}

LoopTypeOK ==
    /\ pc \in [Threads -> Busy \cup {"idle", "exited"}]
    /\ msg \in [Threads -> Messages \cup {NoMessage}]
    /\ attempt \in [Threads -> 0..MaxRetries]

TypeOK ==
    /\ StoreTypeOK
    /\ BrokerTypeOK
    /\ LoopTypeOK
    /\ process \in [Workers -> {"down", "running", "stopping"}]
    /\ buffer \in [Workers -> SUBSET Messages]
    /\ exhausted \subseteq Messages
    /\ faults \in [Faults -> Nat]

Init ==
    /\ StoreInit
    /\ BrokerInit
    /\ process = [w \in Workers |-> "down"]
    /\ buffer = [w \in Workers |-> {}]
    /\ pc = [g \in Threads |-> "exited"]
    /\ msg = [g \in Threads |-> NoMessage]
    /\ attempt = [g \in Threads |-> 0]
    /\ exhausted = {}
    /\ faults = [f \in Faults |-> 0]
-----------------------------------------------------------------------------
SpendFault(f) ==
    /\ faults[f] < MaxFaults[f]
    /\ faults' = [faults EXCEPT ![f] = @ + 1]

\* A database call is given the context that main cancels.  One that completes
\* while the cancellation arrives is the same as one that completed just before.
DatabaseSucceeds(w, effect) ==
    /\ process[w] = "running"
    /\ effect
    /\ UNCHANGED faults

\* Under a cancelled context the driver gives up before it writes.  Any other
\* error is a fault, and its effect may have taken place before the answer was
\* lost.
DatabaseFails(w, effect) ==
    \/ /\ process[w] = "stopping"
       /\ UNCHANGED <<docs, faults>>
    \/ /\ effect \/ UNCHANGED docs
       /\ SpendFault("db")

Goto(g, label) == pc' = [pc EXCEPT ![g] = label]

\* processDelivery returns to consumeLoop.
Return(g) ==
    /\ Goto(g, "idle")
    /\ msg' = [msg EXCEPT ![g] = NoMessage]
    /\ attempt' = [attempt EXCEPT ![g] = 0]

\* All goroutines of w take the state label and hold nothing.
ResetLoops(w, label) ==
    /\ pc' = [g \in Threads |-> IF Owner(g) = w THEN label ELSE pc[g]]
    /\ msg' = [g \in Threads |-> IF Owner(g) = w THEN NoMessage ELSE msg[g]]
    /\ attempt' = [g \in Threads |-> IF Owner(g) = w THEN 0 ELSE attempt[g]]
    /\ buffer' = [buffer EXCEPT ![w] = {}]
-----------------------------------------------------------------------------
\* The environment publishes a message.
Publish(m) ==
    /\ Enqueue(m)
    /\ UNCHANGED <<docs, process, buffer, threadVars, exhausted, faults>>

\* main up to and including Worker.Start.  A start that fails exits with
\* Fatalf and leaves the process down.
StartWorker(w) ==
    /\ process[w] = "down"
    /\ process' = [process EXCEPT ![w] = "running"]
    /\ OpenChannel(w)
    /\ ResetLoops(w, "idle")
    /\ UNCHANGED <<docs, exhausted, faults>>

\* The broker pushes a message over the consumer's channel.
DeliverTo(w) ==
    \E m \in Messages :
        /\ Deliver(w, m)
        /\ buffer' = [buffer EXCEPT ![w] = @ \cup {m}]
        /\ UNCHANGED <<docs, process, threadVars, exhausted, faults>>

\* Variant: acknowledges before processing.
ReceiveAckingFirst(g) ==
    /\ pc[g] = "idle"
    /\ \E m \in buffer[Owner(g)] :
         /\ buffer' = [buffer EXCEPT ![Owner(g)] = @ \ {m}]
         /\ msg' = [msg EXCEPT ![g] = m]
         /\ attempt' = [attempt EXCEPT ![g] = 1]
         /\ Goto(g, "insert")
         /\ Ack(Owner(g), m)
    /\ UNCHANGED <<docs, process, exhausted, faults>>

\* consumeLoop takes a delivery and processDelivery decodes it.  The select
\* may choose it even when the context is cancelled.
Receive(g) ==
    /\ pc[g] = "idle"
    /\ \E m \in buffer[Owner(g)] :
         /\ buffer' = [buffer EXCEPT ![Owner(g)] = @ \ {m}]
         /\ msg' = [msg EXCEPT ![g] = m]
         /\ attempt' = [attempt EXCEPT ![g] = 1]
         /\ Goto(g, IF m \in Malformed THEN "reject" ELSE "insert")
    /\ UNCHANGED <<docs, brokerVars, process, exhausted, faults>>

\* Variant: acknowledges what it cannot decode.
RejectMalformedByAck(g) ==
    /\ pc[g] = "reject"
    /\ Ack(Owner(g), msg[g])
    /\ Return(g)
    /\ UNCHANGED <<docs, process, buffer, exhausted, faults>>

RejectMalformed(g) ==
    /\ pc[g] = "reject"
    /\ NackDiscard(Owner(g), msg[g])
    /\ Return(g)
    /\ UNCHANGED <<docs, process, buffer, exhausted, faults>>

\* Variant: one attempt too few.
AttemptFailsEarly(g) ==
    /\ IF attempt[g] + 1 < MaxRetries
       THEN Goto(g, "mark_retrying") /\ UNCHANGED exhausted
       ELSE Goto(g, "mark_failed") /\ exhausted' = exhausted \cup {msg[g]}
    /\ UNCHANGED <<brokerVars, process, buffer, msg, attempt>>

\* processEvent returned an error.
AttemptFails(g) ==
    /\ IF attempt[g] < MaxRetries
       THEN Goto(g, "mark_retrying") /\ UNCHANGED exhausted
       ELSE Goto(g, "mark_failed") /\ exhausted' = exhausted \cup {msg[g]}
    /\ UNCHANGED <<brokerVars, process, buffer, msg, attempt>>

AttemptGoesOn(g, label) ==
    /\ Goto(g, label)
    /\ UNCHANGED <<brokerVars, process, buffer, msg, attempt, exhausted>>

\* Variant: repeats a failed insert by itself.
InsertRepeating(g) ==
    LET effect == InsertEvent(msg[g], attempt[g] - 1) IN
    /\ pc[g] = "insert"
    /\ \/ DatabaseSucceeds(Owner(g), effect) /\ AttemptGoesOn(g, "update")
       \/ DatabaseFails(Owner(g), effect) /\ AttemptGoesOn(g, "insert")

\* event.RetryCount is the number of the last attempt that failed.
Insert(g) ==
    LET effect == InsertEvent(msg[g], attempt[g] - 1) IN
    /\ pc[g] = "insert"
    /\ \/ DatabaseSucceeds(Owner(g), effect) /\ AttemptGoesOn(g, "update")
       \/ DatabaseFails(Owner(g), effect) /\ AttemptFails(g)

\* Variant: ignores the error of the second call of processEvent.
MarkProcessedIgnoringErrors(g) ==
    LET effect == UpdateEventStatus(msg[g], "processed", attempt[g] - 1) IN
    /\ pc[g] = "update"
    /\ DatabaseSucceeds(Owner(g), effect) \/ DatabaseFails(Owner(g), effect)
    /\ AttemptGoesOn(g, "ack")

MarkProcessed(g) ==
    LET effect == UpdateEventStatus(msg[g], "processed", attempt[g] - 1) IN
    /\ pc[g] = "update"
    /\ \/ DatabaseSucceeds(Owner(g), effect) /\ AttemptGoesOn(g, "ack")
       \/ DatabaseFails(Owner(g), effect) /\ AttemptFails(g)

\* An update whose error is logged and otherwise ignored.
UpdateIgnoringErrors(g, status) ==
    LET effect == UpdateEventStatus(msg[g], status, attempt[g]) IN
    DatabaseSucceeds(Owner(g), effect) \/ DatabaseFails(Owner(g), effect)

\* Variant: says "failed" before the last attempt.
MarkRetryingAsFailed(g) ==
    /\ pc[g] = "mark_retrying"
    /\ UpdateIgnoringErrors(g, "failed")
    /\ AttemptGoesOn(g, "backoff")

MarkRetrying(g) ==
    /\ pc[g] = "mark_retrying"
    /\ UpdateIgnoringErrors(g, "retrying")
    /\ AttemptGoesOn(g, "backoff")

\* Variant: sleeps without watching the context.
RetryRegardless(g) ==
    /\ pc[g] = "backoff"
    /\ attempt' = [attempt EXCEPT ![g] = @ + 1]
    /\ Goto(g, "insert")
    /\ UNCHANGED <<docs, brokerVars, process, buffer, msg, exhausted, faults>>

\* The backoff timer fires.  When the cancellation races it, a timer that wins
\* is the same as one that fired just before.
Retry(g) ==
    /\ pc[g] = "backoff"
    /\ process[Owner(g)] = "running"
    /\ attempt' = [attempt EXCEPT ![g] = @ + 1]
    /\ Goto(g, "insert")
    /\ UNCHANGED <<docs, brokerVars, process, buffer, msg, exhausted, faults>>

NackOnShutdown(g) ==
    /\ pc[g] = "backoff"
    /\ process[Owner(g)] = "stopping"
    /\ NackRequeue(Owner(g), msg[g])
    /\ Return(g)
    /\ UNCHANGED <<docs, process, buffer, exhausted, faults>>

MarkFailed(g) ==
    /\ pc[g] = "mark_failed"
    /\ UpdateIgnoringErrors(g, "failed")
    /\ AttemptGoesOn(g, "ack")

\* Variants: hands back what it gave up; the return after Ack, or Ack itself, is
\* forgotten.
AckMessageGivingBack(g) ==
    /\ pc[g] = "ack"
    /\ IF msg[g] \in exhausted THEN NackRequeue(Owner(g), msg[g])
                              ELSE Ack(Owner(g), msg[g])
    /\ Return(g)
    /\ UNCHANGED <<docs, process, buffer, exhausted, faults>>
AckMessageGoingOn(g) ==
    /\ pc[g] = "ack"
    /\ Ack(Owner(g), msg[g])
    /\ Goto(g, "mark_failed")
    /\ UNCHANGED <<docs, process, buffer, msg, attempt, exhausted, faults>>
AckMessageForgotten(g) ==
    /\ pc[g] = "ack"
    /\ Return(g)
    /\ UNCHANGED <<docs, brokerVars, process, buffer, exhausted, faults>>

AckMessage(g) ==
    /\ pc[g] = "ack"
    /\ Ack(Owner(g), msg[g])
    /\ Return(g)
    /\ UNCHANGED <<docs, process, buffer, exhausted, faults>>

\* consumeLoop returns: the context is done, or the library closed the
\* delivery channel, dropping what it still held.
ExitLoop(g) ==
    /\ pc[g] = "idle"
    /\ \/ process[Owner(g)] = "stopping" /\ UNCHANGED buffer
       \/ /\ channel[Owner(g)] = "closed"
          /\ buffer' = [buffer EXCEPT ![Owner(g)] = {}]
    /\ Goto(g, "exited")
    /\ UNCHANGED <<docs, brokerVars, process, msg, attempt, exhausted, faults>>
-----------------------------------------------------------------------------
\* SIGINT or SIGTERM: main cancels the context and waits.
Signal(w) ==
    /\ process[w] = "running"
    /\ SpendFault("signal")
    /\ process' = [process EXCEPT ![w] = "stopping"]
    /\ UNCHANGED <<docs, brokerVars, buffer, threadVars, exhausted>>

\* Variant: nobody cancels the consumer.
StopConsumingForgotten(w) ==
    /\ process[w] = "stopping"
    /\ UNCHANGED vars

\* The goroutine Start leaves waiting on ctx.Done cancels the consumer.
StopConsuming(w) ==
    /\ process[w] = "stopping"
    /\ consuming[w]
    /\ CancelConsumer(w)
    /\ UNCHANGED <<docs, process, buffer, threadVars, exhausted, faults>>

\* Wait returns and main's deferred calls close the channel and connection.
Exit(w) ==
    /\ process[w] = "stopping"
    /\ \A g \in Threads : Owner(g) = w => pc[g] = "exited"
    /\ process' = [process EXCEPT ![w] = "down"]
    /\ CloseChannel(w)
    /\ ResetLoops(w, "exited")
    /\ UNCHANGED <<docs, exhausted, faults>>

Crash(w) ==
    /\ process[w] # "down"
    /\ SpendFault("crash")
    /\ process' = [process EXCEPT ![w] = "down"]
    /\ CloseChannel(w)
    /\ ResetLoops(w, "exited")
    /\ UNCHANGED <<docs, exhausted>>

\* The connection is lost.  The process goes on without noticing, and so do
\* goroutines in the middle of a delivery.
Disconnect(w) ==
    /\ channel[w] = "open"
    /\ SpendFault("disconnect")
    /\ CloseChannel(w)
    /\ UNCHANGED <<docs, process, buffer, threadVars, exhausted>>

ExpireMessage(m) ==
    /\ Expire(m)
    /\ UNCHANGED <<docs, process, buffer, threadVars, exhausted, faults>>
-----------------------------------------------------------------------------
\* What a goroutine does by itself.
Step(g) ==
    \/ Receive(g) \/ RejectMalformed(g)
    \/ Insert(g) \/ MarkProcessed(g)
    \/ MarkRetrying(g) \/ Retry(g) \/ NackOnShutdown(g)
    \/ MarkFailed(g) \/ AckMessage(g)
    \/ ExitLoop(g)

Next ==
    \/ \E m \in Messages : Publish(m) \/ ExpireMessage(m)
    \/ \E g \in Threads : Step(g)
    \/ \E w \in Workers :
         \/ StartWorker(w) \/ DeliverTo(w)
         \/ StopConsuming(w) \/ Exit(w)
         \/ Signal(w) \/ Crash(w) \/ Disconnect(w)

Spec == Init /\ [][Next]_vars

\* Goroutines are scheduled, the container runtime restarts what exited, the
\* broker delivers.  Nothing obliges a message to be published, a signal to
\* arrive or a fault to happen.
Fairness ==
    /\ \A g \in Threads : WF_vars(Step(g))
    /\ \A w \in Workers :
         /\ WF_vars(StartWorker(w))
         /\ WF_vars(DeliverTo(w))
         /\ WF_vars(StopConsuming(w))
         /\ WF_vars(Exit(w))

FairSpec == Spec /\ Fairness
-----------------------------------------------------------------------------
(* What must hold in every state. *)

\* While its channel is open, a goroutine that is processing a delivery holds
\* one the broker still waits for, and nobody else in the process holds it: the
\* single Ack or Nack that processDelivery ends with is never a second
\* settlement of the same delivery, which the broker would answer by closing
\* the channel.
SettleOnce ==
    \A g \in Threads :
        pc[g] \in Busy /\ channel[Owner(g)] = "open" =>
            /\ msg[g] \in unacked[Owner(g)] \ buffer[Owner(g)]
            /\ \A h \in Threads \ {g} :
                   Owner(h) = Owner(g) => msg[h] # msg[g]

\* A message acknowledged to the broker has its contents in a document, or some
\* delivery of it used up every attempt: nothing else may lose an event, whoever
\* crashed, was disconnected or was stopped on the way.
AckedAccountedFor ==
    \A m \in Messages : place[m] = "acked" => Stored(m) \/ m \in exhausted

\* A document says "failed" only if some delivery of an event with its webhook
\* id did use up every attempt, although updates go to any matching document.
FailedEarned ==
    \A i \in DOMAIN docs :
        docs[i].status = "failed" =>
            \E m \in exhausted : WebhookID[m] = WebhookID[docs[i].msg]

\* Undecodable messages, and only they (or expired ones), leave the queue by
\* way of the dead letter exchange, and they never reach the collection.
PoisonSeparated ==
    \A m \in Messages :
        /\ m \in Malformed => ~Stored(m) /\ place[m] # "acked"
        /\ place[m] \in {"dead", "dropped"} => m \in Malformed \/ HasTTL

\* Shutting down costs an event at most one attempt: however often workers are
\* stopped, a message is given up only after the database failed MaxRetries - 1
\* calls by itself, because a goroutine whose context is cancelled hands its
\* message back instead of going on to the next attempt.
ShutdownCostsOneAttempt ==
    exhausted # {} => faults["db"] >= MaxRetries - 1

\* While no connection has been lost, an acknowledged event that never used up
\* its attempts, and shares its webhook id with no other, has a document that
\* says "processed".  Otherwise the update of another goroutine, still busy with
\* the same event or the same id, may overwrite that very status.
AckedProcessed ==
    \A m \in Messages :
        /\ faults["disconnect"] = 0
        /\ \A n \in Messages \ {m} : WebhookID[n] # WebhookID[m]
        /\ place[m] = "acked" /\ m \notin exhausted
        => \E i \in DOMAIN docs : docs[i].msg = m /\ docs[i].status = "processed"

Holds(w, m) == m \in buffer[w] \/ \E g \in Threads : Owner(g) = w /\ msg[g] = m

\* Whatever the broker waits for, some process is still going to settle: the
\* delivery is in the hands of a goroutine, or waits in the buffer of a process
\* that has a channel to settle it over, and as long as such a process runs none
\* of its goroutines has returned.  No message occupies a place of the prefetch
\* window without anybody left to process it.
NoneStranded ==
    /\ \A m \in Messages :
           place[m] = "unacked" =>
               \E w \in Workers :
                   process[w] # "down" /\ channel[w] = "open" /\ Holds(w, m)
    /\ \A g \in Threads :
           pc[g] = "exited" /\ process[Owner(g)] = "running" =>
               channel[Owner(g)] = "closed"
-----------------------------------------------------------------------------
(* The parts of the inductive invariant behind the properties above. *)

\* A process that is down holds no channel and runs no goroutine, and only an
\* open channel has a consumer or deliveries to settle.
ChannelsInv ==
    \A w \in Workers :
        /\ process[w] = "down" =>
               /\ channel[w] = "closed"
               /\ \A g \in Threads : Owner(g) = w => pc[g] = "exited"
        /\ consuming[w] => channel[w] = "open"
        /\ channel[w] = "closed" => unacked[w] = {}

\* The broker waits for a message on one channel, and nowhere else.
UnackedInv ==
    \A w \in Workers : \A m \in unacked[w] :
        /\ place[m] = "unacked"
        /\ \A v \in Workers \ {w} : m \notin unacked[v]

\* What a process holds came from the broker, and is still to be settled if
\* the channel it came over is open.
HeldInv ==
    \A w \in Workers :
        /\ \A m \in buffer[w] : place[m] # "unsent"
        /\ channel[w] = "open" => buffer[w] \subseteq unacked[w]

\* A goroutine's variables go with its program counter.
LoopInv ==
    \A g \in Threads :
        /\ pc[g] \notin Busy => msg[g] = NoMessage
        /\ pc[g] \in Busy =>
               /\ msg[g] \in Messages
               /\ place[msg[g]] # "unsent"
               /\ attempt[g] \in 1..MaxRetries
               /\ (msg[g] \in Malformed) = (pc[g] = "reject")
        /\ pc[g] \in {"mark_retrying", "backoff"} => attempt[g] < MaxRetries

\* What a goroutine has achieved by the time it gets where it is.
AchievedInv ==
    \A g \in Threads :
        /\ pc[g] = "update" => Stored(msg[g])
        /\ pc[g] = "mark_failed" => msg[g] \in exhausted
        /\ pc[g] = "ack" => Stored(msg[g]) \/ msg[g] \in exhausted

\* Attempts are paid for with database errors, except one under a cancelled
\* context.
PaidInv ==
    /\ \A g \in Threads : pc[g] \in Busy => faults["db"] >= attempt[g] - 1
    /\ \A g \in Threads :
           pc[g] \in {"mark_retrying", "backoff"} /\ process[Owner(g)] = "running"
               => faults["db"] >= attempt[g]
    /\ ShutdownCostsOneAttempt

IndInv ==
    /\ TypeOK
    /\ ChannelsInv
    /\ UnackedInv
    /\ HeldInv
    /\ LoopInv
    /\ SettleOnce
    /\ AchievedInv
    /\ AckedAccountedFor
    /\ FailedEarned
    /\ PoisonSeparated
    /\ PaidInv
-----------------------------------------------------------------------------
(* What must happen eventually. *)

\* A process that has been told to stop does stop: no goroutine is left waiting
\* and the redelivery of requeued messages comes to an end.
ShutdownCompletes ==
    \A w \in Workers : process[w] = "stopping" ~> process[w] = "down"

\* All of w's goroutines have returned, yet main waits for a signal.
Stalled(w) ==
    /\ process[w] = "running"
    /\ \A g \in Threads : Owner(g) = w => pc[g] = "exited"

\* Through crashes, restarts, database errors, shutdowns and lost connections,
\* every published message is settled, or else every worker has stalled: that is
\* the worst that can happen to the queue, and it takes the loss of every
\* worker's connection.
SettledUnlessAllStalled ==
    \A m \in Messages :
        place[m] # "unsent" ~> Settled(m) \/ \A w \in Workers : Stalled(w)

\* How many steps of its own a goroutine is at most away from the end of its
\* delivery: an attempt that fails takes up to five, "insert", "update",
\* "mark_retrying", "backoff" and the start of the next one.
StepsAfter == [insert |-> 5, update |-> 4, mark_retrying |-> 3, backoff |-> 2,
               mark_failed |-> 2, ack |-> 1, reject |-> 1]

StepsLeft(g) ==
    IF pc[g] \in Busy
    THEN 5 * (MaxRetries - attempt[g]) + StepsAfter[pc[g]]
    ELSE 0

\* No delivery is processed for ever, whatever the database, the broker and the
\* other goroutines do meanwhile: each step of the goroutine takes it nearer to
\* the end, and no step of anything else takes it further away.
DeliveriesEnd ==
    [][\A g \in Threads :
          /\ StepsLeft(g) \in 0..(5 * MaxRetries)
          /\ pc[g] \in Busy /\ <<pc[g], attempt[g]>>' # <<pc[g], attempt[g]>>
                 => StepsLeft(g)' < StepsLeft(g)]_vars
-----------------------------------------------------------------------------
(* What it all amounts to. *)

Promise == INSTANCE AtLeastOnce WITH
    Undecodable <- Malformed,
    Discardable <- IF HasTTL THEN Messages ELSE Malformed,
    sent <- {m \in Messages : place[m] # "unsent"},
    stored <- {m \in Messages : Stored(m)},
    abandoned <- exhausted,
    settled <- {m \in Messages : Settled(m)}

\* The queue and the workers deliver at least once: see AtLeastOnce.  A step of
\* any goroutine, of the broker or of a fault is a step of the promise or is
\* invisible to it.
KeepsPromise == Promise!Spec
=============================================================================

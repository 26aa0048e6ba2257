------------------------------ MODULE Delivery ------------------------------
(***************************************************************************)
(* From the sender of a webhook to the collection.  The requests of        *)
(* Ingress run in a server process that is started, stopped                *)
(* (cmd/app/main.go, internal/server/server.go) and killed; what they      *)
(* publish reaches the queue, whose workers do what AtLeastOnce says, as   *)
(* Worker was shown to.  A message has the name of the request that        *)
(* published it.                                                           *)
(***************************************************************************)
EXTENDS Ingress

CONSTANT HasTTL   \* messages may expire

ASSUME DeliveryAssumption == HasTTL \in BOOLEAN

VARIABLES
    server,       \* how far Shutdown has got
    sent, stored, abandoned, settled,  \* see AtLeastOnce
    vanished      \* messages written to a connection that was lost under them

Queue == INSTANCE AtLeastOnce WITH
    Messages <- Requests,
    Undecodable <- {},
    Discardable <- IF HasTTL THEN Requests ELSE {}

queueState == <<sent, stored, abandoned, settled>>
queueVars == <<queueState, vanished>>
deliveryVars == <<vars, server, queueVars>>

DeliveryTypeOK ==
    /\ TypeOK
    /\ server \in {"up", "closing", "draining", "exiting"}
    /\ sent \subseteq Requests /\ stored \subseteq Requests
    /\ abandoned \subseteq Requests /\ settled \subseteq Requests
    /\ vanished \subseteq Requests

DeliveryInit ==
    /\ Init
    /\ Queue!Init
    /\ server = "up"
    /\ vanished = {}
-----------------------------------------------------------------------------
UnderWay(r) == pc[r] \notin {"new", "answered", "lost"}

\* The other requests that bring the event of r.
Copies ==
    [r \in Requests |-> {o \in Requests \ {r} : ClientOf[o] = ClientOf[r]
                                               /\ Payload[o] = Payload[r]}]

\* The sender was waiting for an answer and never got one.
Unheard(r) == r \in gone \/ (pc[r] = "lost" /\ response[r] = "none")

\* A sender repeats an event until it hears 200.
Repeats(r) ==
    \A o \in Copies[r] :
        pc[o] # "new" => Unheard(o) \/ response[o] \in {"429", "500"}

Arrive(r) ==
    /\ server \in {"up", "closing"}
    /\ Repeats(r)
    /\ LetIn(r) \/ TurnAway(r)
    /\ UNCHANGED <<server, queueVars>>

\* PublishWithContext returns nil when the frames are written.  Nothing tells
\* the publisher that the broker has them: there are no publisher confirms.
Publish(r) ==
    /\ PublishOK(r) \/ DebugPublishOK(r)
    /\ \/ Queue!Send(r) /\ UNCHANGED vanished
       \/ vanished' = vanished \cup {r} /\ UNCHANGED queueState
    /\ UNCHANGED server

\* Variant: the error of an attempt comes after the message was written.
PublishErrsLate(r) ==
    /\ PublishFails(r) \/ DebugPublishFails(r)
    /\ Queue!Send(r)
    /\ UNCHANGED <<server, vanished>>

\* An error means that not all frames were written, and the broker drops what
\* it has of them.
PublishErrs(r) ==
    /\ PublishFails(r) \/ DebugPublishFails(r)
    /\ UNCHANGED <<server, queueVars>>

\* Everything else a request does.
Handle(r) ==
    /\ \/ Retry(r) \/ GiveUp(r)
       \/ CountFailure(r) \/ ShowFailures(r)
       \/ CountSuccess(r) \/ ShowSuccess(r)
    /\ UNCHANGED <<server, queueVars>>

\* The workers.
Work(r) ==
    /\ Queue!Attempt(r) \/ Queue!Settle(r)
    /\ UNCHANGED <<vars, server, vanished>>
-----------------------------------------------------------------------------
\* Shutdown closes the publisher, under the requests in progress; what they go
\* on to do is Publisher's.
ClosePublisher ==
    /\ server = "up"
    /\ server' = "closing"
    /\ UNCHANGED <<vars, queueVars>>

\* http.Server.Shutdown closes the listeners first.
CloseListeners ==
    /\ server = "closing"
    /\ server' = "draining"
    /\ UNCHANGED <<vars, queueVars>>

\* The process is gone, and another is started.
End ==
    /\ Restart
    /\ server' = "up"
    /\ UNCHANGED queueVars

\* A crash, at any time.
Crash == server \in {"up", "closing"} /\ End

\* Shutdown returns once no request is under way, or after 5 seconds.
ShutdownReturns == server \in {"draining", "exiting"} /\ End

\* ListenAndServe returns as soon as the listeners are closed, and the goroutine
\* of main that called it takes ErrServerClosed for a failure: it calls Fatalf.
ListenerFails ==
    /\ server = "draining"
    /\ server' = "exiting"
    /\ UNCHANGED <<vars, queueVars>>

\* Fatalf exits the process.
FatalExit == server = "exiting" /\ End

DeliveryNext ==
    \/ \E r \in Requests :
         \/ Arrive(r) \/ Publish(r) \/ PublishErrs(r) \/ Handle(r) \/ Work(r)
         \/ HangUp(r) /\ UNCHANGED <<server, queueVars>>
    \/ Time /\ UNCHANGED <<trackerVars, debug, requestVars, pastVars,
                           server, queueVars>>
    \/ ClosePublisher \/ CloseListeners
    \/ ShutdownReturns \/ ListenerFails \/ FatalExit \/ Crash

\* A goroutine in a call goes on.  Of the workers nothing is asked: those that
\* have lost their connection stay up and consume nothing.
DeliverySpec ==
    /\ DeliveryInit /\ [][DeliveryNext]_deliveryVars
    /\ \A r \in Requests :
         WF_deliveryVars(Publish(r) \/ PublishErrs(r) \/ Handle(r))
-----------------------------------------------------------------------------
\* An answer means what the sender takes it for, whatever the server goes
\* through.  429 and 500: the event has left nothing behind, and to repeat it
\* makes no duplicate, however many attempts at publishing it there had been.
\* 200: it was published, and unless the connection was lost under it the queue
\* has it until it is stored, given up by a worker, or expires.
AnswersHold ==
    \A r \in Requests :
        /\ response[r] \in {"429", "500"} => r \notin sent \cup vanished
        /\ response[r] = "200" /\ r \notin vanished =>
               /\ r \in sent
               /\ r \in settled => r \in stored \cup abandoned \/ HasTTL

\* Of all copies of an event in the queue, all but one come of requests whose
\* answer never reached the sender: it hung up, or the process ended.
DuplicatesUnheard ==
    \A r \in sent : \A o \in sent \cap Copies[r] : Unheard(r) \/ Unheard(o)
=============================================================================

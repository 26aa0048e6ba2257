------------------------------ MODULE Topology ------------------------------
(***************************************************************************)
(* How servers and workers find the exchange and the queue they share.     *)
(* Each declares all it needs when it starts, and a server again whenever  *)
(* it reconnects (DeclareTopology in internal/queue/rabbitmq.go), one call *)
(* after the other, while others do the same, perhaps with other settings. *)
(* A declaration of something that exists changes nothing if it agrees,    *)
(* and is refused if it does not.                                          *)
(***************************************************************************)
EXTENDS Config

CONSTANTS
    Processes,
    Servers,      \* those of them that reconnect
    Deployments,  \* the file and the environment a process may be started with
    MaxFaults,    \* bound on connections lost, processes stopped and restarts
    MaxTampering  \* bound on what an operator does to the broker

\* What a process may be configured with.
Settings == {Load(d.file, d.env) : d \in Deployments}

ASSUME TopologyAssumption ==
    /\ \A s \in Settings : s.ttl \in Int
    /\ Servers \subseteq Processes
    /\ MaxFaults \in Nat
    /\ MaxTampering \in Nat

VARIABLES
    broker,       \* what the broker has: the declarations it has accepted
    settings,     \* each process's configuration
    state, step,  \* how far each one has got
    faults, tampering

processVars == <<settings, state, step>>
vars == <<broker, processVars, faults, tampering>>
-----------------------------------------------------------------------------
\* All that is declared is durable.
Exchange(name, type) ==
    [op |-> "exchange", name |-> name, type |-> type, durable |-> TRUE]
Queue(name, args) ==
    [op |-> "queue", name |-> name, args |-> args, durable |-> TRUE]
Binding(queue, key, exchange) ==
    [op |-> "binding", queue |-> queue, key |-> key, exchange |-> exchange]

Names == {"", "dlq"} \cup
    UNION {{s.exchange, s.queue, s.dlx, s.dlq, s.key} : s \in Settings}

Args == [dlx : Names, key : Names, ttl : Seq(Int)]

Declarations ==
    [op : {"exchange"}, name : Names, type : {"direct", "fanout"}, durable : {TRUE}]
    \cup [op : {"queue"}, name : Names, args : Args, durable : {TRUE}]
    \cup [op : {"binding"}, queue : Names, key : Names, exchange : Names]

\* Variant: a TTL of 0, which stands for none, is passed on.
ZeroTTLArgs(s) ==
    [dlx |-> s.dlx, key |-> IF s.dlx = "" THEN "" ELSE s.key,
     ttl |-> IF s.ttl >= 0 THEN <<Int32(s.ttl)>> ELSE <<>>]

\* queueArgs: an argument that is not passed is empty.
QueueArgs(s) ==
    [dlx |-> s.dlx, key |-> IF s.dlx = "" THEN "" ELSE s.key,
     ttl |-> IF s.ttl > 0 THEN <<Int32(s.ttl)>> ELSE <<>>]

\* Variants: the queue is bound by the dead letters' key, or before it is there.
KeyedMainDeclarations(s) ==
    << Exchange(s.exchange, "direct"),
       Queue(s.queue, QueueArgs(s)),
       Binding(s.queue, s.key, s.exchange) >>
MainDeclarationsBindingFirst(s) ==
    << Exchange(s.exchange, "direct"),
       Binding(s.queue, "", s.exchange),
       Queue(s.queue, QueueArgs(s)) >>

MainDeclarations(s) ==
    << Exchange(s.exchange, "direct"),
       Queue(s.queue, QueueArgs(s)),
       Binding(s.queue, "", s.exchange) >>

NoArgs == [dlx |-> "", key |-> "", ttl |-> <<>>]

DLQKey(s) == IF s.key = "" THEN "dlq" ELSE s.key

\* Variant: an exchange of the same type as the primary one.
DirectDeadLetterDeclarations(s) ==
    IF s.dlx = "" \/ s.dlq = "" THEN <<>>
    ELSE << Exchange(s.dlx, "direct"),
            Queue(s.dlq, NoArgs),
            Binding(s.dlq, DLQKey(s), s.dlx) >>

DeadLetterDeclarations(s) ==
    IF s.dlx = "" \/ s.dlq = "" THEN <<>>
    ELSE << Exchange(s.dlx, "fanout"),
            Queue(s.dlq, NoArgs),
            Binding(s.dlq, DLQKey(s), s.dlx) >>

DeclareTopology(s) == MainDeclarations(s) \o DeadLetterDeclarations(s)
-----------------------------------------------------------------------------
Exchanges == {d \in broker : d.op = "exchange"}
Queues == {d \in broker : d.op = "queue"}
Bindings == {d \in broker : d.op = "binding"}

\* The broker takes a declaration if what has the name is the same, a queue
\* unless its TTL is negative, a binding if both its ends exist.
Accepts(d) ==
    CASE d.op = "exchange" -> \A x \in Exchanges : x.name = d.name => x = d
      [] d.op = "queue" -> /\ \A q \in Queues : q.name = d.name => q = d
                           /\ d.args.ttl # <<>> => d.args.ttl[1] >= 0
      [] d.op = "binding" -> /\ \E x \in Exchanges : x.name = d.exchange
                             /\ \E q \in Queues : q.name = d.queue

\* Where an exchange sends a message with that key.
Routes(exchange, key) ==
    {b.queue : b \in {b \in Bindings :
        /\ b.exchange = exchange
        /\ \/ b.key = key
           \/ Exchange(exchange, "fanout") \in Exchanges}}
-----------------------------------------------------------------------------
Declaring == {"starting", "reconnecting"}
\* A process in one of these has declared everything it needs.
OnceUp == {"up", "cut", "reconnecting"}

TypeOK ==
    /\ broker \subseteq Declarations
    /\ settings \in [Processes -> Settings]
    /\ state \in [Processes -> Declaring \cup OnceUp \cup {"down", "refused"}]
    /\ step \in [Processes -> Nat]
    /\ \A p \in Processes :
         state[p] \in Declaring => step[p] \in 1..Len(DeclareTopology(settings[p]))
    /\ faults \in 0..MaxFaults
    /\ tampering \in 0..MaxTampering

Init ==
    /\ broker = {}
    /\ settings \in [Processes -> Settings]
    /\ state = [p \in Processes |-> "down"]
    /\ step = [p \in Processes |-> 1]
    /\ faults = 0
    /\ tampering = 0

Begin(p, how) ==
    /\ state' = [state EXCEPT ![p] = how]
    /\ step' = [step EXCEPT ![p] = 1]

\* A container is started, or started again after Fatalf.
Start(p) ==
    /\ state[p] \in {"down", "refused"}
    /\ \E s \in Settings : settings' = [settings EXCEPT ![p] = s]
    /\ Begin(p, "starting")
    /\ UNCHANGED <<broker, faults, tampering>>

\* A call of Publish finds the connection closed.
Reconnect(p) ==
    /\ p \in Servers
    /\ state[p] = "cut"
    /\ Begin(p, "reconnecting")
    /\ UNCHANGED <<broker, settings, faults, tampering>>

\* The call of DeclareTopology that p makes next ...
Wanted(p) == DeclareTopology(settings[p])[step[p]]

\* ... is accepted.
Declare(p) ==
    /\ state[p] \in Declaring
    /\ Accepts(Wanted(p))
    /\ broker' = broker \cup {Wanted(p)}
    /\ IF step[p] = Len(DeclareTopology(settings[p]))
       THEN state' = [state EXCEPT ![p] = "up"] /\ UNCHANGED step
       ELSE step' = [step EXCEPT ![p] = @ + 1] /\ UNCHANGED state
    /\ UNCHANGED <<settings, faults, tampering>>

\* Variant: a queue that stands in the way is replaced.
RefusedReplaces(p) ==
    /\ state[p] \in Declaring
    /\ ~Accepts(Wanted(p)) /\ Wanted(p).op = "queue"
    /\ broker' = {d \in broker : d.op = "queue" => d.name # Wanted(p).name}
                  \cup {Wanted(p)}
    /\ UNCHANGED <<processVars, faults, tampering>>

\* An error ends DeclareTopology: the process exits, or reconnect fails.
Refused(p) ==
    /\ state[p] \in Declaring
    /\ ~Accepts(Wanted(p))
    /\ state' = [state EXCEPT ![p] = IF @ = "starting" THEN "refused" ELSE "cut"]
    /\ UNCHANGED <<broker, settings, step, faults, tampering>>

\* Variant: main logs the error, and waits for its signal.
AfterLossLogged(s) ==
    IF s \in Declaring \cup {"up"} THEN "cut" ELSE s

\* What becomes of a process whose connection is lost: the same.
AfterLoss(s) ==
    CASE s = "starting" -> "down"
      [] s \in {"up", "reconnecting"} -> "cut"
      [] OTHER -> s

Fault == faults < MaxFaults /\ faults' = faults + 1

LoseConnection(p) ==
    /\ Fault
    /\ state[p] \in Declaring \cup {"up"}
    /\ state' = [state EXCEPT ![p] = AfterLoss(@)]
    /\ UNCHANGED <<broker, settings, step, tampering>>

Stop(p) ==
    /\ Fault
    /\ state[p] # "down"
    /\ state' = [state EXCEPT ![p] = "down"]
    /\ UNCHANGED <<broker, settings, step, tampering>>

\* The broker restarts, and keeps what is durable.
RestartBroker ==
    /\ Fault
    /\ broker' = {d \in broker : d.op = "binding" \/ d.durable}
    /\ state' = [p \in Processes |-> AfterLoss(state[p])]
    /\ UNCHANGED <<settings, step, tampering>>

\* An operator takes something away, and what is bound to it ...
Without(d) ==
    {e \in broker \ {d} : e.op = "binding" =>
        ~ \/ d.op = "exchange" /\ e.exchange = d.name
          \/ d.op = "queue" /\ e.queue = d.name}

Delete(d) ==
    /\ tampering < MaxTampering /\ tampering' = tampering + 1
    /\ broker' = Without(d)
    /\ UNCHANGED <<processVars, faults>>

\* ... or makes a queue anew with other arguments.
Recreate(q, args) ==
    /\ tampering < MaxTampering /\ tampering' = tampering + 1
    /\ broker' = Without(q) \cup {Queue(q.name, args)}
    /\ UNCHANGED <<processVars, faults>>

ProcessStep(p) == Start(p) \/ Reconnect(p) \/ Declare(p) \/ Refused(p)

Next ==
    \/ \E p \in Processes : ProcessStep(p) \/ LoseConnection(p) \/ Stop(p)
    \/ RestartBroker
    \/ \E d \in broker : Delete(d)
    \/ \E q \in Queues : \E s \in Settings : Recreate(q, QueueArgs(s))

Spec == Init /\ [][Next]_vars /\ \A p \in Processes : WF_vars(ProcessStep(p))
-----------------------------------------------------------------------------
Untouched == tampering = 0

\* Once a process has been up, what it publishes or consumes has a way through
\* the broker: from its exchange into its queue, whatever other processes have
\* declared since, and whatever was restarted or cut off half way.
WiredOnceUp ==
    \A p \in Processes :
        Untouched /\ state[p] \in OnceUp
            => settings[p].queue \in Routes(settings[p].exchange, "")

\* And a message its queue dead-letters, under whichever key, goes to the dead
\* letter queue it has been configured with, not into the void.
DeadLettersKept ==
    \A p \in Processes :
        LET s == settings[p]
        IN  Untouched /\ state[p] \in OnceUp /\ s.dlx # "" /\ s.dlq # ""
                => \E q \in Queues :
                     /\ q.name = s.queue
                     /\ q.args.dlx = s.dlx
                     /\ s.dlq \in Routes(q.args.dlx, q.args.key)

\* The queue of a process that has been up keeps a message as long as it was
\* configured to, unless that is 2^32 ms (50 days) or more: a TTL between 2^31
\* and that is negative when it is cut to 32 bits, and refused.
TTLHonoured ==
    \A p \in Processes : \A q \in Queues :
        LET s == settings[p]
        IN  Untouched /\ state[p] \in OnceUp /\ q.name = s.queue
                => \/ q.args.ttl = IF s.ttl > 0 THEN <<s.ttl>> ELSE <<>>
                   \/ s.ttl >= 2 * Half

\* To declare again is harmless (rabbitmq.go:180 "idempotent"): a server that
\* reconnects is not refused what it was once given, whoever has tried to
\* declare something else.
RedeclareAccepted ==
    \A p \in Processes :
        Untouched /\ state[p] = "reconnecting" => Accepts(Wanted(p))

\* What the broker has that keeps it from taking d.
InTheWay(d, e) == e.op = d.op /\ d.op # "binding" /\ e.name = d.name /\ e # d

\* A process that exits because it is refused has its settings to blame, not the
\* order in which processes start, are cut off or restarted: what it asks for has
\* a negative TTL, or is declared differently by some configuration, its own
\* perhaps, and the broker still has that.
HasCause(p) ==
    \E i \in 1..Len(DeclareTopology(settings[p])) :
        LET d == DeclareTopology(settings[p])[i]
        IN  \/ d.op = "queue" /\ d.args.ttl # <<>> /\ d.args.ttl[1] < 0
            \/ \E s \in Settings : \E j \in 1..Len(DeclareTopology(s)) :
                   /\ DeclareTopology(s)[j] \in broker
                   /\ InTheWay(d, DeclareTopology(s)[j])

RefusedForCause ==
    \A p \in Processes : Untouched /\ state[p] = "refused" => HasCause(p)

\* Configurations that agree on what they name, and have no TTL that is cut to a
\* negative number, never keep each other from starting.
Agreeing ==
    \A s, t \in Settings :
        /\ Int32(s.ttl) >= 0
        /\ \A i \in 1..Len(DeclareTopology(s)), j \in 1..Len(DeclareTopology(t)) :
               ~InTheWay(DeclareTopology(s)[i], DeclareTopology(t)[j])

NoneRefused ==
    Agreeing /\ Untouched => \A p \in Processes : state[p] # "refused"

\* A container that exits, and is started again, gets all the way up unless it
\* is refused.
GetsUp ==
    \A p \in Processes : state[p] = "down" ~> state[p] \in {"up", "refused"}
=============================================================================

-------------------------- MODULE Topology_proofs --------------------------
(***************************************************************************)
(* As long as no operator touches the broker, the processes of Topology    *)
(* keep what they need, whatever their settings and however many there     *)
(* are.  The inductive invariant Inv says how: of a name the broker has    *)
(* one exchange and one queue, no TTL is negative, and what a process has  *)
(* declared is still there.                                                *)
(***************************************************************************)
EXTENDS Topology, TLAPS

\* One exchange, and one queue, of a name.
Unique ==
    \A d, e \in broker : d.op = e.op /\ d.op # "binding" /\ d.name = e.name => d = e

TTLsTaken == \A q \in Queues : q.args.ttl # <<>> => q.args.ttl[1] >= 0

\* The declarations of p that the broker has accepted since p was started.
Declared(p) ==
    IF state[p] = "starting" THEN 1..(step[p] - 1)
    ELSE IF state[p] \in OnceUp THEN 1..Len(DeclareTopology(settings[p]))
    ELSE {}

Kept ==
    \A p \in Processes : \A i \in Declared(p) :
        DeclareTopology(settings[p])[i] \in broker

Inv == TypeOK /\ (Untouched => Unique /\ TTLsTaken /\ Kept)
-----------------------------------------------------------------------------
(***************************************************************************)
(* What DeclareTopology comes to.                                          *)
(***************************************************************************)

\* An int is an int after it has been cut to 32 bits, and the same one if it
\* is in the range of the TTLs and comes out as no negative number
\* (rabbitmq.go:271).
LEMMA Int32Type == \A v \in Int : Int32(v) \in Int
  BY ConfigAssumption DEF Int32

LEMMA SmallRemainder == \A a, n \in Nat : a < n => a % n = a
  BY SMTT(30)

LEMMA Int32Exact ==
  ASSUME NEW v \in Nat, v < 2 * Half, Int32(v) >= 0
  PROVE  Int32(v) = v
<1>1. Half \in Nat /\ Half > 0
  BY ConfigAssumption
<1>2. CASE v < Half
  <2>1. v + Half \in Nat /\ 2 * Half \in Nat /\ v + Half < 2 * Half
    BY <1>1, <1>2
  <2>2. (v + Half) % (2 * Half) = v + Half
    BY <2>1, SmallRemainder
  <2> QED
    BY <2>2, <1>1 DEF Int32
<1>3. CASE v >= Half
  <2>1. (v + Half) % (2 * Half) = v - Half
    BY <1>1, <1>3, SMTT(60)
  <2> QED
    BY <2>1, <1>1 DEF Int32
<1> QED
  BY <1>1, <1>2, <1>3

LEMMA NamesType ==
  ASSUME NEW s \in Settings
  PROVE  /\ {s.exchange, s.queue, s.dlx, s.dlq, s.key} \subseteq Names
         /\ DLQKey(s) \in Names
         /\ "" \in Names
<1>1. {s.exchange, s.queue, s.dlx, s.dlq, s.key} \subseteq Names
  BY DEF Names
<1>2. {"", "dlq"} \subseteq Names
  BY DEF Names
<1> QED
  BY <1>1, <1>2 DEF DLQKey

LEMMA ArgsType ==
  ASSUME NEW s \in Settings
  PROVE  QueueArgs(s) \in Args /\ NoArgs \in Args
<1>1. ASSUME NEW x \in Names, NEW y \in Names, NEW z \in Seq(Int)
      PROVE  [dlx |-> x, key |-> y, ttl |-> z] \in Args
  BY DEF Args
<1>2. Int32(s.ttl) \in Int
  BY TopologyAssumption, Int32Type
<1>3. <<>> \in Seq(Int) /\ <<Int32(s.ttl)>> \in Seq(Int)
  BY <1>2
<1>4. QueueArgs(s) \in Args
  BY <1>1, <1>3, NamesType DEF QueueArgs
<1>5. NoArgs \in Args
  BY <1>1, <1>3, NamesType DEF NoArgs
<1> QED
  BY <1>4, <1>5

LEMMA QueueType ==
  ASSUME NEW name \in Names, NEW args \in Args
  PROVE  Queue(name, args) \in Declarations
  BY DEF Queue, Declarations

LEMMA ElementsType ==
  ASSUME NEW s \in Settings
  PROVE  /\ Exchange(s.exchange, "direct") \in Declarations
         /\ Queue(s.queue, QueueArgs(s)) \in Declarations
         /\ Binding(s.queue, "", s.exchange) \in Declarations
         /\ Exchange(s.dlx, "fanout") \in Declarations
         /\ Queue(s.dlq, NoArgs) \in Declarations
         /\ Binding(s.dlq, DLQKey(s), s.dlx) \in Declarations
<1>1. \A n \in Names : \A t \in {"direct", "fanout"} : Exchange(n, t) \in Declarations
  BY DEF Exchange, Declarations
<1>2. \A q, k, x \in Names : Binding(q, k, x) \in Declarations
  BY DEF Binding, Declarations
<1>3. QueueArgs(s) \in Args
  BY ArgsType
<1>4. NoArgs \in Args
  BY ArgsType
<1>5. Queue(s.queue, QueueArgs(s)) \in Declarations
  BY <1>3, NamesType, QueueType
<1>6. Queue(s.dlq, NoArgs) \in Declarations
  BY <1>4, NamesType, QueueType
<1> QED
  BY <1>1, <1>2, <1>5, <1>6, NamesType

LEMMA ThreeAndNone ==
  ASSUME NEW S, NEW a \in S, NEW b \in S, NEW c \in S
  PROVE  LET t == <<a, b, c>> \o <<>>
         IN  t \in Seq(S) /\ Len(t) = 3 /\ t[1] = a /\ t[2] = b /\ t[3] = c
  OBVIOUS

LEMMA ThreeAndThree ==
  ASSUME NEW S, NEW a \in S, NEW b \in S, NEW c \in S,
         NEW d \in S, NEW e \in S, NEW f \in S
  PROVE  LET t == <<a, b, c>> \o <<d, e, f>>
         IN  /\ t \in Seq(S) /\ Len(t) = 6
             /\ t[1] = a /\ t[2] = b /\ t[3] = c
             /\ t[4] = d /\ t[5] = e /\ t[6] = f
  OBVIOUS

HasDeadLetters(s) == s.dlx # "" /\ s.dlq # ""

\* What DeclareTopology declares, and in which order: the exchange, the queue
\* and its binding, then the same for the dead letters if there are any.
LEMMA TopologyShape ==
  ASSUME NEW s \in Settings
  PROVE  LET t == DeclareTopology(s)
         IN  /\ t \in Seq(Declarations)
             /\ t[1] = Exchange(s.exchange, "direct")
             /\ t[2] = Queue(s.queue, QueueArgs(s))
             /\ t[3] = Binding(s.queue, "", s.exchange)
             /\ ~HasDeadLetters(s) => Len(t) = 3
             /\ HasDeadLetters(s) =>
                   /\ Len(t) = 6
                   /\ t[4] = Exchange(s.dlx, "fanout")
                   /\ t[5] = Queue(s.dlq, NoArgs)
                   /\ t[6] = Binding(s.dlq, DLQKey(s), s.dlx)
<1> DEFINE a == Exchange(s.exchange, "direct")
           b == Queue(s.queue, QueueArgs(s))
           c == Binding(s.queue, "", s.exchange)
           d == Exchange(s.dlx, "fanout")
           e == Queue(s.dlq, NoArgs)
           f == Binding(s.dlq, DLQKey(s), s.dlx)
<1>1. /\ a \in Declarations /\ b \in Declarations /\ c \in Declarations
      /\ d \in Declarations /\ e \in Declarations /\ f \in Declarations
  BY ElementsType
<1>2. CASE HasDeadLetters(s)
  <2>1. DeclareTopology(s) = <<a, b, c>> \o <<d, e, f>>
    BY <1>2 DEF DeclareTopology, MainDeclarations, DeadLetterDeclarations,
                HasDeadLetters
  <2> HIDE DEF a, b, c, d, e, f
  <2>2. LET t == DeclareTopology(s)
        IN  /\ t \in Seq(Declarations) /\ Len(t) = 6
            /\ t[1] = a /\ t[2] = b /\ t[3] = c
            /\ t[4] = d /\ t[5] = e /\ t[6] = f
    BY <1>1, <2>1, ThreeAndThree
  <2> QED
    BY <1>2, <2>2 DEF a, b, c, d, e, f
<1>3. CASE ~HasDeadLetters(s)
  <2>1. DeclareTopology(s) = <<a, b, c>> \o <<>>
    BY <1>3 DEF DeclareTopology, MainDeclarations, DeadLetterDeclarations,
                HasDeadLetters
  <2> HIDE DEF a, b, c
  <2>2. LET t == DeclareTopology(s)
        IN  /\ t \in Seq(Declarations) /\ Len(t) = 3
            /\ t[1] = a /\ t[2] = b /\ t[3] = c
    BY <1>1, <2>1, ThreeAndNone
  <2> QED
    BY <1>3, <2>2 DEF a, b, c
<1> QED
  BY <1>2, <1>3

\* Call by call, what matters of them.
LEMMA TopologyCalls ==
  ASSUME NEW s \in Settings
  PROVE  LET t == DeclareTopology(s)
         IN  /\ Len(t) \in {3, 6}
             /\ t[1].op = "exchange" /\ t[1].name = s.exchange
             /\ t[2].op = "queue" /\ t[2].name = s.queue /\ t[2].args = QueueArgs(s)
             /\ t[3].op = "binding" /\ t[3].queue = s.queue /\ t[3].exchange = s.exchange
             /\ Len(t) = 6 =>
                   /\ t[4].op = "exchange" /\ t[4].name = s.dlx
                   /\ t[5].op = "queue" /\ t[5].name = s.dlq /\ t[5].args = NoArgs
                   /\ t[6].op = "binding" /\ t[6].queue = s.dlq /\ t[6].exchange = s.dlx
<1> DEFINE t == DeclareTopology(s)
<1>1. /\ t[1] = Exchange(s.exchange, "direct")
      /\ t[2] = Queue(s.queue, QueueArgs(s))
      /\ t[3] = Binding(s.queue, "", s.exchange)
  BY TopologyShape
<1>2. HasDeadLetters(s) =>
        /\ Len(t) = 6
        /\ t[4] = Exchange(s.dlx, "fanout")
        /\ t[5] = Queue(s.dlq, NoArgs)
        /\ t[6] = Binding(s.dlq, DLQKey(s), s.dlx)
  BY TopologyShape
<1>3. ~HasDeadLetters(s) => Len(t) = 3
  BY TopologyShape
<1> HIDE DEF t
<1>4. ASSUME NEW x, NEW type
      PROVE  Exchange(x, type).op = "exchange" /\ Exchange(x, type).name = x
  BY DEF Exchange
<1>5. ASSUME NEW q, NEW args
      PROVE  /\ Queue(q, args).op = "queue" /\ Queue(q, args).name = q
             /\ Queue(q, args).args = args
  BY DEF Queue
<1>6. ASSUME NEW q, NEW k, NEW x
      PROVE  /\ Binding(q, k, x).op = "binding"
             /\ Binding(q, k, x).queue = q /\ Binding(q, k, x).exchange = x
  BY DEF Binding
<1>7. /\ t[1].op = "exchange" /\ t[1].name = s.exchange
      /\ t[2].op = "queue" /\ t[2].name = s.queue /\ t[2].args = QueueArgs(s)
      /\ t[3].op = "binding" /\ t[3].queue = s.queue /\ t[3].exchange = s.exchange
  <2>1. /\ Exchange(s.exchange, "direct").op = "exchange"
        /\ Exchange(s.exchange, "direct").name = s.exchange
    BY <1>4
  <2>2. /\ Queue(s.queue, QueueArgs(s)).op = "queue"
        /\ Queue(s.queue, QueueArgs(s)).name = s.queue
        /\ Queue(s.queue, QueueArgs(s)).args = QueueArgs(s)
    BY <1>5
  <2>3. /\ Binding(s.queue, "", s.exchange).op = "binding"
        /\ Binding(s.queue, "", s.exchange).queue = s.queue
        /\ Binding(s.queue, "", s.exchange).exchange = s.exchange
    BY DEF Binding
  <2> QED
    BY <1>1, <2>1, <2>2, <2>3, Zenon
<1>8. CASE HasDeadLetters(s)
  <2>1. /\ t[4] = Exchange(s.dlx, "fanout") /\ t[5] = Queue(s.dlq, NoArgs)
        /\ t[6] = Binding(s.dlq, DLQKey(s), s.dlx) /\ Len(t) = 6
    BY <1>2, <1>8
  <2>2. /\ t[4].op = "exchange" /\ t[4].name = s.dlx
        /\ t[5].op = "queue" /\ t[5].name = s.dlq /\ t[5].args = NoArgs
        /\ t[6].op = "binding" /\ t[6].queue = s.dlq /\ t[6].exchange = s.dlx
    BY <1>4, <1>5, <1>6, <2>1
  <2> QED
    BY <1>7, <2>1, <2>2 DEF t
<1>9. CASE ~HasDeadLetters(s)
  <2>1. Len(t) = 3
    BY <1>3, <1>9
  <2> QED
    BY <1>7, <2>1 DEF t
<1> QED
  BY <1>8, <1>9

\* The queues among them, with their arguments.
LEMMA QueueElements ==
  ASSUME NEW s \in Settings, NEW i \in 1..Len(DeclareTopology(s)),
         DeclareTopology(s)[i].op = "queue"
  PROVE  DeclareTopology(s)[i].args \in {QueueArgs(s), NoArgs}
<1> DEFINE t == DeclareTopology(s)
<1>1. /\ Len(t) \in {3, 6}
      /\ t[1].op = "exchange" /\ t[3].op = "binding" /\ t[2].args = QueueArgs(s)
      /\ Len(t) = 6 => /\ t[4].op = "exchange" /\ t[6].op = "binding"
                       /\ t[5].args = NoArgs
  BY TopologyCalls
<1>2. i \in 1..Len(t) /\ t[i].op = "queue"
  OBVIOUS
<1> HIDE DEF t
<1>3. i \in {1, 2, 3} \/ (Len(t) = 6 /\ i \in {4, 5, 6})
  BY <1>1, <1>2
<1>4. t[i].args \in {QueueArgs(s), NoArgs}
  BY <1>1, <1>2, <1>3
<1> QED
  BY <1>4 DEF t
-----------------------------------------------------------------------------
(***************************************************************************)
(* The invariant.                                                          *)
(***************************************************************************)

\* The broker has named things of the three kinds only, and what has a name
\* is durable.
LEMMA BrokerShape ==
  ASSUME NEW d \in Declarations
  PROVE  /\ d.op \in {"exchange", "queue", "binding"}
         /\ d.op # "binding" => d.durable
  BY DEF Declarations

\* What a process asks for is one of the declarations.
LEMMA WantedType ==
  ASSUME TypeOK, NEW p \in Processes, state[p] \in Declaring
  PROVE  /\ Wanted(p) \in Declarations
         /\ step[p] \in 1..Len(DeclareTopology(settings[p]))
         /\ Len(DeclareTopology(settings[p])) \in Nat
<1>1. settings[p] \in Settings
  BY DEF TypeOK
<1>2. step[p] \in 1..Len(DeclareTopology(settings[p]))
  BY DEF TypeOK
<1>3. /\ DeclareTopology(settings[p]) \in Seq(Declarations)
      /\ Len(DeclareTopology(settings[p])) \in Nat
  <2>1. DeclareTopology(settings[p]) \in Seq(Declarations)
    BY <1>1, TopologyShape
  <2> QED
    BY <2>1
<1>4. DeclareTopology(settings[p])[step[p]] \in Declarations
  BY <1>2, <1>3
<1> QED
  BY <1>2, <1>3, <1>4 DEF Wanted

THEOREM InitInv == Init => Inv
<1> SUFFICES ASSUME Init PROVE Inv
  OBVIOUS
<1>1. \A p \in Processes : state[p] = "down"
  BY DEF Init
<1>2. TypeOK
  <2>1. \A p \in Processes : state[p] \notin Declaring
    BY <1>1 DEF Declaring
  <2>2. state \in [Processes -> Declaring \cup OnceUp \cup {"down", "refused"}]
    BY DEF Init
  <2>3. faults \in 0..MaxFaults /\ tampering \in 0..MaxTampering
    BY TopologyAssumption DEF Init
  <2>4. broker \subseteq Declarations /\ settings \in [Processes -> Settings]
    BY DEF Init
  <2>5. step \in [Processes -> Nat]
    BY DEF Init
  <2> QED
    BY <2>1, <2>2, <2>3, <2>4, <2>5 DEF TypeOK
<1>3. Unique /\ TTLsTaken
  BY DEF Init, Unique, TTLsTaken, Queues
<1>4. Kept
  BY <1>1 DEF Kept, Declared, OnceUp
<1> QED
  BY <1>2, <1>3, <1>4 DEF Inv

\* A step that leaves the broker alone, and gives no process more that it has
\* declared, preserves what is said of them.
LEMMA SameBroker ==
  ASSUME Inv, TypeOK', broker' = broker, tampering' = tampering,
         \A p \in Processes : \A i \in Declared(p)' :
            i \in Declared(p) /\ settings'[p] = settings[p]
  PROVE  Inv'
<1> SUFFICES ASSUME tampering = 0 PROVE (Unique /\ TTLsTaken /\ Kept)'
  BY DEF Inv, Untouched
<1>1. Unique /\ TTLsTaken /\ Kept
  BY DEF Inv, Untouched
<1>2. Unique' /\ TTLsTaken'
  BY <1>1 DEF Unique, TTLsTaken, Queues
<1>3. Kept'
  BY <1>1 DEF Kept
<1> QED
  BY <1>2, <1>3

\* A process that goes to another state of its own has no more declared.
LEMMA SameDeclared ==
  ASSUME TypeOK, UNCHANGED <<settings, step>>, NEW p \in Processes,
         \/ state'[p] = state[p]
         \/ state'[p] \notin OnceUp \cup {"starting"}
         \/ state[p] \in OnceUp /\ state'[p] \in OnceUp
  PROVE  Declared(p)' \subseteq Declared(p)
  BY DEF Declared, OnceUp

\* How a loss of the connection changes a process.
LEMMA AfterLossType ==
  ASSUME NEW s \in Declaring \cup OnceUp \cup {"down", "refused"}
  PROVE  /\ AfterLoss(s) \in OnceUp \cup {"down", "refused"}
         /\ AfterLoss(s) \in Declaring => AfterLoss(s) = s
         /\ \/ AfterLoss(s) \in {"down", "refused"}
            \/ s \in OnceUp /\ AfterLoss(s) \in OnceUp
  BY DEF AfterLoss, Declaring, OnceUp

\* The broker's part of TypeOK, when an operator makes a queue anew.
LEMMA RecreateType ==
  ASSUME TypeOK, NEW q \in Queues, NEW s \in Settings, Recreate(q, QueueArgs(s))
  PROVE  broker' \subseteq Declarations
<1>1. q \in Declarations /\ q.op = "queue"
  BY DEF TypeOK, Queues
<1>2. q.name \in Names
  BY <1>1 DEF Declarations
<1>3. QueueArgs(s) \in Args
  BY ArgsType
<1>4. Queue(q.name, QueueArgs(s)) \in Declarations
  BY <1>2, <1>3, QueueType
<1> QED
  BY <1>4 DEF TypeOK, Recreate, Without

LEMMA TypeStep == TypeOK /\ [Next]_vars => TypeOK'
<1> SUFFICES ASSUME TypeOK, [Next]_vars PROVE TypeOK'
  OBVIOUS
<1> DEFINE States == Declaring \cup OnceUp \cup {"down", "refused"}
<1>1. \A s \in Settings : 1 \in 1..Len(DeclareTopology(s))
  <2>1. \A s \in Settings : Len(DeclareTopology(s)) \in {3, 6}
    BY TopologyShape, Zenon
  <2> QED
    BY <2>1
<1>2. ASSUME NEW p \in Processes, Start(p) PROVE TypeOK'
  <2>1. PICK s \in Settings : settings' = [settings EXCEPT ![p] = s]
    BY <1>2 DEF Start
  <2>2. settings' \in [Processes -> Settings]
    BY <2>1 DEF TypeOK
  <2>3. state' \in [Processes -> States]
    BY <1>2 DEF Start, Begin, TypeOK, Declaring
  <2>4. ASSUME NEW r \in Processes, state'[r] \in Declaring
        PROVE  step'[r] \in 1..Len(DeclareTopology(settings'[r]))
    <3>1. CASE r = p
      <4>1. step'[p] = 1
        BY <1>2 DEF Start, Begin, TypeOK
      <4>2. 1 \in 1..Len(DeclareTopology(settings'[p]))
        BY <1>1, <2>2
      <4> QED
        BY <3>1, <4>1, <4>2
    <3>2. CASE r # p
      BY <1>2, <2>1, <2>4, <3>2 DEF Start, Begin, TypeOK
    <3> QED
      BY <3>1, <3>2
  <2>5. step' \in [Processes -> Nat]
    BY <1>2 DEF Start, Begin, TypeOK
  <2> QED
    BY <1>2, <2>2, <2>3, <2>4, <2>5 DEF Start, TypeOK
<1>3. ASSUME NEW p \in Processes, Reconnect(p) PROVE TypeOK'
  <2>1. state' \in [Processes -> States]
    BY <1>3 DEF Reconnect, Begin, TypeOK, Declaring
  <2>2. ASSUME NEW r \in Processes, state'[r] \in Declaring
        PROVE  step'[r] \in 1..Len(DeclareTopology(settings[r]))
    <3>1. CASE r = p
      <4>1. step'[p] = 1
        BY <1>3 DEF Reconnect, Begin, TypeOK
      <4>2. 1 \in 1..Len(DeclareTopology(settings[p]))
        BY <1>1 DEF TypeOK
      <4> QED
        BY <3>1, <4>1, <4>2
    <3>2. CASE r # p
      BY <1>3, <2>2, <3>2 DEF Reconnect, Begin, TypeOK
    <3> QED
      BY <3>1, <3>2
  <2>3. step' \in [Processes -> Nat]
    BY <1>3 DEF Reconnect, Begin, TypeOK
  <2> QED
    BY <1>3, <2>1, <2>2, <2>3 DEF Reconnect, TypeOK
<1>4. ASSUME NEW p \in Processes, Declare(p) PROVE TypeOK'
  <2>1. /\ Wanted(p) \in Declarations
        /\ step[p] \in 1..Len(DeclareTopology(settings[p]))
        /\ Len(DeclareTopology(settings[p])) \in Nat
    BY <1>4, WantedType DEF Declare
  <2>2. broker' \subseteq Declarations
    BY <1>4, <2>1 DEF Declare, TypeOK
  <2>3. state' \in [Processes -> States]
    BY <1>4 DEF Declare, TypeOK, OnceUp
  <2>4. ASSUME NEW r \in Processes, state'[r] \in Declaring
        PROVE  step'[r] \in 1..Len(DeclareTopology(settings[r]))
    <3>1. CASE r = p
      <4>1. step[p] # Len(DeclareTopology(settings[p]))
        BY <1>4, <2>4, <3>1 DEF Declare, TypeOK, Declaring
      <4>2. step'[p] = step[p] + 1
        BY <1>4, <4>1 DEF Declare, TypeOK
      <4> QED
        BY <2>1, <3>1, <4>1, <4>2
    <3>2. CASE r # p
      BY <1>4, <2>4, <3>2 DEF Declare, TypeOK
    <3> QED
      BY <3>1, <3>2
  <2> QED
    BY <1>4, <2>2, <2>3, <2>4 DEF Declare, TypeOK
<1>5. ASSUME NEW p \in Processes, Refused(p) PROVE TypeOK'
  BY <1>5 DEF Refused, TypeOK, Declaring, OnceUp
<1>6. ASSUME NEW p \in Processes, LoseConnection(p) PROVE TypeOK'
  <2>1. /\ AfterLoss(state[p]) \in States
        /\ AfterLoss(state[p]) \in Declaring => AfterLoss(state[p]) = state[p]
    BY AfterLossType DEF TypeOK
  <2> QED
    BY <1>6, <2>1, TopologyAssumption DEF LoseConnection, Fault, TypeOK
<1>7. ASSUME NEW p \in Processes, Stop(p) PROVE TypeOK'
  BY <1>7, TopologyAssumption DEF Stop, Fault, TypeOK, Declaring
<1>8. CASE RestartBroker
  <2>1. \A p \in Processes :
           /\ AfterLoss(state[p]) \in States
           /\ AfterLoss(state[p]) \in Declaring => AfterLoss(state[p]) = state[p]
    BY AfterLossType DEF TypeOK
  <2> QED
    BY <1>8, <2>1, TopologyAssumption DEF RestartBroker, Fault, TypeOK
<1>9. ASSUME NEW d \in broker, Delete(d) PROVE TypeOK'
  BY <1>9, TopologyAssumption DEF Delete, Without, TypeOK, processVars
<1>10. ASSUME NEW q \in Queues, NEW s \in Settings, Recreate(q, QueueArgs(s))
       PROVE  TypeOK'
  <2>1. broker' \subseteq Declarations
    BY <1>10, RecreateType
  <2> QED
    BY <1>10, <2>1, TopologyAssumption DEF Recreate, TypeOK, processVars
<1>11. CASE UNCHANGED vars
  BY <1>11 DEF vars, processVars, TypeOK
<1> QED
  BY <1>2, <1>3, <1>4, <1>5, <1>6, <1>7, <1>8, <1>9, <1>10, <1>11
     DEF Next, ProcessStep

\* What p declares goes with what the broker has, and p has it from then on.
LEMMA DeclareStep ==
  ASSUME Inv, TypeOK', tampering = 0, NEW p \in Processes, Declare(p)
  PROVE  (Unique /\ TTLsTaken /\ Kept)'
<1> DEFINE w == Wanted(p)
           n == Len(DeclareTopology(settings[p]))
<1>1. TypeOK /\ Unique /\ TTLsTaken /\ Kept
  BY DEF Inv, Untouched
<1>2. /\ w \in Declarations
      /\ step[p] \in 1..n /\ n \in Nat
  BY <1>1, WantedType DEF Declare
<1>3. broker' = broker \cup {w} /\ Accepts(w) /\ settings' = settings
  BY DEF Declare
<1>4. w.op \in {"exchange", "queue", "binding"}
  BY <1>2, BrokerShape
<1>5. \A d \in broker : d.op = w.op /\ d.op # "binding" /\ d.name = w.name => d = w
  BY <1>3, <1>4 DEF Accepts, Exchanges, Queues
<1>6. w.op = "queue" /\ w.args.ttl # <<>> => w.args.ttl[1] >= 0
  BY <1>3 DEF Accepts
<1>7. Unique'
  <2> HIDE DEF w
  <2> SUFFICES ASSUME NEW d \in broker \cup {w}, NEW e \in broker \cup {w},
                      d.op = e.op, d.op # "binding", d.name = e.name
               PROVE  d = e
    BY <1>3 DEF Unique
  <2>1. CASE d \in broker /\ e \in broker
    BY <1>1, <2>1 DEF Unique
  <2>2. CASE d \in broker /\ e = w
    BY <1>5, <2>2
  <2>3. CASE d = w /\ e \in broker
    BY <1>5, <2>3
  <2> QED
    BY <2>1, <2>2, <2>3
<1>8. TTLsTaken'
  <2> HIDE DEF w
  <2> QED
    BY <1>1, <1>3, <1>6 DEF TTLsTaken, Queues
<1>9. ASSUME NEW r \in Processes, NEW i \in Declared(r)'
      PROVE  DeclareTopology(settings[r])[i] \in broker'
  <2>1. CASE r # p
    <3>1. state'[r] = state[r] /\ step'[r] = step[r]
      BY <1>1, <2>1 DEF Declare, TypeOK
    <3>2. i \in Declared(r)
      BY <1>3, <1>9, <3>1 DEF Declared
    <3> QED
      BY <1>1, <1>3, <3>2 DEF Kept
  <2>2. CASE r = p
    <3>1. i \in Declared(p) \/ i = step[p]
      <4>1. CASE state[p] = "reconnecting"
        <5>1. Declared(p) = 1..n
          BY <4>1 DEF Declared, OnceUp
        <5>2. state'[p] \in OnceUp
          BY <1>1, <4>1 DEF Declare, TypeOK, OnceUp
        <5>3. state'[p] # "starting"
          BY <5>2 DEF OnceUp
        <5>4. Declared(p)' = 1..n
          BY <1>3, <5>2, <5>3 DEF Declared
        <5> QED
          BY <1>9, <2>2, <5>1, <5>4
      <4>2. CASE state[p] = "starting"
        <5>1. Declared(p) = 1..(step[p] - 1)
          BY <4>2 DEF Declared
        <5>2. CASE step[p] = n
          <6>1. state'[p] = "up"
            BY <1>1, <5>2 DEF Declare, TypeOK
          <6>2. Declared(p)' = 1..n
            BY <1>3, <6>1 DEF Declared, OnceUp
          <6> QED
            BY <1>2, <1>9, <2>2, <5>1, <5>2, <6>2
        <5>3. CASE step[p] # n
          <6>1. step'[p] = step[p] + 1 /\ state'[p] = "starting"
            BY <1>1, <4>2, <5>3 DEF Declare, TypeOK
          <6>2. Declared(p)' = 1..step[p]
            BY <1>2, <6>1 DEF Declared
          <6> QED
            BY <1>2, <1>9, <2>2, <5>1, <6>2
        <5> QED
          BY <5>2, <5>3
      <4> QED
        BY <4>1, <4>2 DEF Declare, Declaring
    <3>2. CASE i \in Declared(p)
      BY <1>1, <1>3, <2>2, <3>2 DEF Kept
    <3>3. CASE i = step[p]
      BY <1>3, <2>2, <3>3 DEF Wanted
    <3> QED
      BY <3>1, <3>2, <3>3
  <2> QED
    BY <2>1, <2>2
<1>10. Kept'
  BY <1>3, <1>9 DEF Kept
<1> QED
  BY <1>7, <1>8, <1>10

THEOREM NextInv == Inv /\ [Next]_vars => Inv'
<1> SUFFICES ASSUME Inv, [Next]_vars PROVE Inv'
  OBVIOUS
<1>1. TypeOK /\ TypeOK'
  BY TypeStep DEF Inv
<1>2. ASSUME NEW p \in Processes, Start(p) PROVE Inv'
  <2>1. PICK s \in Settings : settings' = [settings EXCEPT ![p] = s]
    BY <1>2 DEF Start
  <2>2. ASSUME NEW r \in Processes, NEW i \in Declared(r)'
        PROVE  i \in Declared(r) /\ settings'[r] = settings[r]
    <3>1. CASE r = p
      <4>1. state'[p] = "starting" /\ step'[p] = 1
        BY <1>1, <1>2 DEF Start, Begin, TypeOK
      <4>2. Declared(p)' = 1..0
        BY <4>1 DEF Declared
      <4> QED
        BY <2>2, <3>1, <4>2
    <3>2. CASE r # p
      <4>1. state'[r] = state[r] /\ step'[r] = step[r] /\ settings'[r] = settings[r]
        BY <1>1, <1>2, <2>1, <3>2 DEF Start, Begin, TypeOK
      <4> QED
        BY <2>2, <4>1 DEF Declared
    <3> QED
      BY <3>1, <3>2
  <2> QED
    BY <1>1, <1>2, <2>2, SameBroker DEF Start
<1>3. ASSUME NEW p \in Processes, Reconnect(p) PROVE Inv'
  <2>1. ASSUME NEW r \in Processes, NEW i \in Declared(r)'
        PROVE  i \in Declared(r)
    <3>1. CASE r = p
      <4>1. state[p] = "cut" /\ state'[p] = "reconnecting" /\ settings' = settings
        BY <1>1, <1>3 DEF Reconnect, Begin, TypeOK
      <4>2. Declared(p)' = Declared(p)
        BY <4>1 DEF Declared, OnceUp
      <4> QED
        BY <2>1, <3>1, <4>2
    <3>2. CASE r # p
      <4>1. state'[r] = state[r] /\ step'[r] = step[r] /\ settings' = settings
        BY <1>1, <1>3, <3>2 DEF Reconnect, Begin, TypeOK
      <4> QED
        BY <2>1, <4>1 DEF Declared
    <3> QED
      BY <3>1, <3>2
  <2> QED
    BY <1>1, <1>3, <2>1, SameBroker DEF Reconnect
<1>4. ASSUME NEW p \in Processes, Declare(p) PROVE Inv'
  <2>1. CASE tampering = 0
    BY <1>1, <1>4, <2>1, DeclareStep DEF Inv
  <2>2. CASE tampering # 0
    BY <1>1, <1>4, <2>2 DEF Inv, Untouched, Declare
  <2> QED
    BY <2>1, <2>2
<1>5. ASSUME NEW p \in Processes, Refused(p) PROVE Inv'
  <2>1. ASSUME NEW r \in Processes
        PROVE  Declared(r)' \subseteq Declared(r)
    <3>1. \/ state'[r] = state[r]
          \/ state'[r] = "refused"
          \/ state[r] = "reconnecting" /\ state'[r] = "cut"
      BY <1>1, <1>5 DEF Refused, TypeOK, Declaring
    <3> QED
      BY <1>1, <1>5, <3>1, SameDeclared DEF Refused, OnceUp
  <2> QED
    BY <1>1, <1>5, <2>1, SameBroker DEF Refused
<1>6. ASSUME NEW p \in Processes, LoseConnection(p) PROVE Inv'
  <2>1. ASSUME NEW r \in Processes
        PROVE  Declared(r)' \subseteq Declared(r)
    <3>1. state'[r] = state[r] \/ state'[r] = AfterLoss(state[r])
      BY <1>1, <1>6 DEF LoseConnection, TypeOK
    <3>2. state[r] \in Declaring \cup OnceUp \cup {"down", "refused"}
      BY <1>1 DEF TypeOK
    <3>3. \/ state'[r] = state[r]
          \/ state'[r] \in {"down", "refused"}
          \/ state[r] \in OnceUp /\ state'[r] \in OnceUp
      BY <3>1, <3>2, AfterLossType
    <3> QED
      BY <1>1, <1>6, <3>3, SameDeclared DEF LoseConnection, OnceUp
  <2> QED
    BY <1>1, <1>6, <2>1, SameBroker DEF LoseConnection
<1>7. ASSUME NEW p \in Processes, Stop(p) PROVE Inv'
  <2>1. ASSUME NEW r \in Processes
        PROVE  Declared(r)' \subseteq Declared(r)
    <3>1. state'[r] = state[r] \/ state'[r] = "down"
      BY <1>1, <1>7 DEF Stop, TypeOK
    <3> QED
      BY <1>1, <1>7, <3>1, SameDeclared DEF Stop, OnceUp
  <2> QED
    BY <1>1, <1>7, <2>1, SameBroker DEF Stop
<1>8. CASE RestartBroker
  <2>1. broker' = broker
    BY <1>1, <1>8, BrokerShape DEF RestartBroker, TypeOK
  <2>2. ASSUME NEW r \in Processes
        PROVE  Declared(r)' \subseteq Declared(r)
    <3>1. state'[r] = AfterLoss(state[r])
      BY <1>8 DEF RestartBroker
    <3>2. state[r] \in Declaring \cup OnceUp \cup {"down", "refused"}
      BY <1>1 DEF TypeOK
    <3>3. \/ state'[r] \in {"down", "refused"}
          \/ state[r] \in OnceUp /\ state'[r] \in OnceUp
      BY <3>1, <3>2, AfterLossType
    <3> QED
      BY <1>1, <1>8, <3>3, SameDeclared DEF RestartBroker, OnceUp
  <2> QED
    BY <1>1, <1>8, <2>1, <2>2, SameBroker DEF RestartBroker
<1>9. ASSUME NEW d \in broker, Delete(d) PROVE Inv'
  BY <1>1, <1>9 DEF Delete, Inv, Untouched, TypeOK
<1>10. ASSUME NEW q \in Queues, NEW s \in Settings, Recreate(q, QueueArgs(s))
       PROVE  Inv'
  BY <1>1, <1>10 DEF Recreate, Inv, Untouched, TypeOK
<1>11. CASE UNCHANGED vars
  BY <1>1, <1>11, SameBroker DEF vars, processVars, Declared
<1> QED
  BY <1>2, <1>3, <1>4, <1>5, <1>6, <1>7, <1>8, <1>9, <1>10, <1>11
     DEF Next, ProcessStep

THEOREM InvHolds == Spec => []Inv
  BY InitInv, NextInv, PTL DEF Spec
-----------------------------------------------------------------------------
(***************************************************************************)
(* What the invariant is for.                                              *)
(***************************************************************************)

\* What a process that has been up has declared is still there.
LEMMA HasAll ==
  ASSUME Inv, Untouched, NEW p \in Processes, state[p] \in OnceUp
  PROVE  LET s == settings[p]
         IN  /\ s \in Settings
             /\ Exchange(s.exchange, "direct") \in broker
             /\ Queue(s.queue, QueueArgs(s)) \in broker
             /\ Binding(s.queue, "", s.exchange) \in broker
             /\ HasDeadLetters(s) =>
                   /\ Exchange(s.dlx, "fanout") \in broker
                   /\ Queue(s.dlq, NoArgs) \in broker
                   /\ Binding(s.dlq, DLQKey(s), s.dlx) \in broker
<1> DEFINE s == settings[p]
           t == DeclareTopology(s)
<1>1. s \in Settings
  BY DEF Inv, TypeOK
<1>2. \A i \in 1..Len(t) : t[i] \in broker
  BY DEF Inv, Kept, Declared, OnceUp
<1>3. /\ t[1] = Exchange(s.exchange, "direct")
      /\ t[2] = Queue(s.queue, QueueArgs(s))
      /\ t[3] = Binding(s.queue, "", s.exchange)
  BY <1>1, TopologyShape
<1>4. HasDeadLetters(s) =>
        /\ Len(t) = 6
        /\ t[4] = Exchange(s.dlx, "fanout")
        /\ t[5] = Queue(s.dlq, NoArgs)
        /\ t[6] = Binding(s.dlq, DLQKey(s), s.dlx)
  BY <1>1, TopologyShape
<1>5. Len(t) \in {3, 6}
  BY <1>1, TopologyShape
<1> HIDE DEF s, t
<1>6. t[1] \in broker /\ t[2] \in broker /\ t[3] \in broker
  BY <1>2, <1>5
<1>7. HasDeadLetters(s) => t[4] \in broker /\ t[5] \in broker /\ t[6] \in broker
  <2> SUFFICES ASSUME HasDeadLetters(s)
               PROVE  t[4] \in broker /\ t[5] \in broker /\ t[6] \in broker
    OBVIOUS
  <2>1. Len(t) = 6
    BY <1>4
  <2>2. 4 \in 1..Len(t) /\ 5 \in 1..Len(t) /\ 6 \in 1..Len(t)
    BY <2>1
  <2> QED
    BY <1>2, <2>2
<1> QED
  BY <1>1, <1>3, <1>4, <1>6, <1>7 DEF s

\* A binding of an exchange is a route to its queue, under its key and, if the
\* exchange is a fanout, under every key.
LEMMA BindingRoutes ==
  ASSUME NEW q, NEW k, NEW x, NEW key,
         Binding(q, k, x) \in broker,
         k = key \/ Exchange(x, "fanout") \in broker
  PROVE  q \in Routes(x, key)
<1> DEFINE b == Binding(q, k, x)
<1>1. b \in Bindings /\ b.exchange = x /\ b.key = k /\ b.queue = q
  BY DEF Bindings, Binding
<1>2. k = key \/ Exchange(x, "fanout") \in Exchanges
  BY DEF Exchanges, Exchange
<1> HIDE DEF b
<1>3. b \in {c \in Bindings : /\ c.exchange = x
                             /\ \/ c.key = key
                                \/ Exchange(x, "fanout") \in Exchanges}
  BY <1>1, <1>2
<1> QED
  BY <1>1, <1>3 DEF Routes

\* The state has its type.
THEOREM TypeCorrect == Spec => []TypeOK
<1>1. Inv => TypeOK
  BY DEF Inv
<1> QED
  BY <1>1, InvHolds, PTL

\* Whatever settings the processes have, and however they start, are cut off
\* and stop: one that has been up has a way through the broker
\* (DeclareTopology).
THEOREM Wired == Spec => []WiredOnceUp
<1>1. Inv => WiredOnceUp
  <2> SUFFICES ASSUME Inv, NEW p \in Processes, Untouched, state[p] \in OnceUp
               PROVE  settings[p].queue \in Routes(settings[p].exchange, "")
    BY DEF WiredOnceUp
  <2>1. Binding(settings[p].queue, "", settings[p].exchange) \in broker
    BY HasAll
  <2> QED
    BY <2>1, BindingRoutes
<1> QED
  BY <1>1, InvHolds, PTL

\* Dead letters go to the queue they are meant for.
THEOREM DeadLetters == Spec => []DeadLettersKept
<1>1. Inv => DeadLettersKept
  <2> SUFFICES ASSUME Inv, NEW p \in Processes, Untouched, state[p] \in OnceUp,
                      settings[p].dlx # "", settings[p].dlq # ""
               PROVE  \E q \in Queues :
                         /\ q.name = settings[p].queue
                         /\ q.args.dlx = settings[p].dlx
                         /\ settings[p].dlq \in Routes(q.args.dlx, q.args.key)
    BY DEF DeadLettersKept
  <2> DEFINE s == settings[p]
             q == Queue(s.queue, QueueArgs(s))
  <2>1. /\ q \in broker
        /\ Exchange(s.dlx, "fanout") \in broker
        /\ Binding(s.dlq, DLQKey(s), s.dlx) \in broker
    BY HasAll DEF HasDeadLetters
  <2>2. q \in Queues /\ q.name = s.queue /\ q.args.dlx = s.dlx
    BY <2>1 DEF Queues, Queue, QueueArgs
  <2>3. s.dlq \in Routes(s.dlx, q.args.key)
    BY <2>1, BindingRoutes
  <2> HIDE DEF q
  <2> QED
    BY <2>2, <2>3
<1> QED
  BY <1>1, InvHolds, PTL

\* A TTL that is an int and less than 2^32 ms is kept as it was configured
\* (rabbitmq.go:271).
THEOREM TTLs == Spec => []TTLHonoured
<1>1. Inv => TTLHonoured
  <2> SUFFICES ASSUME Inv, NEW p \in Processes, NEW q \in Queues, Untouched,
                      state[p] \in OnceUp, q.name = settings[p].queue
               PROVE  \/ q.args.ttl = IF settings[p].ttl > 0
                                      THEN <<settings[p].ttl>> ELSE <<>>
                      \/ settings[p].ttl >= 2 * Half
    BY DEF TTLHonoured
  <2> DEFINE s == settings[p]
  <2>1. s \in Settings /\ Queue(s.queue, QueueArgs(s)) \in broker
    BY HasAll
  <2>2. s.ttl \in Int
    BY <2>1, TopologyAssumption
  <2>3. q = Queue(s.queue, QueueArgs(s))
    BY <2>1 DEF Inv, Unique, Queues, Queue
  <2>4. q.args.ttl = IF s.ttl > 0 THEN <<Int32(s.ttl)>> ELSE <<>>
    BY <2>3 DEF Queue, QueueArgs
  <2>5. CASE s.ttl > 0 /\ s.ttl < 2 * Half
    <3>1. q.args.ttl = <<Int32(s.ttl)>>
      BY <2>4, <2>5
    <3>2. q.args.ttl[1] >= 0
      BY <3>1 DEF Inv, TTLsTaken
    <3>3. Int32(s.ttl) >= 0
      BY <3>1, <3>2
    <3>4. Int32(s.ttl) = s.ttl
      BY <2>2, <2>5, <3>3, Int32Exact
    <3> QED
      BY <2>5, <3>1, <3>4
  <2>6. CASE s.ttl <= 0
    BY <2>2, <2>4, <2>6
  <2>7. CASE s.ttl >= 2 * Half
    BY <2>7
  <2> QED
    BY <2>2, <2>5, <2>6, <2>7, ConfigAssumption
<1> QED
  BY <1>1, InvHolds, PTL

\* "DeclareTopology is idempotent, so safe to call after reconnect"
\* (rabbitmq.go:180): none of its calls is refused.
THEOREM Redeclare == Spec => []RedeclareAccepted
<1>1. Inv => RedeclareAccepted
  <2> SUFFICES ASSUME Inv, NEW p \in Processes, Untouched,
                      state[p] = "reconnecting"
               PROVE  Accepts(Wanted(p))
    BY DEF RedeclareAccepted
  <2> DEFINE s == settings[p]
             t == DeclareTopology(s)
             w == t[step[p]]
  <2>1. state[p] \in OnceUp /\ state[p] \in Declaring
    BY DEF OnceUp, Declaring
  <2>2. /\ s \in Settings
        /\ Exchange(s.exchange, "direct") \in broker
        /\ Queue(s.queue, QueueArgs(s)) \in broker
        /\ HasDeadLetters(s) =>
              Exchange(s.dlx, "fanout") \in broker /\ Queue(s.dlq, NoArgs) \in broker
    BY <2>1, HasAll
  <2>3. step[p] \in 1..Len(t)
    BY <2>1 DEF Inv, TypeOK
  <2>4. w \in broker
    BY <2>1, <2>3 DEF Inv, Kept, Declared
  <2>5. CASE w.op = "exchange"
    BY <2>4, <2>5 DEF Inv, Unique, Accepts, Exchanges, Wanted
  <2>6. CASE w.op = "queue"
    BY <2>4, <2>6 DEF Inv, Unique, TTLsTaken, Accepts, Queues, Wanted
  <2>7. CASE w.op = "binding"
    <3>1. \/ w = Binding(s.queue, "", s.exchange)
          \/ HasDeadLetters(s) /\ w = Binding(s.dlq, DLQKey(s), s.dlx)
      <4>1. /\ t[1].op = "exchange" /\ t[2].op = "queue"
            /\ t[3] = Binding(s.queue, "", s.exchange)
        <5>1. /\ t[1] = Exchange(s.exchange, "direct")
              /\ t[2] = Queue(s.queue, QueueArgs(s))
              /\ t[3] = Binding(s.queue, "", s.exchange)
          BY <2>2, TopologyShape
        <5>2. /\ Exchange(s.exchange, "direct").op = "exchange"
              /\ Queue(s.queue, QueueArgs(s)).op = "queue"
          BY DEF Exchange, Queue
        <5> HIDE DEF s, t
        <5> QED
          BY <5>1, <5>2
      <4>2. ~HasDeadLetters(s) => Len(t) = 3
        BY <2>2, TopologyShape
      <4>3. HasDeadLetters(s) =>
              /\ Len(t) = 6
              /\ t[4].op = "exchange" /\ t[5].op = "queue"
              /\ t[6] = Binding(s.dlq, DLQKey(s), s.dlx)
        <5>1. HasDeadLetters(s) =>
                /\ Len(t) = 6
                /\ t[4] = Exchange(s.dlx, "fanout")
                /\ t[5] = Queue(s.dlq, NoArgs)
                /\ t[6] = Binding(s.dlq, DLQKey(s), s.dlx)
          BY <2>2, TopologyShape
        <5>2. Exchange(s.dlx, "fanout").op = "exchange" /\ Queue(s.dlq, NoArgs).op = "queue"
          BY DEF Exchange, Queue
        <5> HIDE DEF s, t
        <5> QED
          BY <5>1, <5>2
      <4> HIDE DEF s, t
      <4>4. CASE HasDeadLetters(s)
        <5>1. Len(t) = 6
          BY <4>3, <4>4
        <5>2. step[p] \in {1, 2, 3, 4, 5, 6}
          BY <2>3, <5>1
        <5> QED
          BY <2>7, <4>1, <4>3, <4>4, <5>2
      <4>5. CASE ~HasDeadLetters(s)
        <5>1. Len(t) = 3
          BY <4>2, <4>5
        <5>2. step[p] \in {1, 2, 3}
          BY <2>3, <5>1
        <5> QED
          BY <2>7, <4>1, <5>2
      <4> QED
        BY <4>4, <4>5
    <3>2. /\ \E x \in Exchanges : x.name = w.exchange
          /\ \E q \in Queues : q.name = w.queue
      <4>1. \A x, type : Exchange(x, type) \in broker =>
                            \E e \in Exchanges : e.name = x
        BY DEF Exchanges, Exchange
      <4>2. \A q, args : Queue(q, args) \in broker =>
                            \E e \in Queues : e.name = q
        BY DEF Queues, Queue
      <4>3. \A q, k, x : Binding(q, k, x).queue = q /\ Binding(q, k, x).exchange = x
        BY DEF Binding
      <4> HIDE DEF s, w
      <4>4. CASE w = Binding(s.queue, "", s.exchange)
        <5>1. w.exchange = s.exchange /\ w.queue = s.queue
          BY <4>4 DEF Binding
        <5> QED
          BY <2>2, <4>1, <4>2, <5>1
      <4>5. CASE HasDeadLetters(s) /\ w = Binding(s.dlq, DLQKey(s), s.dlx)
        BY <2>2, <4>1, <4>2, <4>3, <4>5
      <4> QED
        BY <3>1, <4>4, <4>5
    <3> QED
      BY <2>7, <3>2 DEF Accepts, Wanted
  <2>8. w \in Declarations
    BY <2>4 DEF Inv, TypeOK
  <2> QED
    BY <2>5, <2>6, <2>7, <2>8, BrokerShape
<1> QED
  BY <1>1, InvHolds, PTL
-----------------------------------------------------------------------------
(***************************************************************************)
(* Why a process is refused.                                               *)
(***************************************************************************)

\* As long as no operator touches it, the broker has nothing that nobody asked
\* for.
Asked ==
    \A d \in broker : \E s \in Settings : \E j \in 1..Len(DeclareTopology(s)) :
        d = DeclareTopology(s)[j]

CauseInv == Inv /\ (Untouched => Asked) /\ RefusedForCause

\* A binding is declared after the two that it binds.
LEMMA BindingAccepted ==
  ASSUME NEW s \in Settings, NEW i \in 1..Len(DeclareTopology(s)),
         DeclareTopology(s)[i].op = "binding",
         \A j \in 1..(i - 1) : DeclareTopology(s)[j] \in broker
  PROVE  Accepts(DeclareTopology(s)[i])
<1> DEFINE t == DeclareTopology(s)
<1>1. /\ Len(t) \in {3, 6}
      /\ t[1].op = "exchange" /\ t[1].name = s.exchange
      /\ t[2].op = "queue" /\ t[2].name = s.queue
      /\ t[3].queue = s.queue /\ t[3].exchange = s.exchange
      /\ Len(t) = 6 =>
            /\ t[4].op = "exchange" /\ t[4].name = s.dlx
            /\ t[5].op = "queue" /\ t[5].name = s.dlq
            /\ t[6].queue = s.dlq /\ t[6].exchange = s.dlx
  BY TopologyCalls
<1>2. /\ i \in 1..Len(t) /\ t[i].op = "binding"
      /\ \A j \in 1..(i - 1) : t[j] \in broker
  OBVIOUS
<1> HIDE DEF t
<1>3. i = 3 \/ (i = 6 /\ Len(t) = 6)
  <2>1. i \in {1, 2, 3} \/ (Len(t) = 6 /\ i \in {4, 5, 6})
    BY <1>1, <1>2
  <2> QED
    BY <1>1, <1>2, <2>1
<1>4. /\ \E x \in Exchanges : x.name = t[i].exchange
      /\ \E q \in Queues : q.name = t[i].queue
  <2>1. CASE i = 3
    <3>1. t[1] \in broker /\ t[2] \in broker
      BY <1>2, <2>1
    <3> QED
      BY <1>1, <2>1, <3>1 DEF Exchanges, Queues
  <2>2. CASE i = 6 /\ Len(t) = 6
    <3>1. t[4] \in broker /\ t[5] \in broker
      BY <1>2, <2>2
    <3> QED
      BY <1>1, <2>2, <3>1 DEF Exchanges, Queues
  <2> QED
    BY <1>3, <2>1, <2>2
<1>5. Accepts(t[i])
  BY <1>2, <1>4 DEF Accepts
<1> QED
  BY <1>5 DEF t

\* What the broker does not take has a cause.
LEMMA CauseFound ==
  ASSUME Inv, Untouched, Asked, NEW p \in Processes, state[p] = "starting",
         ~Accepts(Wanted(p))
  PROVE  HasCause(p)
<1> DEFINE s == settings[p]
           i == step[p]
           w == Wanted(p)
<1>1. /\ s \in Settings /\ w \in Declarations /\ i \in 1..Len(DeclareTopology(s))
      /\ w = DeclareTopology(s)[i]
  BY WantedType DEF Inv, TypeOK, Declaring, Wanted
<1>2. \A j \in 1..(i - 1) : DeclareTopology(s)[j] \in broker
  BY DEF Inv, Kept, Declared
<1>3. w.op \in {"exchange", "queue"}
  BY <1>1, <1>2, BindingAccepted, BrokerShape
<1>4. CASE \E e \in broker : InTheWay(w, e)
  <2>1. PICK e \in broker : InTheWay(w, e)
    BY <1>4
  <2>2. \E r \in Settings : \E j \in 1..Len(DeclareTopology(r)) :
           e = DeclareTopology(r)[j]
    BY <2>1 DEF Asked
  <2> QED
    BY <1>1, <2>1, <2>2 DEF HasCause
<1>5. CASE w.op = "queue" /\ w.args.ttl # <<>> /\ ~(w.args.ttl[1] >= 0)
  <2>1. w.args \in Args
    BY <1>1, <1>5 DEF Declarations
  <2>2. w.args.ttl \in Seq(Int)
    BY <2>1 DEF Args
  <2>3. w.args.ttl[1] \in Int
    BY <1>5, <2>2
  <2>4. w.args.ttl[1] < 0
    BY <1>5, <2>3
  <2> QED
    BY <1>1, <1>5, <2>4 DEF HasCause
<1>6. CASE w.op = "exchange"
  <2>1. \E e \in Exchanges : e.name = w.name /\ e # w
    BY <1>6 DEF Accepts
  <2> QED
    BY <1>4, <1>6, <2>1 DEF Exchanges, InTheWay
<1>7. CASE w.op = "queue"
  <2>1. \/ \E e \in Queues : e.name = w.name /\ e # w
        \/ w.args.ttl # <<>> /\ ~(w.args.ttl[1] >= 0)
    BY <1>7 DEF Accepts
  <2> QED
    BY <1>4, <1>5, <1>7, <2>1 DEF Queues, InTheWay
<1> QED
  BY <1>3, <1>6, <1>7

\* A cause does not go away.
LEMMA CauseStays ==
  ASSUME NEW p \in Processes, HasCause(p), settings'[p] = settings[p],
         broker \subseteq broker'
  PROVE  HasCause(p)'
  BY DEF HasCause

LEMMA CauseNext == CauseInv /\ [Next]_vars => CauseInv'
<1> SUFFICES ASSUME CauseInv, [Next]_vars, Untouched'
             PROVE  Asked' /\ \A r \in Processes :
                                 state'[r] = "refused" => HasCause(r)'
  BY NextInv DEF CauseInv, RefusedForCause
<1>1. Inv /\ TypeOK /\ TypeOK'
  BY NextInv DEF CauseInv, Inv
<1>2. Untouched /\ ~(\E d \in broker : Delete(d))
      /\ ~(\E q \in Queues : \E s \in Settings : Recreate(q, QueueArgs(s)))
  <2>1. tampering \in Nat
    BY <1>1, TopologyAssumption DEF TypeOK
  <2>2. tampering' = tampering \/ tampering' = tampering + 1
    BY DEF Next, ProcessStep, Start, Reconnect, Declare, Refused, LoseConnection,
           Stop, RestartBroker, Delete, Recreate, vars
  <2> QED
    BY <2>1, <2>2 DEF Untouched, Delete, Recreate
<1>3. Asked /\ \A r \in Processes : state[r] = "refused" => HasCause(r)
  BY <1>2 DEF CauseInv, RefusedForCause
\* Everybody but those who are refused just now.
<1>4. ASSUME broker \subseteq broker',
             \A d \in broker' \ broker :
                 \E s \in Settings : \E j \in 1..Len(DeclareTopology(s)) :
                     d = DeclareTopology(s)[j],
             \A r \in Processes : state'[r] = "refused" =>
                 \/ state[r] = "refused" /\ settings'[r] = settings[r]
                 \/ HasCause(r)'
      PROVE  Asked' /\ \A r \in Processes : state'[r] = "refused" => HasCause(r)'
  BY <1>3, <1>4, CauseStays DEF Asked
<1>5. ASSUME NEW p \in Processes, Start(p)
      PROVE  Asked' /\ \A r \in Processes : state'[r] = "refused" => HasCause(r)'
  <2>1. /\ broker' = broker /\ state' = [state EXCEPT ![p] = "starting"]
        /\ \E s \in Settings : settings' = [settings EXCEPT ![p] = s]
    BY <1>5 DEF Start, Begin
  <2>2. \A r \in Processes : state'[r] = "refused" =>
           state[r] = "refused" /\ settings'[r] = settings[r]
    BY <1>1, <2>1 DEF TypeOK
  <2> QED
    BY <1>4, <2>1, <2>2
<1>6. ASSUME NEW p \in Processes, Reconnect(p)
      PROVE  Asked' /\ \A r \in Processes : state'[r] = "refused" => HasCause(r)'
  <2>1. /\ broker' = broker /\ settings' = settings
        /\ state' = [state EXCEPT ![p] = "reconnecting"]
    BY <1>6 DEF Reconnect, Begin
  <2>2. \A r \in Processes : state'[r] = "refused" => state[r] = "refused"
    BY <1>1, <2>1 DEF TypeOK
  <2> QED
    BY <1>4, <2>1, <2>2
<1>7. ASSUME NEW p \in Processes, Declare(p)
      PROVE  Asked' /\ \A r \in Processes : state'[r] = "refused" => HasCause(r)'
  <2>1. /\ broker' = broker \cup {Wanted(p)} /\ settings' = settings
        /\ state' = [state EXCEPT ![p] = "up"] \/ state' = state
    BY <1>7 DEF Declare
  <2>2. \A r \in Processes : state'[r] = "refused" => state[r] = "refused"
    BY <1>1, <2>1 DEF TypeOK
  <2>3. /\ settings[p] \in Settings
        /\ step[p] \in 1..Len(DeclareTopology(settings[p]))
        /\ Wanted(p) = DeclareTopology(settings[p])[step[p]]
    BY <1>1, <1>7, WantedType DEF Declare, TypeOK, Wanted
  <2> QED
    BY <1>4, <2>1, <2>2, <2>3
<1>8. ASSUME NEW p \in Processes, Refused(p)
      PROVE  Asked' /\ \A r \in Processes : state'[r] = "refused" => HasCause(r)'
  <2>1. /\ broker' = broker /\ settings' = settings
        /\ state[p] \in Declaring /\ ~Accepts(Wanted(p))
        /\ state' = [state EXCEPT ![p] =
                        IF state[p] = "starting" THEN "refused" ELSE "cut"]
    BY <1>8 DEF Refused
  <2>2. ASSUME NEW r \in Processes, state'[r] = "refused", state[r] # "refused"
        PROVE  HasCause(r)'
    <3>1. r = p /\ state[p] = "starting"
      BY <1>1, <2>1, <2>2 DEF TypeOK
    <3>2. HasCause(p)
      BY <1>1, <1>2, <1>3, <2>1, <3>1, CauseFound
    <3> QED
      BY <2>1, <3>1, <3>2, CauseStays
  <2> QED
    BY <1>4, <2>1, <2>2
<1>9. ASSUME NEW p \in Processes, LoseConnection(p) \/ Stop(p)
      PROVE  Asked' /\ \A r \in Processes : state'[r] = "refused" => HasCause(r)'
  <2>1. /\ broker' = broker /\ settings' = settings
        /\ \/ state' = [state EXCEPT ![p] = AfterLoss(state[p])]
           \/ state' = [state EXCEPT ![p] = "down"]
    BY <1>9 DEF LoseConnection, Stop
  <2>2. \A r \in Processes : state'[r] = "refused" => state[r] = "refused"
    BY <1>1, <2>1 DEF TypeOK, AfterLoss, Declaring
  <2> QED
    BY <1>4, <2>1, <2>2
<1>10. CASE RestartBroker
  <2>1. /\ broker' = broker /\ settings' = settings
        /\ state' = [r \in Processes |-> AfterLoss(state[r])]
    BY <1>1, <1>10, BrokerShape DEF RestartBroker, TypeOK
  <2>2. \A r \in Processes : state'[r] = "refused" => state[r] = "refused"
    BY <2>1 DEF AfterLoss, Declaring
  <2> QED
    BY <1>4, <2>1, <2>2
<1>11. CASE UNCHANGED vars
  BY <1>4, <1>11 DEF vars, processVars
<1> QED
  BY <1>2, <1>5, <1>6, <1>7, <1>8, <1>9, <1>10, <1>11 DEF Next, ProcessStep

\* A process that exits because a declaration is refused (rabbitmq.go:76, :180)
\* asks for a negative TTL, or for what a configuration declares differently.
THEOREM Refusals == Spec => []RefusedForCause
<1>1. Init => CauseInv
  <2>1. Init => Asked
    BY DEF Init, Asked
  <2>2. Init => RefusedForCause
    BY DEF Init, RefusedForCause
  <2> QED
    BY <2>1, <2>2, InitInv DEF CauseInv
<1>2. CauseInv => RefusedForCause
  BY DEF CauseInv
<1> QED
  BY <1>1, <1>2, CauseNext, PTL DEF Spec

\* Servers and workers whose configurations agree on what they name never keep
\* each other from starting, whatever the order in which they do and whatever
\* happens to them: DeclareTopology needs no coordination.
THEOREM OneTopology == Spec => []NoneRefused
<1>1. Inv /\ RefusedForCause => NoneRefused
  <2> SUFFICES ASSUME Inv, RefusedForCause, Agreeing, Untouched,
                      NEW p \in Processes, state[p] = "refused"
               PROVE  FALSE
    BY DEF NoneRefused
  <2> DEFINE s == settings[p]
  <2>1. HasCause(p)
    BY DEF RefusedForCause
  <2>2. s \in Settings
    BY DEF Inv, TypeOK
  <2>3. PICK i \in 1..Len(DeclareTopology(s)) :
          \/ /\ DeclareTopology(s)[i].op = "queue"
             /\ DeclareTopology(s)[i].args.ttl # <<>>
             /\ DeclareTopology(s)[i].args.ttl[1] < 0
          \/ \E r \in Settings : \E j \in 1..Len(DeclareTopology(r)) :
                InTheWay(DeclareTopology(s)[i], DeclareTopology(r)[j])
    BY <2>1 DEF HasCause
  <2>4. /\ DeclareTopology(s)[i].op = "queue"
        /\ DeclareTopology(s)[i].args.ttl # <<>>
        /\ DeclareTopology(s)[i].args.ttl[1] < 0
    BY <2>2, <2>3 DEF Agreeing
  <2>5. DeclareTopology(s)[i].args \in {QueueArgs(s), NoArgs}
    BY <2>2, <2>4, QueueElements
  <2>6. DeclareTopology(s)[i].args.ttl = <<Int32(s.ttl)>>
    <3>1. NoArgs.ttl = <<>>
      BY DEF NoArgs
    <3>2. QueueArgs(s).ttl \in {<<Int32(s.ttl)>>, <<>>}
      BY DEF QueueArgs
    <3> QED
      BY <2>4, <2>5, <3>1, <3>2
  <2>7. Int32(s.ttl) < 0 /\ Int32(s.ttl) >= 0
    BY <2>2, <2>4, <2>6 DEF Agreeing
  <2>8. Int32(s.ttl) \in Int
    BY <2>2, TopologyAssumption, Int32Type
  <2> QED
    BY <2>7, <2>8
<1> QED
  BY <1>1, InvHolds, Refusals, PTL
=============================================================================

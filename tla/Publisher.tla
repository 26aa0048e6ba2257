----------------------------- MODULE Publisher -----------------------------
(***************************************************************************)
(* The RabbitMQ publisher of the HTTP server (internal/queue/rabbitmq.go). *)
(* One value of type RabbitMQ is shared by every request: all handler      *)
(* goroutines read and write r.conn and r.ch with no lock, and each of     *)
(* them reconnects on its own when it finds either closed.  A connection   *)
(* opens exactly one channel, so both go by the connection's name.         *)
(***************************************************************************)
EXTENDS Integers, FiniteSets

CONSTANTS
    Handlers,     \* goroutines that may be inside Publish at the same time
    Conns,        \* the connections the broker will hold open at one time
    MaxAttempts,  \* maxRetries in Publish
    NoConn

ASSUME PublisherAssumption ==
    /\ MaxAttempts \in Nat \ {0}
    /\ NoConn \notin Conns
    /\ Conns # {}

VARIABLES
    link,         \* whether each connection is open
    chan,         \* whether its channel is
    rconn, rch,   \* r.conn and r.ch
    broker,       \* whether the broker accepts connections
    closing,      \* how far Close has got
    pc, attempt,
    fresh,        \* the connection a reconnect has dialled, in its local variable
    result,       \* what the last call of each handler returned
    disturbed,    \* history: during that call the broker was away or refused a
                  \* connection, or somebody else touched one
    overlapped,   \* history: two goroutines have been reconnecting at once
    reopened      \* history: one was when Close began, or has begun to since

connVars == <<link, chan, rconn, rch>>
callVars == <<pc, attempt, fresh, result>>
pastVars == <<disturbed, overlapped, reopened>>
vars == <<connVars, broker, closing, callVars, pastVars>>

Reconnecting == {"close_channel", "close_conn", "dial", "set_conn", "set_ch"}

TypeOK ==
    /\ link \in [Conns -> {"open", "closed"}]
    /\ chan \in [Conns -> {"open", "closed"}]
    /\ rconn \in Conns /\ rch \in Conns
    /\ broker \in {"up", "down"}
    /\ closing \in {"no", "channel_closed", "done"}
    /\ pc \in [Handlers -> Reconnecting \cup
                             {"idle", "check_conn", "check_ch", "send", "backoff"}]
    /\ attempt \in [Handlers -> 0..(MaxAttempts - 1)]
    /\ fresh \in [Handlers -> Conns \cup {NoConn}]
    /\ result \in [Handlers -> {"none", "nil", "error"}]
    /\ disturbed \in [Handlers -> BOOLEAN]
    /\ {overlapped, reopened} \subseteq BOOLEAN

\* NewRabbitMQ has dialled: the server does not start without a connection.
Init ==
    \E c \in Conns :
        /\ link = [d \in Conns |-> IF d = c THEN "open" ELSE "closed"]
        /\ chan = link
        /\ rconn = c /\ rch = c
        /\ broker = "up"
        /\ closing = "no"
        /\ pc = [h \in Handlers |-> "idle"]
        /\ attempt = [h \in Handlers |-> 0]
        /\ fresh = [h \in Handlers |-> NoConn]
        /\ result = [h \in Handlers |-> "none"]
        /\ disturbed = [h \in Handlers |-> FALSE]
        /\ overlapped = FALSE /\ reopened = FALSE
-----------------------------------------------------------------------------
Goto(h, label) == pc' = [pc EXCEPT ![h] = label]

InCall(h) == pc[h] # "idle"

\* Closing a connection closes its channel.
CloseLinks(C) ==
    /\ link' = [c \in Conns |-> IF c \in C THEN "closed" ELSE link[c]]
    /\ chan' = [c \in Conns |-> IF c \in C THEN "closed" ELSE chan[c]]
    /\ UNCHANGED <<rconn, rch>>

\* Every call under way, but for those of Others, is disturbed.
Disturb(Others) ==
    disturbed' = [h \in Handlers |-> disturbed[h] \/ (InCall(h) /\ h \notin Others)]

Rivals(h) == {o \in Handlers \ {h} : pc[o] \in Reconnecting}

\* A name nothing refers to stands for a connection not dialled yet.
Unused(c) ==
    /\ link[c] = "closed"
    /\ c \notin {rconn, rch}
    /\ \A h \in Handlers : fresh[h] # c

\* The broker refuses a connection beyond its limit.
Room == \E c \in Conns : Unused(c)

\* A request calls Publish.
Call(h) ==
    /\ pc[h] = "idle"
    /\ Goto(h, "check_conn")
    /\ attempt' = [attempt EXCEPT ![h] = 0]
    /\ result' = [result EXCEPT ![h] = "none"]
    /\ disturbed' = [disturbed EXCEPT ![h] = \/ broker = "down"
                                            \/ closing = "channel_closed"
                                            \/ Rivals(h) # {}]
    /\ UNCHANGED <<connVars, broker, closing, fresh, overlapped, reopened>>

\* The goroutine finds the connection or the channel closed and reconnects.
StartReconnect(h) ==
    /\ Goto(h, "close_channel")
    /\ overlapped' = (overlapped \/ closing = "channel_closed" \/ Rivals(h) # {})
    /\ reopened' = (reopened \/ closing # "no")
    /\ Disturb({h})

\* r.conn == nil || r.conn.IsClosed()
CheckConn(h) ==
    /\ pc[h] = "check_conn"
    /\ IF link[rconn] = "open"
       THEN Goto(h, "check_ch") /\ UNCHANGED pastVars
       ELSE StartReconnect(h)
    /\ UNCHANGED <<connVars, broker, closing, attempt, fresh, result>>

\* Variant: the channel is taken to live as long as its connection.
CheckChSkipped(h) ==
    /\ pc[h] = "check_ch"
    /\ Goto(h, "send")
    /\ UNCHANGED <<connVars, broker, closing, attempt, fresh, result, pastVars>>

\* || r.ch == nil || r.ch.IsClosed()
CheckCh(h) ==
    /\ pc[h] = "check_ch"
    /\ IF chan[rch] = "open"
       THEN Goto(h, "send") /\ UNCHANGED pastVars
       ELSE StartReconnect(h)
    /\ UNCHANGED <<connVars, broker, closing, attempt, fresh, result>>

\* reconnect closes whatever r.ch and r.conn refer to at that moment, which
\* another goroutine may just have put there.
CloseOldChannel(h) ==
    /\ pc[h] = "close_channel"
    /\ Goto(h, "close_conn")
    /\ chan' = [chan EXCEPT ![rch] = "closed"]
    /\ UNCHANGED <<link, rconn, rch, broker, closing, attempt, fresh, result,
                   pastVars>>

\* Variant: reconnect leaves the old connection to itself.
CloseOldConnSkipped(h) ==
    /\ pc[h] = "close_conn"
    /\ Goto(h, "dial")
    /\ UNCHANGED <<connVars, broker, closing, attempt, fresh, result, pastVars>>

CloseOldConn(h) ==
    /\ pc[h] = "close_conn"
    /\ Goto(h, "dial")
    /\ CloseLinks({rconn})
    /\ UNCHANGED <<broker, closing, attempt, fresh, result, pastVars>>

\* Dial, Channel and DeclareTopology, on a connection nobody else can see yet.
Dial(h) ==
    /\ pc[h] = "dial"
    /\ broker = "up"
    /\ \E c \in Conns :
         /\ Unused(c)
         /\ fresh' = [fresh EXCEPT ![h] = c]
         /\ link' = [link EXCEPT ![c] = "open"]
         /\ chan' = [chan EXCEPT ![c] = "open"]
    /\ Goto(h, "set_conn")
    /\ UNCHANGED <<rconn, rch, broker, closing, attempt, result, pastVars>>

\* The broker cannot be reached or refuses; Publish backs off.
DialFails(h) ==
    /\ pc[h] = "dial"
    /\ broker = "down" \/ ~Room
    /\ Goto(h, "backoff")
    /\ disturbed' = [disturbed EXCEPT ![h] = TRUE]
    /\ UNCHANGED <<connVars, broker, closing, attempt, fresh, result, overlapped, reopened>>

\* The connection is lost before Channel or DeclareTopology is done with it;
\* reconnect closes what it had opened.
DialInterrupted(h) ==
    /\ pc[h] = "dial"
    /\ Goto(h, "backoff")
    /\ Disturb({})
    /\ UNCHANGED <<connVars, broker, closing, attempt, fresh, result, overlapped, reopened>>

SetConn(h) ==
    /\ pc[h] = "set_conn"
    /\ rconn' = fresh[h]
    /\ Goto(h, "set_ch")
    /\ UNCHANGED <<link, chan, rch, broker, closing, attempt, fresh, result,
                   pastVars>>

SetCh(h) ==
    /\ pc[h] = "set_ch"
    /\ rch' = fresh[h]
    /\ fresh' = [fresh EXCEPT ![h] = NoConn]
    /\ Goto(h, "send")
    /\ UNCHANGED <<link, chan, rconn, broker, closing, attempt, result,
                   pastVars>>

\* PublishWithContext on r.ch.  It succeeds once the frames are written: there
\* are no publisher confirms.
Send(h) ==
    /\ pc[h] = "send"
    /\ IF chan[rch] = "open"
       THEN Goto(h, "idle") /\ result' = [result EXCEPT ![h] = "nil"]
       ELSE Goto(h, "backoff") /\ UNCHANGED result
    /\ UNCHANGED <<connVars, broker, closing, attempt, fresh, pastVars>>

\* Variant: one attempt too many.
BackoffLate(h) ==
    /\ pc[h] = "backoff"
    /\ IF attempt[h] < MaxAttempts
       THEN /\ Goto(h, "check_conn")
            /\ attempt' = [attempt EXCEPT ![h] = @ + 1]
            /\ UNCHANGED result
       ELSE /\ Goto(h, "idle")
            /\ result' = [result EXCEPT ![h] = "error"]
            /\ UNCHANGED attempt
    /\ UNCHANGED <<connVars, broker, closing, fresh, pastVars>>

\* Variant: the attempt is not counted.
BackoffUncounted(h) ==
    /\ pc[h] = "backoff"
    /\ Goto(h, "check_conn")
    /\ UNCHANGED <<connVars, broker, closing, attempt, fresh, result, pastVars>>

\* Sleep, and go round the loop unless that was the last attempt.
Backoff(h) ==
    /\ pc[h] = "backoff"
    /\ IF attempt[h] + 1 < MaxAttempts
       THEN /\ Goto(h, "check_conn")
            /\ attempt' = [attempt EXCEPT ![h] = @ + 1]
            /\ UNCHANGED result
       ELSE /\ Goto(h, "idle")
            /\ result' = [result EXCEPT ![h] = "error"]
            /\ UNCHANGED attempt
    /\ UNCHANGED <<connVars, broker, closing, fresh, pastVars>>
-----------------------------------------------------------------------------
\* Server.Shutdown calls Close before it waits for the requests under way.
CloseChannel ==
    /\ closing = "no"
    /\ closing' = "channel_closed"
    /\ chan' = [chan EXCEPT ![rch] = "closed"]
    /\ reopened' = \E h \in Handlers : pc[h] \in Reconnecting
    /\ Disturb({})
    /\ UNCHANGED <<link, rconn, rch, broker, callVars, overlapped>>

\* Variant: with its channel the connection is taken to be closed.
CloseConnSkipped ==
    /\ closing = "channel_closed"
    /\ closing' = "done"
    /\ UNCHANGED <<connVars, broker, callVars, pastVars>>

CloseConn ==
    /\ closing = "channel_closed"
    /\ closing' = "done"
    /\ CloseLinks({rconn})
    /\ UNCHANGED <<broker, callVars, pastVars>>

Outage ==
    /\ broker = "up"
    /\ broker' = "down"
    /\ CloseLinks(Conns)
    /\ Disturb({})
    /\ UNCHANGED <<closing, callVars, overlapped, reopened>>

BrokerBack ==
    /\ broker = "down"
    /\ broker' = "up"
    /\ Disturb({})
    /\ UNCHANGED <<connVars, closing, callVars, overlapped, reopened>>

LoseConnection(c) ==
    /\ link[c] = "open"
    /\ CloseLinks({c})
    /\ Disturb({})
    /\ UNCHANGED <<broker, closing, callVars, overlapped, reopened>>

\* The broker closes a channel, as it does on a channel-level error.
LoseChannel(c) ==
    /\ chan[c] = "open"
    /\ chan' = [chan EXCEPT ![c] = "closed"]
    /\ Disturb({})
    /\ UNCHANGED <<link, rconn, rch, broker, closing, callVars, overlapped, reopened>>

Step(h) ==
    \/ CheckConn(h) \/ CheckCh(h)
    \/ CloseOldChannel(h) \/ CloseOldConn(h)
    \/ Dial(h) \/ DialFails(h)
    \/ SetConn(h) \/ SetCh(h)
    \/ Send(h) \/ Backoff(h)

Next ==
    \/ \E h \in Handlers : Call(h) \/ Step(h) \/ DialInterrupted(h)
    \/ CloseChannel \/ CloseConn
    \/ Outage \/ BrokerBack
    \/ \E c \in Conns : LoseConnection(c) \/ LoseChannel(c)

Spec == Init /\ [][Next]_vars /\ \A h \in Handlers : WF_vars(Step(h))
-----------------------------------------------------------------------------
\* Whatever races, outages and shutdowns went before, and in whatever state
\* they left r.conn and r.ch, a call succeeds, and at its first attempt, unless
\* the broker refuses a connection, a connection is lost or another goroutine
\* reconnects while it runs: Publish repairs what it finds, and calls that do
\* not reconnect do each other no harm.
UndisturbedCallSucceeds ==
    \A h \in Handlers :
        ~disturbed[h] => result[h] # "error" /\ attempt[h] = 0

\* Connections that are open though no code can ever use or close them.
Orphans == {c \in Conns : /\ link[c] = "open"
                          /\ c \notin {rconn, rch}
                          /\ \A h \in Handlers : fresh[h] # c}

\* A connection is leaked only where two goroutines have been reconnecting at
\* the same time, or one of them during Close.
OrphansComeFromRaces == Orphans # {} => overlapped

\* Close leaves no connection open, unless reconnects overlapped, or a call was
\* reconnecting when Close began or has come to since: Close does not stop calls,
\* and the connection such a call makes is closed by nobody.
CloseClosesAll ==
    closing = "done" /\ ~overlapped /\ ~reopened
        => \A c \in Conns : link[c] = "closed"

\* Every call returns, whatever the other goroutines and the broker do.
EveryCallReturns == \A h \in Handlers : InCall(h) ~> ~InCall(h)

\* How many steps of its own a call is at most away from returning: an attempt
\* takes up to nine, through both checks, a whole reconnect, the write and the
\* pause.
StepsAfter == [check_conn |-> 9, check_ch |-> 8, close_channel |-> 7,
               close_conn |-> 6, dial |-> 5, set_conn |-> 4, set_ch |-> 3,
               send |-> 2, backoff |-> 1]

StepsLeft(h) ==
    IF InCall(h)
    THEN 9 * (MaxAttempts - 1 - attempt[h]) + StepsAfter[pc[h]]
    ELSE 0

\* No call goes round for ever: each step of the goroutine takes it nearer to its
\* return, and nothing that the broker, Close or the other goroutines do to the
\* fields they share takes it further away.
CallsEnd ==
    [][\A h \in Handlers :
          /\ StepsLeft(h) \in 0..(9 * MaxAttempts)
          /\ InCall(h) /\ <<pc[h], attempt[h]>>' # <<pc[h], attempt[h]>>
                 => StepsLeft(h)' < StepsLeft(h)]_vars
=============================================================================

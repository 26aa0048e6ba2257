-------------------------- MODULE Publisher_proofs --------------------------
(***************************************************************************)
(* Proofs about the publisher for any number of request goroutines,        *)
(* connections and attempts: a call that nobody disturbs succeeds at its   *)
(* first attempt, and connections leak only where reconnects overlap.      *)
(***************************************************************************)
EXTENDS Publisher, TLAPS

\* How far an undisturbed call has got: nobody else is reconnecting or closing,
\* and the channel it is about to write to, or to install, is open.
UndisturbedInv ==
    \A h \in Handlers :
        ~disturbed[h] =>
            /\ result[h] # "error" /\ attempt[h] = 0
            /\ InCall(h) =>
                 /\ broker = "up"
                 /\ closing # "channel_closed"
                 /\ pc[h] # "backoff"
                 /\ \A o \in Handlers \ {h} : pc[o] \notin Reconnecting
                 /\ pc[h] = "send" => chan[rch] = "open"
                 /\ pc[h] \in {"set_conn", "set_ch"} => chan[fresh[h]] = "open"

\* A goroutine has dialled a connection while it is installing it, and then only.
FreshInv ==
    \A h \in Handlers : fresh[h] # NoConn <=> pc[h] \in {"set_conn", "set_ch"}

\* Until two goroutines reconnect at once: one of them at most is replacing the
\* connection, what it overwrites is closed, and every open connection has a name.
SoleInv ==
    /\ \A h, o \in Handlers :
         pc[h] \in Reconnecting /\ pc[o] \in Reconnecting => h = o
    /\ (\A h \in Handlers : pc[h] # "set_ch") => rconn = rch
    /\ \A h \in Handlers :
         /\ pc[h] \in {"dial", "set_conn"} => link[rconn] = "closed"
         /\ pc[h] = "set_ch" => rconn = fresh[h] /\ link[rch] = "closed"
    /\ \A c \in Conns : link[c] = "open" =>
         c \in {rconn, rch} \/ \E h \in Handlers : fresh[h] = c

LeakInv == ~overlapped => SoleInv

\* While nobody has reconnected since Close began, nobody is doing so, and what
\* Close closes is all there is.
CloseInv ==
    /\ closing # "no" /\ ~reopened => \A h \in Handlers : pc[h] \notin Reconnecting
    /\ CloseClosesAll

Inv ==
    /\ TypeOK
    /\ FreshInv
    /\ UndisturbedInv
    /\ LeakInv
-----------------------------------------------------------------------------
LEMMA InitInv == Init => Inv
<1> SUFFICES ASSUME NEW c \in Conns,
                    link = [d \in Conns |-> IF d = c THEN "open" ELSE "closed"],
                    chan = link, rconn = c, rch = c, broker = "up", closing = "no",
                    pc = [h \in Handlers |-> "idle"],
                    attempt = [h \in Handlers |-> 0],
                    fresh = [h \in Handlers |-> NoConn],
                    result = [h \in Handlers |-> "none"],
                    disturbed = [h \in Handlers |-> FALSE],
                    overlapped = FALSE, reopened = FALSE
             PROVE  Inv
  BY DEF Init
<1>1. TypeOK
  <2>1. 0 \in 0..(MaxAttempts - 1)
    BY PublisherAssumption
  <2>2. attempt \in [Handlers -> 0..(MaxAttempts - 1)]
    BY <2>1
  <2>3. QED
    BY <2>2 DEF TypeOK
<1>2. FreshInv /\ UndisturbedInv /\ LeakInv
  BY DEF FreshInv, UndisturbedInv, LeakInv, SoleInv, InCall, Reconnecting
<1>3. QED
  BY <1>1, <1>2 DEF Inv

LEMMA GotoFacts ==
  ASSUME TypeOK, NEW h \in Handlers,
         NEW label \in Reconnecting \cup {"idle", "check_conn", "check_ch", "send", "backoff"},
         Goto(h, label)
  PROVE  /\ pc' \in [Handlers -> Reconnecting \cup
                                  {"idle", "check_conn", "check_ch", "send", "backoff"}]
         /\ pc'[h] = label
         /\ \A o \in Handlers : o # h => pc'[o] = pc[o]
  BY DEF TypeOK, Goto

LEMMA DisturbFacts ==
  ASSUME TypeOK, NEW Others, Disturb(Others)
  PROVE  /\ disturbed' \in [Handlers -> BOOLEAN]
         /\ \A h \in Handlers : disturbed[h] => disturbed'[h]
         /\ \A h \in Handlers \ Others : InCall(h) => disturbed'[h]
  BY DEF TypeOK, Disturb

LEMMA CloseFacts ==
  ASSUME TypeOK, NEW C, CloseLinks(C)
  PROVE  /\ link' \in [Conns -> {"open", "closed"}]
         /\ chan' \in [Conns -> {"open", "closed"}]
         /\ rconn' = rconn /\ rch' = rch
         /\ \A c \in Conns : link'[c] = IF c \in C THEN "closed" ELSE link[c]
         /\ \A c \in Conns : chan'[c] = IF c \in C THEN "closed" ELSE chan[c]
  BY DEF TypeOK, CloseLinks

\* What the environment does to connections: some are closed, none is opened,
\* and every call under way is disturbed.
Closes ==
    /\ link' \in [Conns -> {"open", "closed"}]
    /\ chan' \in [Conns -> {"open", "closed"}]
    /\ \A c \in Conns : link'[c] = "open" => link[c] = "open"
    /\ UNCHANGED <<rconn, rch, pc, attempt, fresh, result, overlapped>>
    /\ reopened' \in BOOLEAN
    /\ Disturb({})

LEMMA ClosesKeeps ==
  ASSUME Inv, Closes, broker' \in {"up", "down"},
         closing' \in {"no", "channel_closed", "done"}
  PROVE  Inv'
<1>1. /\ disturbed' \in [Handlers -> BOOLEAN]
      /\ \A h \in Handlers : disturbed[h] => disturbed'[h]
      /\ \A h \in Handlers : InCall(h) => disturbed'[h]
  BY DisturbFacts DEF Inv, Closes
<1>2. TypeOK'
  BY <1>1 DEF Inv, TypeOK, Closes
<1>3. FreshInv'
  BY DEF Inv, FreshInv, Closes
<1>4. UndisturbedInv'
  BY <1>1 DEF Inv, UndisturbedInv, Closes, InCall
<1>5. LeakInv'
  BY DEF Inv, LeakInv, SoleInv, Closes, TypeOK
<1>6. QED
  BY <1>2, <1>3, <1>4, <1>5 DEF Inv

LEMMA EnvironmentStep ==
  ASSUME Inv,
         \/ CloseChannel \/ Outage \/ BrokerBack
         \/ \E c \in Conns : LoseConnection(c) \/ LoseChannel(c)
  PROVE  Inv'
<1>0. TypeOK
  BY DEF Inv
<1>1. CASE CloseChannel
  BY <1>0, <1>1, ClosesKeeps DEF CloseChannel, Closes, callVars, TypeOK
<1>2. CASE Outage
  BY <1>0, <1>2, CloseFacts, ClosesKeeps DEF Outage, Closes, callVars, TypeOK
<1>3. CASE BrokerBack
  BY <1>0, <1>3, ClosesKeeps DEF BrokerBack, Closes, callVars, connVars, TypeOK
<1>4. ASSUME NEW c \in Conns, LoseConnection(c) PROVE Inv'
  BY <1>0, <1>4, CloseFacts, ClosesKeeps DEF LoseConnection, Closes, callVars, TypeOK
<1>5. ASSUME NEW c \in Conns, LoseChannel(c) PROVE Inv'
  BY <1>0, <1>5, ClosesKeeps DEF LoseChannel, Closes, callVars, TypeOK
<1>6. QED
  BY <1>1, <1>2, <1>3, <1>4, <1>5

\* Calls under way were disturbed when Close began.
LEMMA CloseConnStep ==
  ASSUME Inv, CloseConn
  PROVE  Inv'
<1>1. TypeOK
  BY DEF Inv
<1>2. /\ closing = "channel_closed" /\ closing' = "done"
      /\ CloseLinks({rconn})
      /\ UNCHANGED <<broker, pc, attempt, fresh, result,
                     disturbed, overlapped, reopened>>
  BY DEF CloseConn, callVars, pastVars
<1>3. TypeOK'
  BY <1>1, <1>2, CloseFacts DEF TypeOK
<1>4. FreshInv'
  BY <1>2 DEF Inv, FreshInv
<1>5. UndisturbedInv'
  BY <1>2 DEF Inv, UndisturbedInv, InCall
<1>6. LeakInv'
  BY <1>1, <1>2, CloseFacts DEF Inv, LeakInv, SoleInv, TypeOK
<1>7. QED
  BY <1>3, <1>4, <1>5, <1>6 DEF Inv
-----------------------------------------------------------------------------
LEMMA CallStep ==
  ASSUME Inv, NEW h \in Handlers, Call(h)
  PROVE  Inv'
<1>1. TypeOK
  BY DEF Inv
<1>2. /\ pc' \in [Handlers -> Reconnecting \cup
                                  {"idle", "check_conn", "check_ch", "send", "backoff"}]
      /\ pc[h] = "idle" /\ pc'[h] = "check_conn"
      /\ \A o \in Handlers : o # h => pc'[o] = pc[o]
  BY <1>1, GotoFacts DEF Call
<1>3. /\ attempt' \in [Handlers -> 0..(MaxAttempts - 1)]
      /\ result' \in [Handlers -> {"none", "nil", "error"}]
      /\ disturbed' \in [Handlers -> BOOLEAN]
      /\ \A o \in Handlers : o # h =>
             /\ attempt'[o] = attempt[o] /\ result'[o] = result[o]
             /\ disturbed'[o] = disturbed[o]
      /\ attempt'[h] = 0 /\ result'[h] = "none"
      /\ ~disturbed'[h] => /\ broker # "down" /\ closing # "channel_closed"
                           /\ Rivals(h) = {}
  <2>1. 0 \in 0..(MaxAttempts - 1)
    BY PublisherAssumption
  <2>2. QED
    BY <1>1, <2>1 DEF Call, TypeOK
<1>4. UNCHANGED <<link, chan, rconn, rch, broker, closing, fresh, overlapped, reopened>>
  BY DEF Call, connVars
<1>5. TypeOK'
  BY <1>1, <1>2, <1>3, <1>4 DEF TypeOK
<1>6. FreshInv'
  BY <1>2, <1>4 DEF Inv, FreshInv
<1>7. UndisturbedInv'
  BY <1>1, <1>2, <1>3, <1>4
     DEF Inv, UndisturbedInv, InCall, Rivals, Reconnecting, TypeOK
<1>8. LeakInv'
  BY <1>2, <1>4 DEF Inv, LeakInv, SoleInv, Reconnecting
<1>9. QED
  BY <1>5, <1>6, <1>7, <1>8 DEF Inv

LEMMA StartReconnectStep ==
  ASSUME Inv, NEW h \in Handlers, pc[h] \in {"check_conn", "check_ch"},
         StartReconnect(h),
         UNCHANGED <<connVars, broker, closing, attempt, fresh, result>>
  PROVE  Inv'
<1>1. TypeOK
  BY DEF Inv
<1>2. /\ pc' \in [Handlers -> Reconnecting \cup
                                  {"idle", "check_conn", "check_ch", "send", "backoff"}]
      /\ pc'[h] = "close_channel"
      /\ \A o \in Handlers : o # h => pc'[o] = pc[o]
  BY <1>1, GotoFacts DEF StartReconnect, Reconnecting
<1>3. /\ disturbed' \in [Handlers -> BOOLEAN]
      /\ \A o \in Handlers : disturbed[o] => disturbed'[o]
      /\ \A o \in Handlers : o # h /\ InCall(o) => disturbed'[o]
  BY <1>1, DisturbFacts DEF StartReconnect
<1>4. /\ overlapped' \in BOOLEAN /\ reopened' \in BOOLEAN
      /\ ~overlapped' => ~overlapped /\ Rivals(h) = {}
  BY <1>1 DEF StartReconnect, TypeOK
<1>5. UNCHANGED <<link, chan, rconn, rch, broker, closing, attempt, fresh, result>>
  BY DEF connVars
<1>6. TypeOK'
  BY <1>1, <1>2, <1>3, <1>4, <1>5 DEF TypeOK
<1>7. FreshInv'
  BY <1>2, <1>5 DEF Inv, FreshInv
<1>8. UndisturbedInv'
  BY <1>2, <1>3, <1>5 DEF Inv, UndisturbedInv, InCall
<1>9. LeakInv'
  BY <1>2, <1>4, <1>5 DEF Inv, LeakInv, SoleInv, Rivals, Reconnecting
<1>10. QED
  BY <1>6, <1>7, <1>8, <1>9 DEF Inv

\* Steps that only move one goroutine's program counter, or give its connection
\* up, and leave the connections themselves alone.
LEMMA AdvanceStep ==
  ASSUME Inv, NEW h \in Handlers,
         NEW label \in {"check_ch", "send", "idle", "backoff", "check_conn"},
         pc[h] \in {"check_conn", "check_ch", "send", "dial", "backoff"},
         Goto(h, label),
         UNCHANGED <<connVars, broker, closing, fresh, overlapped, reopened>>,
         disturbed' \in [Handlers -> BOOLEAN],
         attempt' \in [Handlers -> 0..(MaxAttempts - 1)],
         result' \in [Handlers -> {"none", "nil", "error"}],
         \A o \in Handlers : disturbed[o] => disturbed'[o],
         \A o \in Handlers : o # h => attempt'[o] = attempt[o] /\ result'[o] = result[o],
         ~disturbed'[h] => /\ result'[h] # "error" /\ attempt'[h] = attempt[h]
                           /\ label # "backoff"
                           /\ label = "send" => chan[rch] = "open"
  PROVE  Inv'
<1>1. TypeOK
  BY DEF Inv
<1>2. /\ pc' \in [Handlers -> Reconnecting \cup
                                  {"idle", "check_conn", "check_ch", "send", "backoff"}]
      /\ pc'[h] = label
      /\ \A o \in Handlers : o # h => pc'[o] = pc[o]
  BY <1>1, GotoFacts
<1>3. UNCHANGED <<link, chan, rconn, rch, broker, closing, fresh, overlapped, reopened>>
  BY DEF connVars
<1>4. TypeOK'
  BY <1>1, <1>2, <1>3 DEF TypeOK
<1>5. FreshInv'
  BY <1>2, <1>3 DEF Inv, FreshInv
<1>6. UndisturbedInv'
  BY <1>1, <1>2, <1>3
     DEF Inv, UndisturbedInv, InCall, Reconnecting, TypeOK
<1>7. LeakInv'
  BY <1>2, <1>3 DEF Inv, LeakInv, SoleInv, Reconnecting
<1>8. QED
  BY <1>4, <1>5, <1>6, <1>7 DEF Inv

LEMMA CheckSteps ==
  ASSUME Inv, NEW h \in Handlers, CheckConn(h) \/ CheckCh(h)
  PROVE  Inv'
<1>1. TypeOK
  BY DEF Inv
<1>2. /\ pc[h] \in {"check_conn", "check_ch"}
      /\ UNCHANGED <<connVars, broker, closing, attempt, fresh, result>>
  BY DEF CheckConn, CheckCh
<1>3. CASE StartReconnect(h)
  BY <1>2, <1>3, StartReconnectStep
<1>4. CASE ~StartReconnect(h)
  <2>1. PICK label \in {"check_ch", "send"} :
          /\ Goto(h, label)
          /\ label = "send" => chan[rch] = "open"
    BY <1>4 DEF CheckConn, CheckCh
  <2>2. UNCHANGED <<disturbed, overlapped, reopened>>
    BY <1>4 DEF CheckConn, CheckCh, pastVars
  <2>3. ~disturbed[h] => result[h] # "error"
    BY DEF Inv, UndisturbedInv
  <2>4. QED
    BY <1>1, <1>2, <2>1, <2>2, <2>3, AdvanceStep DEF TypeOK
<1>5. QED
  BY <1>3, <1>4

LEMMA SendStep ==
  ASSUME Inv, NEW h \in Handlers, Send(h)
  PROVE  Inv'
<1>1. TypeOK
  BY DEF Inv
<1>2. /\ pc[h] = "send"
      /\ UNCHANGED <<connVars, broker, closing, attempt, fresh,
                     disturbed, overlapped, reopened>>
  BY DEF Send, pastVars
<1>3. ~disturbed[h] => chan[rch] = "open" /\ result[h] # "error"
  BY <1>2 DEF Inv, UndisturbedInv, InCall
<1>4. PICK label \in {"idle", "backoff"} :
        /\ Goto(h, label)
        /\ label = "backoff" => chan[rch] # "open"
  BY DEF Send
<1>5. /\ result' \in [Handlers -> {"none", "nil", "error"}]
      /\ \A o \in Handlers : o # h => result'[o] = result[o]
      /\ result'[h] = result[h] \/ result'[h] = "nil"
  BY <1>1 DEF Send, TypeOK
<1>6. QED
  BY <1>1, <1>2, <1>3, <1>4, <1>5, AdvanceStep DEF TypeOK

\* Backing off is for calls that have been disturbed.
LEMMA BackoffStep ==
  ASSUME Inv, NEW h \in Handlers, Backoff(h)
  PROVE  Inv'
<1>1. TypeOK
  BY DEF Inv
<1>2. /\ pc[h] = "backoff"
      /\ UNCHANGED <<connVars, broker, closing, fresh,
                     disturbed, overlapped, reopened>>
  BY DEF Backoff, pastVars
<1>3. disturbed[h]
  BY <1>1, <1>2 DEF Inv, UndisturbedInv, InCall
<1>4. PICK label \in {"check_conn", "idle"} : Goto(h, label)
  BY DEF Backoff
<1>5. /\ result' \in [Handlers -> {"none", "nil", "error"}]
      /\ \A o \in Handlers : o # h => result'[o] = result[o]
  BY <1>1 DEF Backoff, TypeOK
<1>6. /\ attempt' \in [Handlers -> 0..(MaxAttempts - 1)]
      /\ \A o \in Handlers : o # h => attempt'[o] = attempt[o]
  <2>1. CASE attempt[h] + 1 < MaxAttempts
    <3>1. attempt' = [attempt EXCEPT ![h] = @ + 1]
      BY <2>1 DEF Backoff
    <3>2. attempt[h] + 1 \in 0..(MaxAttempts - 1)
      BY <1>1, <2>1, PublisherAssumption DEF TypeOK
    <3>3. QED
      BY <1>1, <3>1, <3>2 DEF TypeOK
  <2>2. CASE ~(attempt[h] + 1 < MaxAttempts)
    BY <1>1, <2>2 DEF Backoff, TypeOK
  <2>3. QED
    BY <2>1, <2>2
<1>7. QED
  BY <1>1, <1>2, <1>3, <1>4, <1>5, <1>6, AdvanceStep DEF TypeOK

LEMMA DialFailsStep ==
  ASSUME Inv, NEW h \in Handlers, DialFails(h) \/ DialInterrupted(h)
  PROVE  Inv'
<1>1. TypeOK
  BY DEF Inv
<1>2. /\ pc[h] = "dial" /\ Goto(h, "backoff")
      /\ UNCHANGED <<connVars, broker, closing, attempt, fresh, result, overlapped, reopened>>
  BY DEF DialFails, DialInterrupted
<1>3. /\ disturbed' \in [Handlers -> BOOLEAN]
      /\ \A o \in Handlers : disturbed[o] => disturbed'[o]
      /\ disturbed'[h]
  <2>1. CASE DialFails(h)
    BY <1>1, <2>1 DEF DialFails, TypeOK
  <2>2. CASE DialInterrupted(h)
    BY <1>1, <1>2, <2>2, DisturbFacts DEF DialInterrupted, InCall
  <2>3. QED
    BY <2>1, <2>2
<1>4. QED
  BY <1>1, <1>2, <1>3, AdvanceStep DEF TypeOK
-----------------------------------------------------------------------------
(* The steps of reconnect that change what everybody shares. *)

LEMMA CloseOldStep ==
  ASSUME Inv, NEW h \in Handlers, CloseOldChannel(h) \/ CloseOldConn(h)
  PROVE  Inv'
<1>1. TypeOK
  BY DEF Inv
<1>2. /\ UNCHANGED <<rconn, rch, broker, closing, attempt, fresh, result,
                     disturbed, overlapped, reopened>>
      /\ link' \in [Conns -> {"open", "closed"}]
      /\ chan' \in [Conns -> {"open", "closed"}]
      /\ \A c \in Conns : link'[c] = "open" => link[c] = "open"
      /\ CloseOldConn(h) => link'[rconn] = "closed"
  <2>1. CASE CloseOldChannel(h)
    BY <1>1, <2>1 DEF CloseOldChannel, CloseOldConn, TypeOK, pastVars
  <2>2. CASE CloseOldConn(h)
    BY <1>1, <2>2, CloseFacts DEF CloseOldConn, TypeOK, pastVars
  <2>3. QED
    BY <2>1, <2>2
<1>3. PICK label \in {"close_conn", "dial"} :
        /\ Goto(h, label)
        /\ label = "dial" => CloseOldConn(h)
  BY DEF CloseOldChannel, CloseOldConn
<1>4. /\ pc' \in [Handlers -> Reconnecting \cup
                                  {"idle", "check_conn", "check_ch", "send", "backoff"}]
      /\ pc'[h] = label
      /\ \A o \in Handlers : o # h => pc'[o] = pc[o]
  BY <1>1, <1>3, GotoFacts DEF Reconnecting
<1>5. pc[h] \in {"close_channel", "close_conn"}
  BY DEF CloseOldChannel, CloseOldConn
<1>6. TypeOK'
  BY <1>1, <1>2, <1>4 DEF TypeOK
<1>7. FreshInv'
  BY <1>2, <1>4, <1>5 DEF Inv, FreshInv
<1>8. UndisturbedInv'
  BY <1>2, <1>4, <1>5 DEF Inv, UndisturbedInv, InCall, Reconnecting
<1>9. LeakInv'
  BY <1>1, <1>2, <1>3, <1>4, <1>5 DEF Inv, LeakInv, SoleInv, Reconnecting, TypeOK
<1>10. QED
  BY <1>6, <1>7, <1>8, <1>9 DEF Inv

LEMMA DialStep ==
  ASSUME Inv, NEW h \in Handlers, Dial(h)
  PROVE  Inv'
<1>1. TypeOK
  BY DEF Inv
<1>2. PICK c \in Conns :
        /\ Unused(c)
        /\ fresh' = [fresh EXCEPT ![h] = c]
        /\ link' = [link EXCEPT ![c] = "open"]
        /\ chan' = [chan EXCEPT ![c] = "open"]
  BY DEF Dial
<1>3. /\ pc' \in [Handlers -> Reconnecting \cup
                                  {"idle", "check_conn", "check_ch", "send", "backoff"}]
      /\ pc[h] = "dial" /\ pc'[h] = "set_conn"
      /\ \A o \in Handlers : o # h => pc'[o] = pc[o]
  BY <1>1, GotoFacts DEF Dial, Reconnecting
<1>4. /\ link' \in [Conns -> {"open", "closed"}]
      /\ chan' \in [Conns -> {"open", "closed"}]
      /\ fresh' \in [Handlers -> Conns \cup {NoConn}]
      /\ link'[c] = "open" /\ chan'[c] = "open" /\ fresh'[h] = c /\ c # NoConn
      /\ \A d \in Conns : d # c => link'[d] = link[d] /\ chan'[d] = chan[d]
      /\ \A o \in Handlers : o # h => fresh'[o] = fresh[o]
      /\ c # rconn /\ c # rch
      /\ \A o \in Handlers : fresh[o] # c
      /\ fresh[h] = NoConn
  BY <1>1, <1>2, <1>3, PublisherAssumption DEF TypeOK, Unused, Inv, FreshInv
<1>5. UNCHANGED <<rconn, rch, broker, closing, attempt, result,
                  disturbed, overlapped, reopened>>
  BY DEF Dial, pastVars
<1>6. TypeOK'
  BY <1>1, <1>3, <1>4, <1>5 DEF TypeOK
<1>7. FreshInv'
  BY <1>3, <1>4, <1>5 DEF Inv, FreshInv
<1>8. UndisturbedInv'
  BY <1>1, <1>3, <1>4, <1>5 DEF Inv, UndisturbedInv, InCall, Reconnecting, TypeOK
<1>9. LeakInv'
  BY <1>1, <1>3, <1>4, <1>5, PublisherAssumption
     DEF Inv, LeakInv, SoleInv, Reconnecting, TypeOK, FreshInv
<1>10. QED
  BY <1>6, <1>7, <1>8, <1>9 DEF Inv

LEMMA SetConnStep ==
  ASSUME Inv, NEW h \in Handlers, SetConn(h)
  PROVE  Inv'
<1>1. TypeOK
  BY DEF Inv
<1>2. /\ pc' \in [Handlers -> Reconnecting \cup
                                  {"idle", "check_conn", "check_ch", "send", "backoff"}]
      /\ pc[h] = "set_conn" /\ pc'[h] = "set_ch"
      /\ \A o \in Handlers : o # h => pc'[o] = pc[o]
  BY <1>1, GotoFacts DEF SetConn, Reconnecting
<1>3. /\ rconn' = fresh[h] /\ fresh[h] \in Conns
      /\ UNCHANGED <<link, chan, rch, broker, closing, attempt, fresh, result,
                     disturbed, overlapped, reopened>>
  BY <1>1, <1>2 DEF SetConn, TypeOK, Inv, FreshInv, pastVars
<1>4. TypeOK'
  BY <1>1, <1>2, <1>3 DEF TypeOK
<1>5. FreshInv'
  BY <1>2, <1>3 DEF Inv, FreshInv
<1>6. UndisturbedInv'
  BY <1>2, <1>3 DEF Inv, UndisturbedInv, InCall, Reconnecting
<1>7. LeakInv'
  BY <1>1, <1>2, <1>3 DEF Inv, LeakInv, SoleInv, Reconnecting, TypeOK
<1>8. QED
  BY <1>4, <1>5, <1>6, <1>7 DEF Inv

LEMMA SetChStep ==
  ASSUME Inv, NEW h \in Handlers, SetCh(h)
  PROVE  Inv'
<1>1. TypeOK
  BY DEF Inv
<1>2. /\ pc' \in [Handlers -> Reconnecting \cup
                                  {"idle", "check_conn", "check_ch", "send", "backoff"}]
      /\ pc[h] = "set_ch" /\ pc'[h] = "send"
      /\ \A o \in Handlers : o # h => pc'[o] = pc[o]
  BY <1>1, GotoFacts DEF SetCh
<1>3. /\ rch' = fresh[h] /\ fresh[h] \in Conns
      /\ fresh' \in [Handlers -> Conns \cup {NoConn}]
      /\ fresh'[h] = NoConn
      /\ \A o \in Handlers : o # h => fresh'[o] = fresh[o]
      /\ UNCHANGED <<link, chan, rconn, broker, closing, attempt, result,
                     disturbed, overlapped, reopened>>
  BY <1>1, <1>2 DEF SetCh, TypeOK, Inv, FreshInv, pastVars
<1>4. TypeOK'
  BY <1>1, <1>2, <1>3 DEF TypeOK
<1>5. FreshInv'
  BY <1>2, <1>3 DEF Inv, FreshInv
<1>6. UndisturbedInv'
  BY <1>2, <1>3 DEF Inv, UndisturbedInv, InCall, Reconnecting
<1>7. LeakInv'
  BY <1>1, <1>2, <1>3 DEF Inv, LeakInv, SoleInv, Reconnecting, TypeOK
<1>8. QED
  BY <1>4, <1>5, <1>6, <1>7 DEF Inv
-----------------------------------------------------------------------------
LEMMA NextInv == Inv /\ [Next]_vars => Inv'
<1> SUFFICES ASSUME Inv, [Next]_vars PROVE Inv'
  OBVIOUS
<1>1. ASSUME NEW h \in Handlers, Step(h) PROVE Inv'
  BY <1>1, CheckSteps, CloseOldStep, DialStep, DialFailsStep, SetConnStep,
     SetChStep, SendStep, BackoffStep DEF Step
<1>2. CASE UNCHANGED vars
  <2>1. UNCHANGED <<link, chan, rconn, rch, broker, closing, pc, attempt, fresh,
                    result, disturbed, overlapped, reopened>>
    BY <1>2 DEF vars, connVars, callVars, pastVars
  <2>2. TypeOK'
    BY <2>1 DEF Inv, TypeOK
  <2>3. FreshInv' /\ UndisturbedInv' /\ LeakInv'
    BY <2>1 DEF Inv, FreshInv, UndisturbedInv, LeakInv, SoleInv, InCall
  <2>4. QED
    BY <2>2, <2>3 DEF Inv
<1>3. QED
  BY <1>1, <1>2, CallStep, DialFailsStep, CloseConnStep, EnvironmentStep DEF Next

LEMMA CloseInvStep == Inv /\ CloseInv /\ [Next]_vars => CloseInv'
<1> SUFFICES ASSUME Inv, CloseInv, [Next]_vars PROVE CloseInv'
  OBVIOUS
<1>1. TypeOK
  BY DEF Inv
<1> USE DEF CloseInv, CloseClosesAll
<1>2. CASE CloseChannel
  BY <1>2 DEF CloseChannel, callVars
<1>3. CASE CloseConn
  <2>1. /\ closing = "channel_closed" /\ CloseLinks({rconn})
        /\ UNCHANGED <<pc, overlapped, reopened>>
    BY <1>3 DEF CloseConn, callVars, pastVars
  <2>2. ASSUME ~overlapped, ~reopened, NEW c \in Conns
        PROVE  link'[c] = "closed"
    <3>1. \A h \in Handlers : pc[h] \notin Reconnecting /\ fresh[h] = NoConn
      BY <2>1, <2>2 DEF Inv, FreshInv, Reconnecting
    <3>2. link[c] = "open" => c = rconn
      BY <2>2, <3>1, PublisherAssumption DEF Inv, LeakInv, SoleInv, Reconnecting
    <3> QED
      BY <1>1, <2>1, <3>2, CloseFacts DEF TypeOK
  <2> QED
    BY <2>1, <2>2
<1>4. CASE Outage \/ \E c \in Conns : LoseConnection(c)
  BY <1>1, <1>4, CloseFacts DEF Outage, LoseConnection, callVars
<1>5. CASE BrokerBack \/ \E c \in Conns : LoseChannel(c)
  BY <1>5 DEF BrokerBack, LoseChannel, connVars, callVars
<1>6. ASSUME NEW h \in Handlers, Call(h) PROVE CloseInv'
  BY <1>1, <1>6 DEF Call, Goto, connVars, Reconnecting, TypeOK
<1>7. ASSUME NEW h \in Handlers, CheckConn(h) \/ CheckCh(h) PROVE CloseInv'
  BY <1>1, <1>7
  DEF CheckConn, CheckCh, StartReconnect, Goto, connVars, pastVars, Reconnecting, TypeOK
<1>8. ASSUME NEW h \in Handlers, pc[h] \in Reconnecting,
             UNCHANGED <<closing, overlapped, reopened>>
      PROVE  CloseInv'
  <2>1. closing = "no" \/ reopened
    BY <1>8
  <2>2. CASE closing = "no"
    BY <1>8, <2>2
  <2>3. CASE reopened
    BY <1>8, <2>3
  <2> QED
    BY <2>1, <2>2, <2>3
<1>9. ASSUME NEW h \in Handlers,
             \/ CloseOldChannel(h) \/ CloseOldConn(h) \/ Dial(h) \/ DialFails(h)
             \/ DialInterrupted(h) \/ SetConn(h) \/ SetCh(h)
      PROVE  CloseInv'
  BY <1>8, <1>9
  DEF CloseOldChannel, CloseOldConn, Dial, DialFails, DialInterrupted, SetConn, SetCh,
      pastVars, Reconnecting
<1>10. ASSUME NEW h \in Handlers, Send(h) \/ Backoff(h) PROVE CloseInv'
  BY <1>1, <1>10 DEF Send, Backoff, Goto, connVars, pastVars, Reconnecting, TypeOK
<1>11. CASE UNCHANGED vars
  BY <1>11 DEF vars, connVars, callVars, pastVars
<1> QED
  BY <1>2, <1>3, <1>4, <1>5, <1>6, <1>7, <1>9, <1>10, <1>11 DEF Next, Step

\* Every reachable state satisfies the inductive invariant.
THEOREM Invariance == Spec => []Inv
  BY InitInv, NextInv, PTL DEF Spec

\* Type correctness.
THEOREM TypeCorrect == Spec => []TypeOK
<1>1. Inv => TypeOK
  BY DEF Inv
<1>2. QED
  BY <1>1, Invariance, PTL

\* A call during which nothing is lost, refused or reconnected by others
\* succeeds at its first attempt, however Publish and reconnect have left the
\* fields before.
THEOREM CallsSucceed == Spec => []UndisturbedCallSucceeds
<1>1. Inv => UndisturbedCallSucceeds
  BY DEF Inv, UndisturbedInv, UndisturbedCallSucceeds
<1>2. QED
  BY <1>1, Invariance, PTL

\* reconnect leaks a connection only where two of them overlapped, or one met
\* Close.
THEOREM LeaksComeFromRaces == Spec => []OrphansComeFromRaces
<1>1. Inv => OrphansComeFromRaces
  BY DEF Inv, LeakInv, SoleInv, OrphansComeFromRaces, Orphans
<1>2. QED
  BY <1>1, Invariance, PTL

\* Close (Shutdown calls it under the requests in progress) leaves a connection
\* open only to a call that was reconnecting, or came to, or where two overlapped.
THEOREM CloseIsComplete == Spec => []CloseClosesAll
<1>1. Init => CloseInv
  BY DEF Init, CloseInv, CloseClosesAll
<1>2. CloseInv => CloseClosesAll
  BY DEF CloseInv
<1> QED
  BY <1>1, <1>2, CloseInvStep, Invariance, PTL DEF Spec
-----------------------------------------------------------------------------
(* A call takes a bounded number of steps. *)

LEMMA StepsLeftType ==
  ASSUME TypeOK, NEW h \in Handlers
  PROVE  /\ StepsLeft(h) \in 0..(9 * MaxAttempts)
         /\ InCall(h) => StepsLeft(h) > 0
<1>1. attempt[h] \in 0..(MaxAttempts - 1) /\ MaxAttempts \in Nat
  BY PublisherAssumption DEF TypeOK
<1>2. CASE InCall(h)
  <2>1. StepsAfter[pc[h]] \in 1..9
    BY <1>2 DEF TypeOK, InCall, Reconnecting, StepsAfter
  <2>2. StepsLeft(h) = 9 * (MaxAttempts - 1 - attempt[h]) + StepsAfter[pc[h]]
    BY <1>2 DEF StepsLeft
  <2>3. QED
    BY <1>1, <2>1, <2>2
<1>3. CASE ~InCall(h)
  BY <1>1, <1>3 DEF StepsLeft
<1>4. QED
  BY <1>2, <1>3

LEMMA StepsDecrease ==
  ASSUME TypeOK, TypeOK', [Next]_vars, NEW h \in Handlers, InCall(h),
         <<pc[h], attempt[h]>>' # <<pc[h], attempt[h]>>
  PROVE  StepsLeft(h)' < StepsLeft(h)
<1>1. /\ attempt[h] \in Nat /\ MaxAttempts \in Nat
      /\ StepsLeft(h) \in Nat /\ StepsLeft(h) > 0
  BY StepsLeftType, PublisherAssumption DEF TypeOK
<1>2. ASSUME NEW o \in Handlers, Call(o) \/ Step(o) \/ DialInterrupted(o)
      PROVE  o = h
  <2>1. ASSUME o # h
        PROVE  pc'[h] = pc[h] /\ attempt'[h] = attempt[h]
    BY <1>2, <2>1 DEF Call, Step, DialInterrupted, CheckConn, CheckCh, StartReconnect,
       CloseOldChannel, CloseOldConn, Dial, DialFails, SetConn, SetCh, Send, Backoff,
       Goto, TypeOK
  <2>2. QED
    BY <2>1
<1>3. ASSUME pc'[h] = "idle"
      PROVE  StepsLeft(h)' < StepsLeft(h)
  BY <1>1, <1>3 DEF StepsLeft, InCall
<1>4. CASE Backoff(h)
  <2>1. CASE attempt[h] + 1 < MaxAttempts
    <3>1. /\ pc[h] = "backoff" /\ pc'[h] = "check_conn"
          /\ attempt'[h] = attempt[h] + 1
      BY <1>4, <2>1 DEF Backoff, Goto, TypeOK
    <3>2. /\ StepsLeft(h) = 9 * (MaxAttempts - 1 - attempt[h]) + 1
          /\ StepsLeft(h)' = 9 * (MaxAttempts - 1 - attempt'[h]) + 9
      BY <3>1 DEF StepsLeft, StepsAfter, InCall
    <3>3. QED
      BY <1>1, <3>1, <3>2
  <2>2. CASE ~(attempt[h] + 1 < MaxAttempts)
    BY <1>3, <1>4, <2>2 DEF Backoff, Goto, TypeOK
  <2>3. QED
    BY <2>1, <2>2
<1>5. CASE (Step(h) /\ ~Backoff(h)) \/ DialInterrupted(h)
  <2>1. /\ attempt' = attempt
        /\ \/ pc[h] = "check_conn" /\ pc'[h] \in {"check_ch", "close_channel"}
           \/ pc[h] = "check_ch" /\ pc'[h] \in {"send", "close_channel"}
           \/ pc[h] = "close_channel" /\ pc'[h] = "close_conn"
           \/ pc[h] = "close_conn" /\ pc'[h] = "dial"
           \/ pc[h] = "dial" /\ pc'[h] \in {"set_conn", "backoff"}
           \/ pc[h] = "set_conn" /\ pc'[h] = "set_ch"
           \/ pc[h] = "set_ch" /\ pc'[h] = "send"
           \/ pc[h] = "send" /\ pc'[h] \in {"idle", "backoff"}
    BY <1>5 DEF Step, DialInterrupted, CheckConn, CheckCh, StartReconnect,
       CloseOldChannel, CloseOldConn, Dial, DialFails, SetConn, SetCh, Send, Goto, TypeOK
  <2>2. CASE pc'[h] # "idle"
    <3>1. /\ StepsAfter[pc[h]] \in Nat /\ StepsAfter[pc'[h]] \in Nat
          /\ StepsAfter[pc'[h]] < StepsAfter[pc[h]]
      BY <2>1, <2>2 DEF StepsAfter
    <3>2. /\ StepsLeft(h) = 9 * (MaxAttempts - 1 - attempt[h]) + StepsAfter[pc[h]]
          /\ StepsLeft(h)' = 9 * (MaxAttempts - 1 - attempt[h]) + StepsAfter[pc'[h]]
      BY <2>1, <2>2 DEF StepsLeft, StepsAfter, InCall
    <3>3. QED
      BY <1>1, <3>1, <3>2
  <2>3. QED
    BY <1>3, <2>2
<1>6. CASE Call(h)
  BY <1>6 DEF Call, InCall
<1>7. CASE UNCHANGED callVars
  BY <1>7 DEF callVars
<1>8. QED
  BY <1>2, <1>4, <1>5, <1>6, <1>7 DEF Next, vars, callVars, CloseChannel, CloseConn,
     Outage, BrokerBack, LoseConnection, LoseChannel

\* A call of Publish returns within nine steps per attempt, whatever the other
\* goroutines, Close and the broker do in between.
THEOREM CallsAreBounded == Spec => CallsEnd
<1>1. Inv /\ Inv' /\ [Next]_vars =>
        [\A h \in Handlers :
           /\ StepsLeft(h) \in 0..(9 * MaxAttempts)
           /\ InCall(h) /\ <<pc[h], attempt[h]>>' # <<pc[h], attempt[h]>>
                => StepsLeft(h)' < StepsLeft(h)]_vars
  BY StepsLeftType, StepsDecrease DEF Inv
<1>2. QED
  BY <1>1, Invariance, PTL DEF Spec, CallsEnd
=============================================================================

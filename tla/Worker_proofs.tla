--------------------------- MODULE Worker_proofs ---------------------------
(***************************************************************************)
(* Proofs that every state of Worker satisfies IndInv, and that Worker     *)
(* implements AtLeastOnce, whatever the messages, workers, goroutines,     *)
(* attempts and faults.                                                    *)
(***************************************************************************)
EXTENDS Worker, TLAPS

\* Every goroutine belongs to a worker.
LEMMA OwnerType == \A g \in Threads : Owner(g) \in Workers
  BY DEF Threads, Owner

\* InsertOne adds a pending document of m and leaves the others alone.
LEMMA InsertFacts ==
  ASSUME StoreTypeOK, NEW m \in Messages, NEW n \in Nat, InsertEvent(m, n)
  PROVE  /\ StoreTypeOK'
         /\ Stored(m)'
         /\ \A k : Stored(k) => Stored(k)'
         /\ \A k : Stored(k)' => Stored(k) \/ k = m
         /\ \A i \in DOMAIN docs' : docs'[i].status = "failed" =>
                i \in DOMAIN docs /\ docs[i] = docs'[i]
<1> DEFINE d == [msg |-> m, status |-> "pending", retry |-> n]
<1>1. d \in Document
  BY DEF Document, EventStatus
<1>2. docs \in Seq(Document) /\ docs' = Append(docs, d)
  BY DEF StoreTypeOK, InsertEvent
<1> HIDE DEF d
<1>3. /\ docs' \in Seq(Document)
      /\ DOMAIN docs = 1..Len(docs)
      /\ Len(docs) \in Nat
      /\ DOMAIN docs' = 1..(Len(docs) + 1)
      /\ docs'[Len(docs) + 1] = d
      /\ \A i \in 1..Len(docs) : docs'[i] = docs[i]
  BY <1>1, <1>2
<1>4. d.msg = m /\ d.status = "pending"
  BY DEF d
<1>5. QED
  BY <1>3, <1>4 DEF StoreTypeOK, Stored

\* UpdateOne changes no document's contents, and gives its status only to a
\* document with the webhook id of m.
LEMMA UpdateFacts ==
  ASSUME StoreTypeOK, NEW m \in Messages, NEW s \in EventStatus, NEW n \in Nat,
         UpdateEventStatus(m, s, n)
  PROVE  /\ StoreTypeOK'
         /\ \A k : Stored(k)' = Stored(k)
         /\ DOMAIN docs' = DOMAIN docs
         /\ \A i \in DOMAIN docs :
                /\ docs'[i].msg = docs[i].msg
                /\ \/ docs'[i].status = docs[i].status
                   \/ docs'[i].status = s /\ WebhookID[docs[i].msg] = WebhookID[m]
<1>1. CASE UNCHANGED docs
  BY <1>1 DEF StoreTypeOK, Stored
<1>2. CASE \E i \in Matching(WebhookID[m]) :
             docs' = [docs EXCEPT ![i].status = s, ![i].retry = n]
  <2>1. PICK i \in Matching(WebhookID[m]) :
             docs' = [docs EXCEPT ![i].status = s, ![i].retry = n]
    BY <1>2
  <2>2. /\ i \in 1..Len(docs)
        /\ WebhookID[docs[i].msg] = WebhookID[m]
        /\ docs[i] \in Document
        /\ DOMAIN docs = 1..Len(docs)
    BY DEF Matching, StoreTypeOK
  <2>3. docs' = [docs EXCEPT ![i] = [docs[i] EXCEPT !.status = s, !.retry = n]]
    BY <2>1, <2>2 DEF Document
  <2>4. [docs[i] EXCEPT !.status = s, !.retry = n] \in Document
    BY <2>2 DEF Document
  <2>5. /\ docs' \in Seq(Document)
        /\ DOMAIN docs' = DOMAIN docs
        /\ \A j \in DOMAIN docs :
             docs'[j] = IF j = i THEN [docs[i] EXCEPT !.status = s, !.retry = n]
                                 ELSE docs[j]
    BY <2>2, <2>3, <2>4 DEF StoreTypeOK
  <2>6. \A j \in DOMAIN docs : docs'[j].msg = docs[j].msg
    BY <2>5, <2>2 DEF Document
  <2>7. \A j \in DOMAIN docs :
          \/ docs'[j].status = docs[j].status
          \/ docs'[j].status = s /\ WebhookID[docs[j].msg] = WebhookID[m]
    BY <2>5, <2>2 DEF Document
  <2>8. QED
    BY <2>5, <2>6, <2>7 DEF StoreTypeOK, Stored
<1>3. QED
  BY <1>1, <1>2 DEF UpdateEventStatus
-----------------------------------------------------------------------------
(* What the four steps that call the database do to the collection, and, with *)
(* that said, to the goroutine.                                              *)

\* The contents of m may have been added, and nothing else.
StoreGrowsBy(m) ==
    /\ StoreTypeOK'
    /\ \A k : Stored(k) => Stored(k)'
    /\ \A k : Stored(k)' => Stored(k) \/ k = m

\* No document has become failed.
NoNewFailed ==
    \A i \in DOMAIN docs' : docs'[i].status = "failed" =>
        /\ i \in DOMAIN docs
        /\ docs[i].status = "failed"
        /\ docs[i].msg = docs'[i].msg

\* processEvent got past a call, or the attempt failed.
CallReturns(g, label) ==
    \/ /\ process[Owner(g)] = "running"
       /\ AttemptGoesOn(g, label)
       /\ UNCHANGED faults
    \/ /\ AttemptFails(g)
       /\ \/ process[Owner(g)] = "stopping" /\ UNCHANGED faults
          \/ SpendFault("db")

\* An update of the status leaves the contents as they were, and only an update
\* to "failed" makes a document failed.
LEMMA UpdateKeeps ==
  ASSUME StoreTypeOK, NEW m \in Messages, NEW s \in EventStatus, NEW n \in Nat,
         UpdateEventStatus(m, s, n) \/ UNCHANGED docs
  PROVE  /\ StoreTypeOK'
         /\ \A k : Stored(k)' = Stored(k)
         /\ s # "failed" => NoNewFailed
         /\ \A i \in DOMAIN docs' : docs'[i].status = "failed" =>
                \/ WebhookID[docs'[i].msg] = WebhookID[m]
                \/ /\ i \in DOMAIN docs
                   /\ docs[i].status = "failed"
                   /\ docs[i].msg = docs'[i].msg
<1>1. CASE UNCHANGED docs
  BY <1>1 DEF StoreTypeOK, Stored, NoNewFailed
<1>2. CASE UpdateEventStatus(m, s, n)
  BY <1>2, UpdateFacts DEF NoNewFailed
<1>3. QED
  BY <1>1, <1>2

LEMMA InsertStep ==
  ASSUME TypeOK, LoopInv, NEW g \in Threads, Insert(g)
  PROVE  /\ pc[g] = "insert"
         /\ CallReturns(g, "update")
         /\ pc'[g] = "update" => \A k : k = msg[g] => Stored(k)'
         /\ StoreGrowsBy(msg[g])
         /\ NoNewFailed
<1> DEFINE effect == InsertEvent(msg[g], attempt[g] - 1)
<1>1. /\ pc[g] = "insert"
      /\ \/ DatabaseSucceeds(Owner(g), effect) /\ AttemptGoesOn(g, "update")
         \/ DatabaseFails(Owner(g), effect) /\ AttemptFails(g)
  BY DEF Insert
<1>2. msg[g] \in Messages /\ attempt[g] - 1 \in Nat
  BY <1>1 DEF LoopInv, Busy, TypeOK, LoopTypeOK
<1>3. ASSUME effect
      PROVE  /\ StoreGrowsBy(msg[g])
             /\ \A k : k = msg[g] => Stored(k)'
             /\ NoNewFailed
  BY <1>2, <1>3, InsertFacts DEF TypeOK, StoreGrowsBy, NoNewFailed
<1>4. ASSUME UNCHANGED docs
      PROVE  StoreGrowsBy(msg[g]) /\ NoNewFailed
  BY <1>4 DEF TypeOK, StoreTypeOK, Stored, StoreGrowsBy, NoNewFailed
<1> HIDE DEF effect
<1>5. CASE DatabaseSucceeds(Owner(g), effect) /\ AttemptGoesOn(g, "update")
  BY <1>1, <1>3, <1>5 DEF DatabaseSucceeds, CallReturns
<1>6. CASE DatabaseFails(Owner(g), effect) /\ AttemptFails(g)
  <2>1. pc'[g] # "update"
    BY <1>6 DEF AttemptFails, Goto, TypeOK, LoopTypeOK
  <2>2. QED
    BY <1>1, <1>3, <1>4, <1>6, <2>1 DEF DatabaseFails, CallReturns
<1>7. QED
  BY <1>1, <1>5, <1>6

LEMMA MarkProcessedStep ==
  ASSUME TypeOK, LoopInv, NEW g \in Threads, MarkProcessed(g)
  PROVE  /\ pc[g] = "update"
         /\ CallReturns(g, "ack")
         /\ StoreTypeOK'
         /\ \A k : Stored(k)' = Stored(k)
         /\ NoNewFailed
<1> DEFINE effect == UpdateEventStatus(msg[g], "processed", attempt[g] - 1)
<1>1. /\ pc[g] = "update"
      /\ \/ DatabaseSucceeds(Owner(g), effect) /\ AttemptGoesOn(g, "ack")
         \/ DatabaseFails(Owner(g), effect) /\ AttemptFails(g)
  BY DEF MarkProcessed
<1>2. msg[g] \in Messages /\ attempt[g] - 1 \in Nat
  BY <1>1 DEF LoopInv, Busy, TypeOK, LoopTypeOK
<1>3. ASSUME effect \/ UNCHANGED docs
      PROVE  /\ StoreTypeOK'
             /\ \A k : Stored(k)' = Stored(k)
             /\ NoNewFailed
  BY <1>2, <1>3, UpdateKeeps DEF TypeOK, EventStatus
<1> HIDE DEF effect
<1>4. QED
  BY <1>1, <1>3 DEF DatabaseSucceeds, DatabaseFails, CallReturns

LEMMA UpdateIgnoringErrorsStep ==
  ASSUME TypeOK, LoopInv, NEW g \in Threads, pc[g] \in Busy,
         NEW s \in EventStatus, UpdateIgnoringErrors(g, s)
  PROVE  /\ UNCHANGED faults \/ SpendFault("db")
         /\ StoreTypeOK'
         /\ \A k : Stored(k)' = Stored(k)
         /\ s # "failed" => NoNewFailed
         /\ \A i \in DOMAIN docs' : docs'[i].status = "failed" =>
                \/ WebhookID[docs'[i].msg] = WebhookID[msg[g]]
                \/ /\ i \in DOMAIN docs
                   /\ docs[i].status = "failed"
                   /\ docs[i].msg = docs'[i].msg
<1> DEFINE effect == UpdateEventStatus(msg[g], s, attempt[g])
<1>1. DatabaseSucceeds(Owner(g), effect) \/ DatabaseFails(Owner(g), effect)
  BY DEF UpdateIgnoringErrors
<1>2. (effect \/ UNCHANGED docs) /\ (UNCHANGED faults \/ SpendFault("db"))
  BY <1>1 DEF DatabaseSucceeds, DatabaseFails
<1>3. msg[g] \in Messages /\ attempt[g] \in Nat
  BY DEF LoopInv, TypeOK, LoopTypeOK
<1>4. QED
  BY <1>2, <1>3, UpdateKeeps DEF TypeOK
-----------------------------------------------------------------------------
(* What the helpers of the actions do to the variables they change. *)

\* A goroutine that is processing a delivery has one.
LEMMA BusyFacts ==
  ASSUME TypeOK, LoopInv, NEW g \in Threads, pc[g] \in Busy
  PROVE  /\ Owner(g) \in Workers
         /\ msg[g] \in Messages
         /\ attempt[g] \in 1..MaxRetries
         /\ attempt[g] \in Nat
         /\ MaxRetries \in Nat
         /\ pc[g] # "reject" => msg[g] \notin Malformed
  BY OwnerType, WorkerAssumption DEF TypeOK, LoopTypeOK, LoopInv

LEMMA GotoFacts ==
  ASSUME LoopTypeOK, NEW g \in Threads, NEW label \in Busy \cup {"idle", "exited"},
         Goto(g, label)
  PROVE  /\ pc' \in [Threads -> Busy \cup {"idle", "exited"}]
         /\ pc'[g] = label
         /\ \A h \in Threads : h # g => pc'[h] = pc[h]
  BY DEF LoopTypeOK, Goto

LEMMA ReturnFacts ==
  ASSUME LoopTypeOK, NEW g \in Threads, Return(g)
  PROVE  /\ LoopTypeOK'
         /\ pc'[g] = "idle" /\ msg'[g] = NoMessage
         /\ \A h \in Threads : h # g =>
                pc'[h] = pc[h] /\ msg'[h] = msg[h] /\ attempt'[h] = attempt[h]
  BY WorkerAssumption DEF LoopTypeOK, Return, Goto

LEMMA ResetFacts ==
  ASSUME LoopTypeOK, buffer \in [Workers -> SUBSET Messages],
         NEW w \in Workers, NEW label \in {"idle", "exited"}, ResetLoops(w, label)
  PROVE  /\ LoopTypeOK'
         /\ buffer' \in [Workers -> SUBSET Messages]
         /\ buffer'[w] = {}
         /\ \A v \in Workers : v # w => buffer'[v] = buffer[v]
         /\ \A g \in Threads : Owner(g) = w =>
                pc'[g] = label /\ msg'[g] = NoMessage
         /\ \A g \in Threads : Owner(g) # w =>
                pc'[g] = pc[g] /\ msg'[g] = msg[g] /\ attempt'[g] = attempt[g]
  BY WorkerAssumption DEF LoopTypeOK, ResetLoops

LEMMA SpendFacts ==
  ASSUME faults \in [Faults -> Nat], NEW f \in Faults, SpendFault(f)
  PROVE  /\ faults' \in [Faults -> Nat]
         /\ faults'[f] = faults[f] + 1
         /\ \A k \in Faults : k # f => faults'[k] = faults[k]
  BY DEF SpendFault

LEMMA SettleFacts ==
  ASSUME BrokerTypeOK, NEW w \in Workers, NEW m \in Messages,
         NEW where \in Places, Settle(w, m, where)
  PROVE  /\ BrokerTypeOK'
         /\ UNCHANGED <<channel, consuming>>
         /\ channel[w] = "closed" => UNCHANGED <<place, unacked>>
         /\ channel[w] = "open" =>
                /\ place'[m] = where
                /\ unacked'[w] = unacked[w] \ {m}
         /\ \A k \in Messages : k # m => place'[k] = place[k]
         /\ \A v \in Workers : v # w => unacked'[v] = unacked[v]
  BY DEF BrokerTypeOK, Settle

LEMMA CloseFacts ==
  ASSUME BrokerTypeOK, NEW w \in Workers, CloseChannel(w)
  PROVE  /\ BrokerTypeOK'
         /\ channel'[w] = "closed" /\ ~consuming'[w] /\ unacked'[w] = {}
         /\ \A v \in Workers : v # w =>
                /\ channel'[v] = channel[v]
                /\ consuming'[v] = consuming[v]
                /\ unacked'[v] = unacked[v]
         /\ \A m \in Messages :
                place'[m] = IF m \in unacked[w] THEN "ready" ELSE place[m]
  BY DEF BrokerTypeOK, CloseChannel, Places
-----------------------------------------------------------------------------
(* Who holds what.  The actions fall into groups that treat it alike: a       *)
(* goroutine that goes on with its delivery, one that settles it, a process   *)
(* that ends; each other action stands for itself.                            *)

Holding ==
    /\ ChannelsInv
    /\ UnackedInv
    /\ HeldInv
    /\ LoopInv
    /\ SettleOnce

\* A goroutine that goes on with the same delivery, at the broker's leave.
LEMMA AdvanceHolds ==
  ASSUME BrokerTypeOK, LoopTypeOK, Holding, NEW g \in Threads,
         pc[g] \in Busy \ {"reject"},
         NEW label \in Busy \ {"reject"}, Goto(g, label),
         UNCHANGED <<brokerVars, process, buffer, msg>>,
         attempt' \in [Threads -> 0..MaxRetries],
         attempt'[g] \in 1..MaxRetries,
         label \in {"mark_retrying", "backoff"} => attempt'[g] < MaxRetries,
         \A h \in Threads : h # g => attempt'[h] = attempt[h]
  PROVE  BrokerTypeOK' /\ LoopTypeOK' /\ Holding'
<1>1. /\ pc' \in [Threads -> Busy \cup {"idle", "exited"}]
      /\ pc'[g] = label
      /\ \A h \in Threads : h # g => pc'[h] = pc[h]
  BY GotoFacts
<1>2. /\ place' = place /\ unacked' = unacked /\ channel' = channel
      /\ consuming' = consuming /\ process' = process /\ buffer' = buffer
      /\ msg' = msg
  BY DEF brokerVars
<1>3. BrokerTypeOK' /\ LoopTypeOK'
  BY <1>1, <1>2 DEF BrokerTypeOK, LoopTypeOK
<1>4. ChannelsInv'
  BY <1>1, <1>2 DEF Holding, ChannelsInv, Busy
<1>5. UnackedInv' /\ HeldInv'
  BY <1>2 DEF Holding, UnackedInv, HeldInv
<1>6. LoopInv'
  BY <1>1, <1>2 DEF Holding, LoopInv, Busy
<1>7. SettleOnce'
  BY <1>1, <1>2 DEF Holding, SettleOnce, Busy
<1>8. QED
  BY <1>3, <1>4, <1>5, <1>6, <1>7 DEF Holding

\* A goroutine that settles its delivery and returns to consumeLoop.
LEMMA SettleHolds ==
  ASSUME BrokerTypeOK, LoopTypeOK, Holding, buffer \in [Workers -> SUBSET Messages],
         NEW g \in Threads, pc[g] \in Busy,
         NEW where \in {"ready", "acked", "dead", "dropped"},
         Settle(Owner(g), msg[g], where), Return(g), UNCHANGED <<process, buffer>>
  PROVE  BrokerTypeOK' /\ LoopTypeOK' /\ Holding'
<1> DEFINE w == Owner(g)
           m == msg[g]
<1>1. w \in Workers /\ m \in Messages /\ m # NoMessage
  BY OwnerType, WorkerAssumption DEF Holding, LoopInv
<1>2. BrokerTypeOK' /\ UNCHANGED <<channel, consuming>>
  BY <1>1, SettleFacts DEF Places
<1>3. channel[w] \in {"open", "closed"}
  BY <1>1 DEF BrokerTypeOK
<1>4. /\ \A k \in Messages : k # m => place'[k] = place[k]
      /\ \A v \in Workers : v # w => unacked'[v] = unacked[v]
      /\ channel[w] = "closed" => place' = place /\ unacked' = unacked
      /\ channel[w] = "open" => place'[m] = where /\ unacked'[w] = unacked[w] \ {m}
  BY <1>1, SettleFacts DEF Places
<1>5. /\ LoopTypeOK'
      /\ pc'[g] = "idle" /\ msg'[g] = NoMessage
      /\ \A h \in Threads : h # g =>
             pc'[h] = pc[h] /\ msg'[h] = msg[h] /\ attempt'[h] = attempt[h]
  BY ReturnFacts
<1>6. \A k \in Messages : place[k] # "unsent" => place'[k] # "unsent"
  BY <1>1, <1>3, <1>4
<1>7. /\ \A v \in Workers : unacked'[v] \subseteq unacked[v]
      /\ \A v \in Workers : unacked[v] \subseteq Messages
      /\ \A v \in Workers : buffer[v] \subseteq Messages
  BY <1>1, <1>3, <1>4 DEF BrokerTypeOK
<1>8. channel[w] = "open" =>
        /\ m \in unacked[w] \ buffer[w]
        /\ \A h \in Threads \ {g} : Owner(h) = w => msg[h] # m
  BY DEF Holding, SettleOnce
<1> HIDE DEF w, m
<1>9. ChannelsInv'
  BY <1>1, <1>2, <1>5, <1>7 DEF Holding, ChannelsInv, Busy, w
<1>10. UnackedInv'
  <2>1. SUFFICES ASSUME NEW v \in Workers, NEW k \in unacked'[v]
                 PROVE  /\ place'[k] = "unacked"
                        /\ \A u \in Workers \ {v} : k \notin unacked'[u]
    BY DEF UnackedInv
  <2>2. /\ k \in unacked[v] /\ k \in Messages /\ place[k] = "unacked"
        /\ \A u \in Workers \ {v} : k \notin unacked[u]
    BY <1>7 DEF Holding, UnackedInv
  <2>3. k # m \/ channel[w] = "closed"
    BY <1>1, <1>3, <1>4, <1>8, <2>2
  <2>4. QED
    BY <1>4, <1>7, <2>2, <2>3
<1>11. HeldInv'
  BY <1>1, <1>2, <1>3, <1>4, <1>6, <1>7, <1>8 DEF Holding, HeldInv
<1>12. LoopInv'
  BY <1>5, <1>6 DEF Holding, LoopInv, Busy
<1>13. SettleOnce'
  BY <1>1, <1>2, <1>3, <1>4, <1>5, <1>8, OwnerType, WorkerAssumption
     DEF Holding, SettleOnce, LoopInv, Busy
<1>14. QED
  BY <1>2, <1>5, <1>9, <1>10, <1>11, <1>12, <1>13 DEF Holding

\* A process that ends, whether it exits or crashes.
LEMMA EndHolds ==
  ASSUME BrokerTypeOK, LoopTypeOK, Holding, buffer \in [Workers -> SUBSET Messages],
         process \in [Workers -> {"down", "running", "stopping"}],
         NEW w \in Workers, process' = [process EXCEPT ![w] = "down"],
         CloseChannel(w), ResetLoops(w, "exited")
  PROVE  BrokerTypeOK' /\ LoopTypeOK' /\ Holding'
<1>1. /\ BrokerTypeOK'
      /\ channel'[w] = "closed" /\ ~consuming'[w] /\ unacked'[w] = {}
      /\ \A v \in Workers : v # w =>
             /\ channel'[v] = channel[v]
             /\ consuming'[v] = consuming[v]
             /\ unacked'[v] = unacked[v]
      /\ \A m \in Messages :
             place'[m] = IF m \in unacked[w] THEN "ready" ELSE place[m]
  BY CloseFacts
<1>2. /\ LoopTypeOK'
      /\ buffer'[w] = {}
      /\ \A v \in Workers : v # w => buffer'[v] = buffer[v]
      /\ \A g \in Threads : Owner(g) = w => pc'[g] = "exited" /\ msg'[g] = NoMessage
      /\ \A g \in Threads : Owner(g) # w =>
             pc'[g] = pc[g] /\ msg'[g] = msg[g] /\ attempt'[g] = attempt[g]
  BY ResetFacts
<1>3. process'[w] = "down" /\ \A v \in Workers : v # w => process'[v] = process[v]
  OBVIOUS
<1>4. \A m \in Messages : place[m] # "unsent" => place'[m] # "unsent"
  BY <1>1
<1>5. \A v \in Workers : unacked[v] \subseteq Messages /\ buffer[v] \subseteq Messages
  BY DEF BrokerTypeOK
<1>6. ChannelsInv'
  BY <1>1, <1>2, <1>3, OwnerType DEF Holding, ChannelsInv
<1>7. UnackedInv'
  BY <1>1, <1>5 DEF Holding, UnackedInv
<1>8. HeldInv'
  BY <1>1, <1>2, <1>4, <1>5 DEF Holding, HeldInv
<1>9. LoopInv'
  BY <1>2, <1>4, OwnerType DEF Holding, LoopInv, Busy
<1>10. SettleOnce'
  BY <1>1, <1>2, OwnerType DEF Holding, SettleOnce, Busy
<1>11. QED
  BY <1>1, <1>2, <1>6, <1>7, <1>8, <1>9, <1>10 DEF Holding

\* A connection is lost: the goroutines keep what they hold.
LEMMA DisconnectHolds ==
  ASSUME BrokerTypeOK, LoopTypeOK, Holding, buffer \in [Workers -> SUBSET Messages],
         NEW w \in Workers, CloseChannel(w), UNCHANGED <<process, buffer, threadVars>>
  PROVE  BrokerTypeOK' /\ LoopTypeOK' /\ Holding'
<1>1. /\ BrokerTypeOK'
      /\ channel'[w] = "closed" /\ ~consuming'[w] /\ unacked'[w] = {}
      /\ \A v \in Workers : v # w =>
             /\ channel'[v] = channel[v]
             /\ consuming'[v] = consuming[v]
             /\ unacked'[v] = unacked[v]
      /\ \A m \in Messages :
             place'[m] = IF m \in unacked[w] THEN "ready" ELSE place[m]
  BY CloseFacts
<1>2. /\ process' = process /\ buffer' = buffer
      /\ pc' = pc /\ msg' = msg /\ attempt' = attempt
  BY DEF threadVars
<1>3. \A m \in Messages : place[m] # "unsent" => place'[m] # "unsent"
  BY <1>1
<1>4. \A v \in Workers : unacked[v] \subseteq Messages /\ buffer[v] \subseteq Messages
  BY DEF BrokerTypeOK
<1>5. LoopTypeOK'
  BY <1>2 DEF LoopTypeOK
<1>6. ChannelsInv'
  BY <1>1, <1>2 DEF Holding, ChannelsInv
<1>7. UnackedInv'
  BY <1>1, <1>4 DEF Holding, UnackedInv
<1>8. HeldInv'
  BY <1>1, <1>2, <1>3, <1>4 DEF Holding, HeldInv
<1>9. LoopInv'
  BY <1>2, <1>3 DEF Holding, LoopInv
<1>10. SettleOnce'
  BY <1>1, <1>2, OwnerType DEF Holding, SettleOnce
<1>11. QED
  BY <1>1, <1>5, <1>6, <1>7, <1>8, <1>9, <1>10 DEF Holding

\* A message nobody holds arrives in the queue, or expires there.
LEMMA PlaceHolds ==
  ASSUME BrokerTypeOK, LoopTypeOK, Holding, buffer \in [Workers -> SUBSET Messages],
         NEW m \in Messages, place[m] # "unacked",
         NEW where \in {"ready", "dead", "dropped"},
         place' = [place EXCEPT ![m] = where],
         UNCHANGED <<unacked, channel, consuming, process, buffer, threadVars>>
  PROVE  BrokerTypeOK' /\ LoopTypeOK' /\ Holding'
<1>1. /\ place'[m] = where
      /\ \A k \in Messages : k # m => place'[k] = place[k]
      /\ \A k \in Messages : place[k] # "unsent" => place'[k] # "unsent"
      /\ BrokerTypeOK'
  BY DEF BrokerTypeOK, Places
<1>2. /\ unacked' = unacked /\ channel' = channel /\ consuming' = consuming
      /\ process' = process /\ buffer' = buffer
      /\ pc' = pc /\ msg' = msg /\ attempt' = attempt
  BY DEF threadVars
<1>3. \A w \in Workers : unacked[w] \subseteq Messages /\ buffer[w] \subseteq Messages
  BY DEF BrokerTypeOK
<1>4. LoopTypeOK'
  BY <1>2 DEF LoopTypeOK
<1>5. ChannelsInv' /\ SettleOnce'
  BY <1>2 DEF Holding, ChannelsInv, SettleOnce
<1>6. UnackedInv'
  BY <1>1, <1>2, <1>3 DEF Holding, UnackedInv
<1>7. HeldInv' /\ LoopInv'
  BY <1>1, <1>2, <1>3 DEF Holding, HeldInv, LoopInv
<1>8. QED
  BY <1>1, <1>4, <1>5, <1>6, <1>7 DEF Holding

\* A ready message is pushed to a worker.
LEMMA DeliverHolds ==
  ASSUME BrokerTypeOK, LoopTypeOK, Holding, buffer \in [Workers -> SUBSET Messages],
         NEW w \in Workers, DeliverTo(w)
  PROVE  /\ BrokerTypeOK' /\ LoopTypeOK' /\ Holding'
         /\ buffer' \in [Workers -> SUBSET Messages]
<1>1. PICK m \in Messages :
        /\ Deliver(w, m)
        /\ buffer' = [buffer EXCEPT ![w] = @ \cup {m}]
        /\ UNCHANGED <<process, threadVars>>
  BY DEF DeliverTo
<1>2. /\ consuming[w] /\ place[m] = "ready"
      /\ place'[m] = "unacked"
      /\ \A k \in Messages : k # m => place'[k] = place[k]
      /\ \A k \in Messages : place[k] # "unsent" => place'[k] # "unsent"
      /\ unacked'[w] = unacked[w] \cup {m}
      /\ \A v \in Workers : v # w => unacked'[v] = unacked[v]
      /\ channel' = channel /\ consuming' = consuming
      /\ BrokerTypeOK'
  BY <1>1 DEF Deliver, BrokerTypeOK, Places
<1>3. /\ buffer' \in [Workers -> SUBSET Messages]
      /\ buffer'[w] = buffer[w] \cup {m}
      /\ \A v \in Workers : v # w => buffer'[v] = buffer[v]
  BY <1>1
<1>4. process' = process /\ pc' = pc /\ msg' = msg /\ attempt' = attempt
  BY <1>1 DEF threadVars
<1>5. \A v \in Workers :
        /\ unacked[v] \subseteq Messages
        /\ buffer[v] \subseteq Messages
        /\ m \notin unacked[v]
  BY <1>2 DEF BrokerTypeOK, Holding, UnackedInv
<1>6. channel[w] = "open"
  BY <1>2 DEF Holding, ChannelsInv
<1>7. LoopTypeOK'
  BY <1>4 DEF LoopTypeOK
<1>8. ChannelsInv'
  BY <1>2, <1>4, <1>6 DEF Holding, ChannelsInv
<1>9. UnackedInv'
  BY <1>2, <1>5 DEF Holding, UnackedInv
<1>10. HeldInv' /\ LoopInv'
  BY <1>2, <1>3, <1>4, <1>5, WorkerAssumption DEF Holding, HeldInv, LoopInv
<1>11. SettleOnce'
  BY <1>2, <1>3, <1>4, <1>5, OwnerType DEF Holding, SettleOnce
<1>12. QED
  BY <1>2, <1>3, <1>7, <1>8, <1>9, <1>10, <1>11 DEF Holding

\* A goroutine takes a delivery out of its process's buffer.
LEMMA ReceiveHolds ==
  ASSUME BrokerTypeOK, LoopTypeOK, Holding, buffer \in [Workers -> SUBSET Messages],
         process \in [Workers -> {"down", "running", "stopping"}],
         NEW g \in Threads, Receive(g)
  PROVE  /\ BrokerTypeOK' /\ LoopTypeOK' /\ Holding'
         /\ buffer' \in [Workers -> SUBSET Messages]
<1> DEFINE w == Owner(g)
<1>1. w \in Workers
  BY OwnerType
<1>2. PICK m \in buffer[w] :
        /\ buffer' = [buffer EXCEPT ![w] = @ \ {m}]
        /\ msg' = [msg EXCEPT ![g] = m]
        /\ attempt' = [attempt EXCEPT ![g] = 1]
        /\ Goto(g, IF m \in Malformed THEN "reject" ELSE "insert")
  BY DEF Receive
<1> DEFINE label == IF m \in Malformed THEN "reject" ELSE "insert"
<1>3. m \in Messages /\ m # NoMessage /\ pc[g] = "idle"
  BY <1>1, WorkerAssumption DEF Receive
<1>4. /\ pc' \in [Threads -> Busy \cup {"idle", "exited"}]
      /\ pc'[g] = label
      /\ \A h \in Threads : h # g => pc'[h] = pc[h]
  BY <1>2, GotoFacts DEF Busy
<1>5. /\ msg'[g] = m /\ attempt'[g] = 1
      /\ \A h \in Threads : h # g => msg'[h] = msg[h] /\ attempt'[h] = attempt[h]
  BY <1>2 DEF LoopTypeOK
<1>6. /\ buffer' \in [Workers -> SUBSET Messages]
      /\ buffer'[w] = buffer[w] \ {m}
      /\ \A v \in Workers : v # w => buffer'[v] = buffer[v]
  BY <1>1, <1>2
<1>7. /\ place' = place /\ unacked' = unacked /\ channel' = channel
      /\ consuming' = consuming /\ process' = process
  BY DEF Receive, brokerVars
<1>8. BrokerTypeOK'
  BY <1>7 DEF BrokerTypeOK
<1>9. LoopTypeOK'
  <2>1. 1 \in 0..MaxRetries
    BY WorkerAssumption
  <2>2. QED
    BY <1>2, <1>3, <1>4, <2>1 DEF LoopTypeOK
<1>10. label \in {"reject", "insert"} /\ (m \in Malformed) = (label = "reject")
  OBVIOUS
<1> HIDE DEF w, label
<1>11. ChannelsInv'
  BY <1>1, <1>3, <1>4, <1>7 DEF Holding, ChannelsInv, w
<1>12. UnackedInv' /\ HeldInv'
  BY <1>1, <1>6, <1>7 DEF Holding, UnackedInv, HeldInv
<1>13. LoopInv'
  <2>1. place[m] # "unsent"
    BY <1>1 DEF Holding, HeldInv
  <2>2. 1 \in 1..MaxRetries
    BY WorkerAssumption
  <2>3. QED
    BY <1>3, <1>4, <1>5, <1>7, <1>10, <2>1, <2>2 DEF Holding, LoopInv, Busy
<1>14. SettleOnce'
  <2>1. channel[w] = "open" => m \in unacked[w]
    BY <1>1 DEF Holding, HeldInv
  <2>2. \A h \in Threads : Owner(h) = w /\ channel[w] = "open" => msg[h] # m
    BY <1>3 DEF Holding, SettleOnce, LoopInv
  <2>3. QED
    BY <1>1, <1>3, <1>4, <1>5, <1>6, <1>7, <2>1, <2>2, OwnerType
       DEF Holding, SettleOnce, Busy, w
<1>15. QED
  BY <1>6, <1>8, <1>9, <1>11, <1>12, <1>13, <1>14 DEF Holding

\* A goroutine returns from consumeLoop.
LEMMA ExitLoopHolds ==
  ASSUME BrokerTypeOK, LoopTypeOK, Holding, buffer \in [Workers -> SUBSET Messages],
         NEW g \in Threads, ExitLoop(g)
  PROVE  /\ BrokerTypeOK' /\ LoopTypeOK' /\ Holding'
         /\ buffer' \in [Workers -> SUBSET Messages]
<1>1. /\ pc' \in [Threads -> Busy \cup {"idle", "exited"}]
      /\ pc[g] = "idle" /\ pc'[g] = "exited"
      /\ \A h \in Threads : h # g => pc'[h] = pc[h]
  BY GotoFacts DEF ExitLoop
<1>2. /\ place' = place /\ unacked' = unacked /\ channel' = channel
      /\ consuming' = consuming /\ process' = process
      /\ msg' = msg /\ attempt' = attempt
  BY DEF ExitLoop, brokerVars
<1>3. /\ buffer' \in [Workers -> SUBSET Messages]
      /\ \A v \in Workers : buffer'[v] \subseteq buffer[v]
  BY OwnerType DEF ExitLoop
<1>4. BrokerTypeOK' /\ LoopTypeOK'
  BY <1>1, <1>2 DEF BrokerTypeOK, LoopTypeOK
<1>5. ChannelsInv'
  BY <1>1, <1>2 DEF Holding, ChannelsInv
<1>6. UnackedInv' /\ HeldInv'
  BY <1>2, <1>3 DEF Holding, UnackedInv, HeldInv
<1>7. LoopInv' /\ SettleOnce'
  BY <1>1, <1>2, <1>3, OwnerType DEF Holding, LoopInv, SettleOnce, Busy
<1>8. QED
  BY <1>3, <1>4, <1>5, <1>6, <1>7 DEF Holding

\* A process starts with a fresh channel and idle goroutines.
LEMMA StartHolds ==
  ASSUME BrokerTypeOK, LoopTypeOK, Holding, buffer \in [Workers -> SUBSET Messages],
         process \in [Workers -> {"down", "running", "stopping"}],
         NEW w \in Workers, StartWorker(w)
  PROVE  BrokerTypeOK' /\ LoopTypeOK' /\ Holding'
<1>1. /\ LoopTypeOK'
      /\ buffer'[w] = {}
      /\ \A v \in Workers : v # w => buffer'[v] = buffer[v]
      /\ \A g \in Threads : Owner(g) = w => pc'[g] = "idle" /\ msg'[g] = NoMessage
      /\ \A g \in Threads : Owner(g) # w =>
             pc'[g] = pc[g] /\ msg'[g] = msg[g] /\ attempt'[g] = attempt[g]
  BY ResetFacts DEF StartWorker
<1>2. /\ place' = place /\ unacked' = unacked
      /\ channel'[w] = "open" /\ process'[w] = "running"
      /\ \A v \in Workers : v # w =>
             /\ channel'[v] = channel[v]
             /\ consuming'[v] = consuming[v]
             /\ process'[v] = process[v]
      /\ BrokerTypeOK'
  BY DEF StartWorker, OpenChannel, BrokerTypeOK
<1>3. ChannelsInv'
  BY <1>1, <1>2, OwnerType DEF Holding, ChannelsInv
<1>4. UnackedInv' /\ HeldInv'
  BY <1>1, <1>2 DEF Holding, UnackedInv, HeldInv
<1>5. LoopInv' /\ SettleOnce'
  BY <1>1, <1>2, OwnerType DEF Holding, LoopInv, SettleOnce, Busy
<1>6. QED
  BY <1>1, <1>2, <1>3, <1>4, <1>5 DEF Holding

\* The context is cancelled, or the consumer is.
LEMMA StopHolds ==
  ASSUME BrokerTypeOK, LoopTypeOK, Holding,
         process \in [Workers -> {"down", "running", "stopping"}],
         NEW w \in Workers, Signal(w) \/ StopConsuming(w)
  PROVE  BrokerTypeOK' /\ LoopTypeOK' /\ Holding'
<1>1. /\ place' = place /\ unacked' = unacked /\ channel' = channel
      /\ buffer' = buffer /\ pc' = pc /\ msg' = msg /\ attempt' = attempt
  BY DEF Signal, StopConsuming, CancelConsumer, brokerVars, threadVars
<1>2. /\ BrokerTypeOK'
      /\ \A v \in Workers : consuming'[v] => consuming[v]
      /\ \A v \in Workers : process'[v] = "down" => process[v] = "down"
  BY DEF Signal, StopConsuming, CancelConsumer, BrokerTypeOK, brokerVars
<1>3. LoopTypeOK'
  BY <1>1 DEF LoopTypeOK
<1>4. ChannelsInv'
  BY <1>1, <1>2 DEF Holding, ChannelsInv
<1>5. UnackedInv' /\ HeldInv' /\ LoopInv' /\ SettleOnce'
  BY <1>1 DEF Holding, UnackedInv, HeldInv, LoopInv, SettleOnce
<1>6. QED
  BY <1>2, <1>3, <1>4, <1>5 DEF Holding

\* What an attempt at storing an event does to who holds what.
LEMMA AttemptHolds ==
  ASSUME TypeOK, Holding, NEW g \in Threads, pc[g] \in {"insert", "update"},
         NEW label \in {"update", "ack"}, CallReturns(g, label)
  PROVE  /\ BrokerTypeOK' /\ LoopTypeOK' /\ Holding'
         /\ UNCHANGED <<process, buffer>>
         /\ exhausted' \subseteq Messages
         /\ faults' \in [Faults -> Nat]
<1>1. /\ UNCHANGED <<brokerVars, process, buffer, msg>> /\ attempt' = attempt
      /\ \/ Goto(g, label) /\ exhausted' = exhausted
         \/ /\ Goto(g, "mark_retrying") /\ attempt[g] < MaxRetries
            /\ exhausted' = exhausted
         \/ Goto(g, "mark_failed") /\ exhausted' = exhausted \cup {msg[g]}
  BY DEF CallReturns, AttemptGoesOn, AttemptFails
<1>2. pc[g] \in Busy \ {"reject"} /\ {"update", "ack", "mark_retrying", "mark_failed"}
                                      \subseteq Busy \ {"reject"}
  BY DEF Busy
<1>3. msg[g] \in Messages /\ attempt[g] \in 1..MaxRetries
  BY <1>2, BusyFacts DEF Holding
<1>4. attempt' \in [Threads -> 0..MaxRetries] /\ BrokerTypeOK /\ LoopTypeOK
  BY <1>1 DEF TypeOK, LoopTypeOK
<1>5. BrokerTypeOK' /\ LoopTypeOK' /\ Holding'
  <2>1. CASE Goto(g, label)
    BY <1>1, <1>2, <1>3, <1>4, <2>1, AdvanceHolds
  <2>2. CASE Goto(g, "mark_retrying") /\ attempt[g] < MaxRetries
    BY <1>1, <1>2, <1>3, <1>4, <2>2, AdvanceHolds
  <2>3. CASE Goto(g, "mark_failed")
    BY <1>1, <1>2, <1>3, <1>4, <2>3, AdvanceHolds
  <2>4. QED
    BY <1>1, <2>1, <2>2, <2>3
<1>6. exhausted' \subseteq Messages
  BY <1>1, <1>3 DEF TypeOK
<1>7. faults' \in [Faults -> Nat]
  BY SpendFacts DEF CallReturns, TypeOK, Faults
<1>8. QED
  BY <1>1, <1>5, <1>6, <1>7

\* A status update whose error is ignored, followed by the next step.
LEMMA IgnoringHolds ==
  ASSUME TypeOK, Holding, NEW g \in Threads,
         MarkRetrying(g) \/ MarkFailed(g)
  PROVE  /\ StoreTypeOK' /\ BrokerTypeOK' /\ LoopTypeOK' /\ Holding'
         /\ UNCHANGED <<process, buffer, exhausted>>
         /\ faults' \in [Faults -> Nat]
<1>1. PICK label \in {"backoff", "ack"} :
        /\ pc[g] \in {"mark_retrying", "mark_failed"}
        /\ label = "backoff" => pc[g] = "mark_retrying"
        /\ AttemptGoesOn(g, label)
  BY DEF MarkRetrying, MarkFailed
<1>2. PICK s \in EventStatus : UpdateIgnoringErrors(g, s)
  BY DEF MarkRetrying, MarkFailed, EventStatus
<1>3. pc[g] \in Busy \ {"reject"} /\ label \in Busy \ {"reject"}
  BY <1>1 DEF Busy
<1>4. StoreTypeOK' /\ (UNCHANGED faults \/ SpendFault("db"))
  BY <1>2, <1>3, UpdateIgnoringErrorsStep DEF Holding
<1>5. faults' \in [Faults -> Nat]
  BY <1>4, SpendFacts DEF TypeOK, Faults
<1>6. attempt[g] \in 1..MaxRetries /\ (pc[g] = "mark_retrying" => attempt[g] < MaxRetries)
  BY <1>3, BusyFacts DEF Holding, LoopInv
<1>7. /\ Goto(g, label)
      /\ UNCHANGED <<brokerVars, process, buffer, msg, exhausted>>
      /\ attempt' = attempt
  BY <1>1 DEF AttemptGoesOn
<1>8. BrokerTypeOK /\ LoopTypeOK /\ attempt' \in [Threads -> 0..MaxRetries]
  BY <1>7 DEF TypeOK, LoopTypeOK
<1>9. BrokerTypeOK' /\ LoopTypeOK' /\ Holding'
  BY <1>1, <1>3, <1>6, <1>7, <1>8, AdvanceHolds
<1>10. QED
  BY <1>4, <1>5, <1>7, <1>9

\* The backoff timer fires.
LEMMA RetryHolds ==
  ASSUME TypeOK, Holding, NEW g \in Threads, Retry(g)
  PROVE  BrokerTypeOK' /\ LoopTypeOK' /\ Holding'
<1>1. /\ pc[g] \in Busy \ {"reject"}
      /\ Goto(g, "insert")
      /\ UNCHANGED <<brokerVars, process, buffer, msg>>
      /\ attempt' = [attempt EXCEPT ![g] = @ + 1]
  BY DEF Retry, Busy
<1>2. attempt[g] \in 1..MaxRetries /\ attempt[g] < MaxRetries /\ MaxRetries \in Nat
  BY <1>1, BusyFacts DEF Holding, LoopInv, Retry
<1>3. attempt[g] + 1 \in 1..MaxRetries
  BY <1>2
<1>4. /\ attempt' \in [Threads -> 0..MaxRetries]
      /\ attempt'[g] \in 1..MaxRetries
      /\ \A h \in Threads : h # g => attempt'[h] = attempt[h]
      /\ BrokerTypeOK /\ LoopTypeOK
  BY <1>1, <1>3 DEF TypeOK, LoopTypeOK
<1>5. "insert" \in Busy \ {"reject"}
  BY DEF Busy
<1>6. QED
  BY <1>1, <1>4, <1>5, AdvanceHolds

\* Every step keeps the types and who holds what.
LEMMA HoldingStep ==
  ASSUME TypeOK, Holding, [Next]_vars
  PROVE  TypeOK' /\ Holding'
<1> USE DEF TypeOK
<1>1. StoreTypeOK' /\ LoopInv
  <2>1. LoopInv
    BY DEF Holding
  <2>2. ASSUME NEW g \in Threads, Insert(g) PROVE StoreTypeOK'
    BY <2>1, <2>2, InsertStep DEF StoreGrowsBy
  <2>3. ASSUME NEW g \in Threads, MarkProcessed(g) PROVE StoreTypeOK'
    BY <2>1, <2>3, MarkProcessedStep
  <2>4. ASSUME NEW g \in Threads, MarkRetrying(g) \/ MarkFailed(g) PROVE StoreTypeOK'
    BY <2>4, IgnoringHolds
  <2>5. ASSUME UNCHANGED docs PROVE StoreTypeOK'
    BY <2>5 DEF StoreTypeOK
  <2>6. QED
    BY <2>1, <2>2, <2>3, <2>4, <2>5 DEF Next, Step, vars, Publish, ExpireMessage,
       Receive, RejectMalformed, Retry, NackOnShutdown, AckMessage, ExitLoop,
       StartWorker, DeliverTo, StopConsuming, Exit, Signal, Crash, Disconnect
<1>2. ASSUME NEW m \in Messages, Publish(m)
      PROVE  TypeOK' /\ Holding'
  BY <1>1, <1>2, PlaceHolds DEF Publish, Enqueue
<1>3. ASSUME NEW m \in Messages, ExpireMessage(m)
      PROVE  TypeOK' /\ Holding'
  BY <1>1, <1>3, PlaceHolds DEF ExpireMessage, Expire, DeadLetter
<1>4. ASSUME NEW g \in Threads, Receive(g)
      PROVE  TypeOK' /\ Holding'
  BY <1>1, <1>4, ReceiveHolds DEF Receive
<1>5. ASSUME NEW g \in Threads, RejectMalformed(g)
      PROVE  TypeOK' /\ Holding'
  BY <1>1, <1>5, SettleHolds DEF RejectMalformed, NackDiscard, DeadLetter, Busy
<1>6. ASSUME NEW g \in Threads, Insert(g)
      PROVE  TypeOK' /\ Holding'
  BY <1>1, <1>6, InsertStep, AttemptHolds
<1>7. ASSUME NEW g \in Threads, MarkProcessed(g)
      PROVE  TypeOK' /\ Holding'
  BY <1>1, <1>7, MarkProcessedStep, AttemptHolds
<1>8. ASSUME NEW g \in Threads, MarkRetrying(g) \/ MarkFailed(g)
      PROVE  TypeOK' /\ Holding'
  BY <1>1, <1>8, IgnoringHolds
<1>9. ASSUME NEW g \in Threads, Retry(g)
      PROVE  TypeOK' /\ Holding'
  BY <1>1, <1>9, RetryHolds DEF Retry
<1>10. ASSUME NEW g \in Threads, NackOnShutdown(g)
       PROVE  TypeOK' /\ Holding'
  BY <1>1, <1>10, SettleHolds DEF NackOnShutdown, NackRequeue, Busy
<1>11. ASSUME NEW g \in Threads, AckMessage(g)
       PROVE  TypeOK' /\ Holding'
  BY <1>1, <1>11, SettleHolds DEF AckMessage, Ack, Busy
<1>12. ASSUME NEW g \in Threads, ExitLoop(g)
       PROVE  TypeOK' /\ Holding'
  BY <1>1, <1>12, ExitLoopHolds DEF ExitLoop
<1>13. ASSUME NEW w \in Workers, StartWorker(w)
       PROVE  TypeOK' /\ Holding'
  BY <1>1, <1>13, StartHolds, ResetFacts DEF StartWorker
<1>14. ASSUME NEW w \in Workers, DeliverTo(w)
       PROVE  TypeOK' /\ Holding'
  BY <1>1, <1>14, DeliverHolds DEF DeliverTo
<1>15. ASSUME NEW w \in Workers, StopConsuming(w)
       PROVE  TypeOK' /\ Holding'
  BY <1>1, <1>15, StopHolds DEF StopConsuming
<1>16. ASSUME NEW w \in Workers, Exit(w)
       PROVE  TypeOK' /\ Holding'
  BY <1>1, <1>16, EndHolds, ResetFacts DEF Exit
<1>17. ASSUME NEW w \in Workers, Signal(w)
       PROVE  TypeOK' /\ Holding'
  BY <1>1, <1>17, StopHolds, SpendFacts DEF Signal, Faults
<1>18. ASSUME NEW w \in Workers, Crash(w)
       PROVE  TypeOK' /\ Holding'
  BY <1>1, <1>18, EndHolds, ResetFacts, SpendFacts DEF Crash, Faults
<1>19. ASSUME NEW w \in Workers, Disconnect(w)
       PROVE  TypeOK' /\ Holding'
  BY <1>1, <1>19, DisconnectHolds, SpendFacts DEF Disconnect, Faults
<1>20. CASE UNCHANGED vars
  BY <1>20 DEF vars, brokerVars, threadVars, BrokerTypeOK, LoopTypeOK, StoreTypeOK,
     Holding, ChannelsInv, UnackedInv, HeldInv, LoopInv, SettleOnce
<1>21. QED
  BY <1>2, <1>3, <1>4, <1>5, <1>6, <1>7, <1>8, <1>9, <1>10, <1>11, <1>12,
     <1>13, <1>14, <1>15, <1>16, <1>17, <1>18, <1>19, <1>20 DEF Next, Step
-----------------------------------------------------------------------------
(* What has been achieved, and what it cost. *)

Effects ==
    /\ AchievedInv
    /\ AckedAccountedFor
    /\ FailedEarned
    /\ PoisonSeparated
    /\ PaidInv

\* Steps that touch neither the collection nor the set of exhausted messages,
\* settle only what may be settled, and move goroutines only to labels that
\* claim nothing.
LEMMA QuietEffects ==
  ASSUME TypeOK, Effects,
         docs' = docs, exhausted' = exhausted, faults'["db"] >= faults["db"],
         faults["db"] \in Nat, faults'["db"] \in Nat, TypeOK',
         \A g \in Threads : pc'[g] \in Busy =>
             \/ pc'[g] = pc[g] /\ msg'[g] = msg[g] /\ attempt'[g] = attempt[g]
             \/ pc'[g] \in {"insert", "reject"} /\ faults'["db"] >= attempt'[g] - 1,
         \A w \in Workers : process'[w] = "running" =>
             \/ process[w] = "running"
             \/ \A g \in Threads : Owner(g) = w => pc'[g] \notin Busy,
         \A m \in Messages : place'[m] = "acked" =>
             \/ place[m] = "acked"
             \/ (Stored(m) \/ m \in exhausted) /\ m \notin Malformed,
         \A m \in Messages : place'[m] \in {"dead", "dropped"} =>
             \/ place[m] \in {"dead", "dropped"}
             \/ m \in Malformed \/ HasTTL
  PROVE  Effects'
<1>1. \A k : Stored(k)' = Stored(k)
  BY DEF Stored
<1>2. AchievedInv'
  BY <1>1 DEF Effects, AchievedInv, Busy
<1>3. AckedAccountedFor'
  BY <1>1 DEF Effects, AckedAccountedFor
<1>4. FailedEarned'
  BY DEF Effects, FailedEarned
<1>5. PoisonSeparated'
  BY <1>1 DEF Effects, PoisonSeparated
<1>6. PaidInv'
  <2>1. ShutdownCostsOneAttempt'
    BY WorkerAssumption DEF Effects, PaidInv, ShutdownCostsOneAttempt
  <2>2. ASSUME NEW g \in Threads, pc'[g] \in Busy
        PROVE  faults'["db"] >= attempt'[g] - 1
    <3>1. attempt[g] \in 0..MaxRetries /\ attempt'[g] \in 0..MaxRetries
      BY DEF TypeOK, LoopTypeOK
    <3>2. QED
      BY <2>2, <3>1, WorkerAssumption DEF Effects, PaidInv
  <2>3. ASSUME NEW g \in Threads, pc'[g] \in {"mark_retrying", "backoff"},
               process'[Owner(g)] = "running"
        PROVE  faults'["db"] >= attempt'[g]
    <3>1. pc'[g] \in Busy /\ pc'[g] \notin {"insert", "reject"}
      BY <2>3 DEF Busy
    <3>2. pc[g] \in {"mark_retrying", "backoff"} /\ attempt'[g] = attempt[g]
      BY <2>3, <3>1
    <3>3. process[Owner(g)] = "running"
      BY <2>3, <3>1, OwnerType
    <3>4. attempt[g] \in 0..MaxRetries
      BY DEF TypeOK, LoopTypeOK
    <3>5. QED
      BY <3>2, <3>3, <3>4, WorkerAssumption DEF Effects, PaidInv
  <2>4. QED
    BY <2>1, <2>2, <2>3 DEF PaidInv
<1>7. QED
  BY <1>2, <1>3, <1>4, <1>5, <1>6 DEF Effects

\* An attempt that gets past a call has done what its next label claims; one
\* that fails has been paid for, unless the context was cancelled.
LEMMA AttemptEffects ==
  ASSUME TypeOK, Holding, Effects, TypeOK',
         NEW g \in Threads, pc[g] \in {"insert", "update"},
         NEW label \in {"update", "ack"}, CallReturns(g, label),
         StoreGrowsBy(msg[g]), NoNewFailed,
         pc'[g] \in {"update", "ack"} => \A k : k = msg[g] => Stored(k)'
  PROVE  Effects'
<1>1. /\ place' = place /\ process' = process /\ msg' = msg /\ attempt' = attempt
      /\ \/ /\ Goto(g, label) /\ exhausted' = exhausted
            /\ faults' = faults
         \/ /\ Goto(g, "mark_retrying") /\ attempt[g] < MaxRetries
            /\ exhausted' = exhausted
            /\ process[Owner(g)] = "running" => SpendFault("db")
            /\ faults' = faults \/ SpendFault("db")
         \/ /\ Goto(g, "mark_failed") /\ ~(attempt[g] < MaxRetries)
            /\ exhausted' = exhausted \cup {msg[g]}
            /\ faults' = faults \/ SpendFault("db")
  BY DEF CallReturns, AttemptGoesOn, AttemptFails, brokerVars
<1>2. /\ pc[g] \in Busy /\ pc[g] # "reject"
      /\ {"update", "ack", "mark_retrying", "mark_failed"} \subseteq Busy
  BY DEF Busy
<1>3. /\ msg[g] \in Messages \ Malformed /\ attempt[g] \in 1..MaxRetries
      /\ MaxRetries \in Nat /\ \A h \in Threads : attempt[h] \in 0..MaxRetries
  BY <1>2, BusyFacts, WorkerAssumption DEF Holding, TypeOK, LoopTypeOK
<1>4. /\ faults["db"] \in Nat /\ faults'["db"] \in Nat
      /\ SpendFault("db") => faults'["db"] = faults["db"] + 1
      /\ faults'["db"] >= faults["db"]
  BY <1>1, SpendFacts DEF TypeOK, Faults
<1>5. /\ pc'[g] \in {label, "mark_retrying", "mark_failed"}
      /\ pc'[g] = "mark_retrying" =>
             /\ process[Owner(g)] = "running" => faults'["db"] = faults["db"] + 1
      /\ pc'[g] = "mark_failed" =>
             msg[g] \in exhausted' /\ ~(attempt[g] < MaxRetries)
      /\ exhausted' # exhausted => pc'[g] = "mark_failed"
      /\ \A h \in Threads : h # g => pc'[h] = pc[h]
  BY <1>1, <1>2, <1>4, GotoFacts DEF TypeOK
<1>6. exhausted \subseteq exhausted'
  BY <1>1
<1>7. AchievedInv'
  BY <1>1, <1>5, <1>6 DEF Effects, AchievedInv, StoreGrowsBy
<1>8. AckedAccountedFor'
  BY <1>1, <1>6 DEF Effects, AckedAccountedFor, StoreGrowsBy
<1>9. FailedEarned'
  BY <1>6 DEF Effects, FailedEarned, NoNewFailed
<1>10. PoisonSeparated'
  BY <1>1, <1>3 DEF Effects, PoisonSeparated, StoreGrowsBy
<1>11. faults["db"] >= attempt[g] - 1
  BY <1>2 DEF Effects, PaidInv
<1>12. ShutdownCostsOneAttempt'
  <2>1. CASE exhausted' = exhausted
    BY <2>1, <1>3, <1>4 DEF Effects, PaidInv, ShutdownCostsOneAttempt
  <2>2. CASE exhausted' # exhausted
    BY <2>2, <1>3, <1>4, <1>5, <1>11 DEF ShutdownCostsOneAttempt
  <2>3. QED
    BY <2>1, <2>2
<1>13. PaidInv'
  <2>1. ASSUME NEW h \in Threads, pc'[h] \in Busy
        PROVE  faults'["db"] >= attempt'[h] - 1
    BY <2>1, <1>1, <1>3, <1>4, <1>5, <1>11 DEF Effects, PaidInv
  <2>2. ASSUME NEW h \in Threads, pc'[h] \in {"mark_retrying", "backoff"},
               process'[Owner(h)] = "running"
        PROVE  faults'["db"] >= attempt'[h]
    <3>1. CASE h = g
      BY <3>1, <2>2, <1>1, <1>3, <1>4, <1>5, <1>11
    <3>2. CASE h # g
      BY <3>2, <2>2, <1>1, <1>3, <1>4, <1>5 DEF Effects, PaidInv
    <3>3. QED
      BY <3>1, <3>2
  <2>3. QED
    BY <2>1, <2>2, <1>12 DEF PaidInv
<1>14. QED
  BY <1>7, <1>8, <1>9, <1>10, <1>13 DEF Effects

\* A status update whose error is ignored marks documents failed only for an
\* exhausted message.
LEMMA IgnoringEffects ==
  ASSUME TypeOK, Holding, Effects, TypeOK', NEW g \in Threads,
         MarkRetrying(g) \/ MarkFailed(g)
  PROVE  Effects'
<1>1. PICK label \in {"backoff", "ack"} :
        /\ pc[g] \in {"mark_retrying", "mark_failed"}
        /\ label = "backoff" => pc[g] = "mark_retrying"
        /\ label = "ack" => pc[g] = "mark_failed"
        /\ AttemptGoesOn(g, label)
        /\ UpdateIgnoringErrors(g, IF label = "ack" THEN "failed" ELSE "retrying")
  BY DEF MarkRetrying, MarkFailed
<1>2. /\ Goto(g, label)
      /\ place' = place /\ process' = process /\ msg' = msg
      /\ attempt' = attempt /\ exhausted' = exhausted
  BY <1>1 DEF AttemptGoesOn, brokerVars
<1>3. /\ pc[g] \in Busy /\ label \in Busy
      /\ (IF label = "ack" THEN "failed" ELSE "retrying") \in EventStatus
  BY <1>1 DEF Busy, EventStatus
<1>4. /\ UNCHANGED faults \/ SpendFault("db")
      /\ \A k : Stored(k)' = Stored(k)
      /\ label # "ack" => NoNewFailed
      /\ \A i \in DOMAIN docs' : docs'[i].status = "failed" =>
             \/ WebhookID[docs'[i].msg] = WebhookID[msg[g]]
             \/ /\ i \in DOMAIN docs
                /\ docs[i].status = "failed"
                /\ docs[i].msg = docs'[i].msg
  BY <1>1, <1>3, UpdateIgnoringErrorsStep DEF Holding
<1>5. /\ pc'[g] = label
      /\ \A h \in Threads : h # g => pc'[h] = pc[h]
  BY <1>2, <1>3, GotoFacts DEF TypeOK
<1>6. faults["db"] \in Nat /\ faults'["db"] \in Nat /\ faults'["db"] >= faults["db"]
  BY <1>4, SpendFacts DEF TypeOK, Faults
<1>7. /\ MaxRetries \in Nat
      /\ \A h \in Threads : attempt[h] \in Nat
  BY WorkerAssumption DEF TypeOK, LoopTypeOK
<1>8. label = "ack" => msg[g] \in exhausted
  BY <1>1 DEF Effects, AchievedInv
<1>9. AchievedInv'
  BY <1>1, <1>2, <1>4, <1>5, <1>8 DEF Effects, AchievedInv
<1>10. AckedAccountedFor' /\ PoisonSeparated'
  BY <1>2, <1>4 DEF Effects, AckedAccountedFor, PoisonSeparated
<1>11. FailedEarned'
  <2>1. CASE label = "ack"
    BY <2>1, <1>2, <1>4, <1>8 DEF Effects, FailedEarned
  <2>2. CASE label # "ack"
    BY <2>2, <1>2, <1>4 DEF Effects, FailedEarned, NoNewFailed
  <2>3. QED
    BY <2>1, <2>2
<1>12. PaidInv'
  BY <1>1, <1>2, <1>3, <1>5, <1>6, <1>7
     DEF Effects, PaidInv, ShutdownCostsOneAttempt
<1>13. QED
  BY <1>9, <1>10, <1>11, <1>12 DEF Effects

\* Every step keeps what has been achieved and what it cost.
LEMMA EffectsStep ==
  ASSUME TypeOK, Holding, Effects, [Next]_vars
  PROVE  Effects'
<1>1. TypeOK' /\ Holding'
  BY HoldingStep
<1>2. LoopInv
  BY DEF Holding
<1>3. faults["db"] \in Nat /\ faults'["db"] \in Nat
  BY <1>1 DEF TypeOK, Faults
<1>4. ASSUME NEW g \in Threads, Insert(g)
      PROVE  Effects'
  <2>1. pc'[g] # "ack"
    BY <1>2, <1>4, InsertStep, GotoFacts
       DEF CallReturns, AttemptGoesOn, AttemptFails, TypeOK, Busy
  <2>2. QED
    BY <1>1, <1>2, <1>4, <2>1, InsertStep, AttemptEffects
<1>5. ASSUME NEW g \in Threads, MarkProcessed(g)
      PROVE  Effects'
  <2>1. /\ pc[g] = "update" /\ CallReturns(g, "ack") /\ NoNewFailed /\ StoreTypeOK'
        /\ \A k : Stored(k)' = Stored(k)
    BY <1>2, <1>5, MarkProcessedStep
  <2>2. Stored(msg[g])
    BY <2>1 DEF Effects, AchievedInv
  <2>3. StoreGrowsBy(msg[g]) /\ \A k : k = msg[g] => Stored(k)'
    BY <2>1, <2>2 DEF StoreGrowsBy
  <2>4. QED
    BY <1>1, <2>1, <2>3, AttemptEffects
<1>6. ASSUME NEW g \in Threads, MarkRetrying(g) \/ MarkFailed(g)
      PROVE  Effects'
  BY <1>1, <1>6, IgnoringEffects
<1>7. ASSUME NEW m \in Messages, Publish(m) \/ ExpireMessage(m)
      PROVE  Effects'
  <2>1. /\ docs' = docs /\ exhausted' = exhausted /\ faults' = faults
        /\ process' = process /\ pc' = pc /\ msg' = msg /\ attempt' = attempt
    BY <1>7 DEF Publish, ExpireMessage, threadVars
  <2>2. \A k \in Messages : place'[k] # place[k] =>
          \/ place'[k] = "ready"
          \/ place'[k] \in {"dead", "dropped"} /\ HasTTL
    BY <1>7 DEF Publish, Enqueue, ExpireMessage, Expire, DeadLetter, TypeOK, BrokerTypeOK
  <2>3. QED
    BY <1>1, <1>3, <2>1, <2>2, QuietEffects
<1>8. ASSUME NEW g \in Threads, Receive(g) \/ ExitLoop(g) \/ Retry(g)
      PROVE  Effects'
  <2>1. /\ docs' = docs /\ exhausted' = exhausted /\ faults' = faults
        /\ process' = process /\ place' = place
    BY <1>8 DEF Receive, ExitLoop, Retry, brokerVars
  <2>2. ASSUME NEW h \in Threads, pc'[h] \in Busy
        PROVE  \/ pc'[h] = pc[h] /\ msg'[h] = msg[h] /\ attempt'[h] = attempt[h]
               \/ pc'[h] \in {"insert", "reject"} /\ faults'["db"] >= attempt'[h] - 1
    <3>1. CASE h # g
      BY <1>8, <3>1 DEF Receive, ExitLoop, Retry, Goto, TypeOK, LoopTypeOK
    <3>2. CASE h = g /\ Receive(g)
      BY <1>3, <2>1, <3>2 DEF Receive, Goto, TypeOK, LoopTypeOK
    <3>3. CASE h = g /\ ExitLoop(g)
      BY <2>2, <3>3 DEF ExitLoop, Goto, TypeOK, LoopTypeOK, Busy
    <3>4. CASE h = g /\ Retry(g)
      <4>1. pc[g] = "backoff" /\ process[Owner(g)] = "running"
        BY <3>4 DEF Retry
      <4>2. faults["db"] >= attempt[g] /\ attempt[g] \in 0..MaxRetries
        BY <4>1 DEF Effects, PaidInv, TypeOK, LoopTypeOK
      <4>3. pc'[g] = "insert" /\ attempt'[g] = attempt[g] + 1
        BY <3>4 DEF Retry, Goto, TypeOK, LoopTypeOK
      <4>4. QED
        BY <1>3, <2>1, <3>4, <4>2, <4>3, WorkerAssumption
    <3>5. QED
      BY <1>8, <3>1, <3>2, <3>3, <3>4
  <2>3. QED
    BY <1>1, <1>3, <2>1, <2>2, QuietEffects
<1>9. ASSUME NEW g \in Threads, RejectMalformed(g) \/ NackOnShutdown(g) \/ AckMessage(g)
      PROVE  Effects'
  <2>1. /\ docs' = docs /\ exhausted' = exhausted /\ faults' = faults
        /\ process' = process /\ Return(g) /\ pc[g] \in Busy
    BY <1>9 DEF RejectMalformed, NackOnShutdown, AckMessage, Busy
  <2>2. /\ pc'[g] = "idle"
        /\ \A h \in Threads : h # g =>
               pc'[h] = pc[h] /\ msg'[h] = msg[h] /\ attempt'[h] = attempt[h]
    BY <2>1, ReturnFacts DEF TypeOK
  <2>3. \/ Settle(Owner(g), msg[g], DeadLetter) /\ pc[g] = "reject"
        \/ Settle(Owner(g), msg[g], "ready")
        \/ Settle(Owner(g), msg[g], "acked") /\ pc[g] = "ack"
    BY <1>9 DEF RejectMalformed, NackDiscard, NackOnShutdown, NackRequeue,
                AckMessage, Ack
  <2>4. msg[g] \in Messages /\ Owner(g) \in Workers
    BY <1>2, <2>1, BusyFacts
  <2>5. \A k \in Messages : place'[k] # place[k] =>
          /\ k = msg[g]
          /\ \/ place'[k] \in {"dead", "dropped"} /\ pc[g] = "reject"
             \/ place'[k] = "ready"
             \/ place'[k] = "acked" /\ pc[g] = "ack"
    BY <2>3, <2>4 DEF Settle, DeadLetter, TypeOK, BrokerTypeOK
  <2>6. /\ pc[g] = "reject" => msg[g] \in Malformed
        /\ pc[g] = "ack" =>
               (Stored(msg[g]) \/ msg[g] \in exhausted) /\ msg[g] \notin Malformed
    BY <1>2, <2>1 DEF Effects, AchievedInv, LoopInv
  <2>7. "idle" \notin Busy
    BY DEF Busy
  <2>8. QED
    BY <1>1, <1>3, <2>1, <2>2, <2>5, <2>6, <2>7, QuietEffects
<1>10. ASSUME NEW w \in Workers, StartWorker(w) \/ Exit(w) \/ Crash(w)
       PROVE  Effects'
  <2>1. PICK label \in {"idle", "exited"} : ResetLoops(w, label)
    BY <1>10 DEF StartWorker, Exit, Crash
  <2>2. \A g \in Threads :
          /\ Owner(g) = w => pc'[g] \notin Busy
          /\ Owner(g) # w =>
                pc'[g] = pc[g] /\ msg'[g] = msg[g] /\ attempt'[g] = attempt[g]
    BY <2>1, ResetFacts DEF TypeOK, Busy
  <2>3. /\ docs' = docs /\ exhausted' = exhausted
        /\ \A v \in Workers : v # w => process'[v] = process[v]
    BY <1>10 DEF StartWorker, Exit, Crash, TypeOK
  <2>4. faults'["db"] >= faults["db"]
    BY <1>3, <1>10, SpendFacts DEF StartWorker, Exit, Crash, TypeOK, Faults
  <2>5. \A k \in Messages : place'[k] = place[k] \/ place'[k] = "ready"
    BY <1>10, CloseFacts DEF StartWorker, OpenChannel, Exit, Crash, TypeOK
  <2>6. QED
    BY <1>1, <1>3, <2>2, <2>3, <2>4, <2>5, QuietEffects
<1>11. ASSUME NEW w \in Workers,
              DeliverTo(w) \/ StopConsuming(w) \/ Signal(w) \/ Disconnect(w)
       PROVE  Effects'
  <2>1. /\ docs' = docs /\ exhausted' = exhausted
        /\ pc' = pc /\ msg' = msg /\ attempt' = attempt
    BY <1>11 DEF DeliverTo, StopConsuming, Signal, Disconnect, threadVars
  <2>2. \A v \in Workers : process'[v] = "running" => process[v] = "running"
    BY <1>11 DEF DeliverTo, StopConsuming, Signal, Disconnect, TypeOK
  <2>3. faults'["db"] >= faults["db"]
    BY <1>3, <1>11, SpendFacts
       DEF DeliverTo, StopConsuming, Signal, Disconnect, TypeOK, Faults
  <2>4. \A k \in Messages : place'[k] = place[k] \/ place'[k] \in {"ready", "unacked"}
    BY <1>11, CloseFacts DEF DeliverTo, Deliver, StopConsuming, CancelConsumer, Signal,
       Disconnect, TypeOK, BrokerTypeOK, brokerVars
  <2>5. QED
    BY <1>1, <1>3, <2>1, <2>2, <2>3, <2>4, QuietEffects
<1>12. CASE UNCHANGED vars
  <2>1. /\ docs' = docs /\ exhausted' = exhausted /\ faults' = faults
        /\ process' = process /\ place' = place
        /\ pc' = pc /\ msg' = msg /\ attempt' = attempt
    BY <1>12 DEF vars, brokerVars, threadVars
  <2>2. QED
    BY <1>1, <1>3, <2>1, QuietEffects
<1>13. QED
  BY <1>4, <1>5, <1>6, <1>7, <1>8, <1>9, <1>10, <1>11, <1>12 DEF Next, Step
-----------------------------------------------------------------------------
(* The theorems. *)

LEMMA InitInv == Init => IndInv
<1> SUFFICES ASSUME Init PROVE IndInv
  OBVIOUS
<1> USE WorkerAssumption, OwnerType DEF Init, StoreInit, BrokerInit
<1>1. TypeOK
  BY DEF TypeOK, StoreTypeOK, BrokerTypeOK, LoopTypeOK, Places
<1>2. ChannelsInv /\ UnackedInv /\ HeldInv /\ LoopInv /\ SettleOnce
  BY DEF ChannelsInv, UnackedInv, HeldInv, LoopInv, SettleOnce, Busy
<1>3. AchievedInv /\ AckedAccountedFor /\ FailedEarned /\ PoisonSeparated
  BY DEF AchievedInv, AckedAccountedFor, FailedEarned, PoisonSeparated, Stored
<1>4. PaidInv
  BY DEF PaidInv, ShutdownCostsOneAttempt, Busy
<1>5. QED
  BY <1>1, <1>2, <1>3, <1>4 DEF IndInv

LEMMA IndInvParts == IndInv <=> TypeOK /\ Holding /\ Effects
  BY DEF IndInv, Holding, Effects

LEMMA NextInv == IndInv /\ [Next]_vars => IndInv'
  BY IndInvParts, HoldingStep, EffectsStep DEF IndInv, Holding, Effects

\* Every reachable state satisfies the inductive invariant.
THEOREM Invariance == Spec => []IndInv
  BY InitInv, NextInv, PTL DEF Spec

\* Type correctness.
THEOREM TypeCorrect == Spec => []TypeOK
<1>1. IndInv => TypeOK
  BY DEF IndInv
<1>2. QED
  BY <1>1, Invariance, PTL

\* No goroutine ever settles a delivery twice, or one another goroutine holds:
\* processor.go ends every delivery with exactly one Ack or Nack.
THEOREM NeverSettledTwice == Spec => []SettleOnce
<1>1. IndInv => SettleOnce
  BY DEF IndInv
<1>2. QED
  BY <1>1, Invariance, PTL

\* No event is acknowledged and lost unless a delivery of it used up every
\* attempt, whatever crashes, disconnections and shutdowns happen.
THEOREM NoSilentLoss == Spec => []AckedAccountedFor
<1>1. IndInv => AckedAccountedFor
  BY DEF IndInv
<1>2. QED
  BY <1>1, Invariance, PTL

\* A "failed" document is never due to some other webhook's failure.
THEOREM FailuresEarned == Spec => []FailedEarned
<1>1. IndInv => FailedEarned
  BY DEF IndInv
<1>2. QED
  BY <1>1, Invariance, PTL

\* Undecodable messages, and only they or expired ones, are dead-lettered.
THEOREM PoisonKeptApart == Spec => []PoisonSeparated
<1>1. IndInv => PoisonSeparated
  BY DEF IndInv
<1>2. QED
  BY <1>1, Invariance, PTL

\* A shutdown takes the place of at most one of the MaxRetries failures that
\* it takes to give an event up.
THEOREM ShutdownCost == Spec => []ShutdownCostsOneAttempt
<1>1. IndInv => ShutdownCostsOneAttempt
  BY DEF IndInv, PaidInv
<1>2. QED
  BY <1>1, Invariance, PTL
-----------------------------------------------------------------------------
(* What the broker waits for, somebody holds. *)

Keeper(w, m) == process[w] # "down" /\ channel[w] = "open" /\ Holds(w, m)

\* A process with a channel holds only what the broker waits for on it.
LEMMA KeeperUnacked ==
  ASSUME IndInv, NEW w \in Workers, NEW m \in Messages, Keeper(w, m)
  PROVE  m \in unacked[w]
<1>1. CASE m \in buffer[w]
  BY <1>1 DEF IndInv, HeldInv, Keeper
<1>2. CASE \E g \in Threads : Owner(g) = w /\ msg[g] = m
  <2>1. PICK g \in Threads : Owner(g) = w /\ msg[g] = m
    BY <1>2
  <2>2. pc[g] \in Busy
    BY <2>1, WorkerAssumption DEF IndInv, LoopInv
  <2>3. QED
    BY <2>1, <2>2 DEF IndInv, SettleOnce, Keeper
<1>3. QED
  BY <1>1, <1>2 DEF Keeper, Holds

\* Steps that deliver nothing, take nothing out of a process's hands and close
\* no channel.
LEMMA KeepingStep ==
  ASSUME NoneStranded,
         \A m \in Messages : place'[m] = "unacked" =>
             /\ place[m] = "unacked"
             /\ \A w \in Workers : Keeper(w, m) => Keeper(w, m)',
         \A g \in Threads : pc'[g] = "exited" /\ process'[Owner(g)] = "running" =>
             \/ channel'[Owner(g)] = "closed"
             \/ /\ pc[g] = "exited" /\ process[Owner(g)] = "running"
                /\ channel'[Owner(g)] = channel[Owner(g)]
  PROVE  NoneStranded'
BY DEF NoneStranded, Keeper

LEMMA StrandedStep == IndInv /\ NoneStranded /\ [Next]_vars => NoneStranded'
<1> SUFFICES ASSUME IndInv, NoneStranded, [Next]_vars PROVE NoneStranded'
  OBVIOUS
<1> USE DEF Keeper, Holds
<1>1. TypeOK /\ BrokerTypeOK /\ LoopTypeOK /\ ChannelsInv /\ LoopInv
  BY DEF IndInv, TypeOK
<1>2. \A g \in Threads :
        /\ Owner(g) \in Workers
        /\ pc[g] \notin Busy => msg[g] \notin Messages
        /\ pc[g] \in Busy => msg[g] \in Messages
  BY <1>1, OwnerType, WorkerAssumption DEF LoopInv
<1>3. ASSUME NEW m \in Messages, Publish(m) \/ ExpireMessage(m)
      PROVE  NoneStranded'
  <2>1. /\ process' = process /\ buffer' = buffer /\ msg' = msg /\ pc' = pc
        /\ channel' = channel
        /\ \A k \in Messages : place'[k] = "unacked" => place[k] = "unacked"
    BY <1>1, <1>3 DEF Publish, Enqueue, ExpireMessage, Expire, DeadLetter, threadVars,
       BrokerTypeOK
  <2>2. QED
    BY <2>1, KeepingStep
<1>4. ASSUME NEW g \in Threads,
             \/ Insert(g) \/ MarkProcessed(g) \/ MarkRetrying(g) \/ MarkFailed(g)
             \/ Retry(g)
      PROVE  NoneStranded'
  <2>1. /\ process' = process /\ buffer' = buffer /\ msg' = msg
        /\ channel' = channel /\ place' = place
        /\ \E label \in Busy : Goto(g, label)
    BY <1>4 DEF Insert, MarkProcessed, MarkRetrying, MarkFailed, Retry,
       AttemptGoesOn, AttemptFails, brokerVars, Busy
  <2>2. \A h \in Threads : pc'[h] = "exited" => pc[h] = "exited"
    BY <1>1, <2>1 DEF Goto, LoopTypeOK, Busy
  <2>3. QED
    BY <1>2, <2>1, <2>2, KeepingStep
<1>5. ASSUME NEW g \in Threads, Receive(g)
      PROVE  NoneStranded'
  <2>1. PICK k \in buffer[Owner(g)] :
          /\ buffer' = [buffer EXCEPT ![Owner(g)] = @ \ {k}]
          /\ msg' = [msg EXCEPT ![g] = k]
          /\ Goto(g, IF k \in Malformed THEN "reject" ELSE "insert")
    BY <1>5 DEF Receive
  <2>2. /\ process' = process /\ channel' = channel /\ place' = place
        /\ pc[g] = "idle"
    BY <1>5 DEF Receive, brokerVars
  <2>3. /\ msg'[g] = k /\ pc[g] \notin Busy
        /\ \A h \in Threads : h # g => msg'[h] = msg[h] /\ pc'[h] = pc[h]
        /\ pc'[g] # "exited"
        /\ \A w \in Workers : buffer[w] \ {k} \subseteq buffer'[w]
        /\ \A w \in Workers : w # Owner(g) => buffer'[w] = buffer[w]
    BY <1>1, <2>1, <2>2 DEF Goto, TypeOK, LoopTypeOK, Busy
  <2>4. ASSUME NEW m \in Messages, NEW w \in Workers, Keeper(w, m)
        PROVE  Keeper(w, m)'
    <3>1. CASE m \in buffer[w]
      BY <3>1, <2>2, <2>3, <2>4
    <3>2. CASE \E h \in Threads : Owner(h) = w /\ msg[h] = m
      BY <3>2, <1>2, <2>2, <2>3, <2>4
    <3>3. QED
      BY <3>1, <3>2, <2>4
  <2>5. QED
    BY <2>2, <2>3, <2>4, KeepingStep
<1>6. ASSUME NEW g \in Threads, RejectMalformed(g) \/ NackOnShutdown(g) \/ AckMessage(g)
      PROVE  NoneStranded'
  <2>1. /\ Return(g) /\ pc[g] \in Busy /\ process' = process /\ buffer' = buffer
        /\ \E where \in {"ready", "acked", "dead", "dropped"} :
               Settle(Owner(g), msg[g], where)
    BY <1>6 DEF RejectMalformed, NackDiscard, NackOnShutdown, NackRequeue,
                AckMessage, Ack, DeadLetter, Busy
  <2>2. PICK where \in {"ready", "acked", "dead", "dropped"} :
               Settle(Owner(g), msg[g], where)
    BY <2>1
  <2>3. /\ channel' = channel
        /\ channel[Owner(g)] = "open" => place'[msg[g]] # "unacked"
        /\ \A k \in Messages : place'[k] = "unacked" => place[k] = "unacked"
    BY <1>1, <1>2, <2>1, <2>2 DEF Settle, BrokerTypeOK
  <2>4. /\ pc'[g] = "idle"
        /\ \A h \in Threads : h # g => pc'[h] = pc[h] /\ msg'[h] = msg[h]
    BY <1>1, <2>1, ReturnFacts
  <2>5. ASSUME NEW m \in Messages, place'[m] = "unacked", NEW w \in Workers, Keeper(w, m)
        PROVE  Keeper(w, m)'
    BY <2>1, <2>3, <2>4, <2>5
  <2>6. QED
    BY <2>1, <2>3, <2>4, <2>5, KeepingStep
<1>7. ASSUME NEW g \in Threads, ExitLoop(g)
      PROVE  NoneStranded'
  <2>1. /\ process' = process /\ channel' = channel /\ place' = place /\ msg' = msg
        /\ \A h \in Threads : h # g => pc'[h] = pc[h]
        /\ process[Owner(g)] = "stopping" \/ channel[Owner(g)] = "closed"
        /\ \A w \in Workers : channel[w] = "open" => buffer'[w] = buffer[w]
    BY <1>1, <1>7 DEF ExitLoop, Goto, brokerVars, TypeOK, LoopTypeOK, BrokerTypeOK
  <2>2. QED
    BY <2>1, KeepingStep
<1>8. ASSUME NEW w \in Workers, StartWorker(w)
      PROVE  NoneStranded'
  <2>1. /\ process[w] = "down" /\ place' = place
        /\ \A v \in Workers : v # w => process'[v] = process[v] /\ channel'[v] = channel[v]
    BY <1>1, <1>8 DEF StartWorker, OpenChannel, TypeOK, BrokerTypeOK
  <2>2. /\ \A v \in Workers : v # w => buffer'[v] = buffer[v]
        /\ \A g \in Threads : Owner(g) # w => pc'[g] = pc[g] /\ msg'[g] = msg[g]
        /\ \A g \in Threads : Owner(g) = w => pc'[g] = "idle"
    BY <1>1, <1>8, ResetFacts DEF StartWorker, TypeOK
  <2>3. QED
    BY <1>2, <2>1, <2>2, KeepingStep
<1>9. ASSUME NEW w \in Workers, DeliverTo(w)
      PROVE  NoneStranded'
  <2>1. PICK k \in Messages :
          /\ Deliver(w, k)
          /\ buffer' = [buffer EXCEPT ![w] = @ \cup {k}]
          /\ UNCHANGED <<docs, process, threadVars, exhausted, faults>>
    BY <1>9 DEF DeliverTo
  <2>2. /\ process' = process /\ channel' = channel /\ msg' = msg /\ pc' = pc
        /\ process[w] # "down" /\ channel[w] = "open"
        /\ k \in buffer'[w]
        /\ \A v \in Workers : buffer[v] \subseteq buffer'[v]
        /\ \A m \in Messages : m # k => place'[m] = place[m]
    BY <1>1, <2>1 DEF Deliver, ChannelsInv, TypeOK, BrokerTypeOK, threadVars
  <2>3. QED
    BY <2>2 DEF NoneStranded
<1>10. ASSUME NEW w \in Workers, StopConsuming(w) \/ Signal(w)
       PROVE  NoneStranded'
  <2>1. /\ channel' = channel /\ place' = place /\ msg' = msg /\ pc' = pc
        /\ buffer' = buffer
        /\ \A v \in Workers : /\ process[v] # "down" => process'[v] # "down"
                              /\ process'[v] = "running" => process[v] = "running"
    BY <1>1, <1>10 DEF StopConsuming, CancelConsumer, Signal, brokerVars, threadVars, TypeOK
  <2>2. QED
    BY <1>2, <2>1, KeepingStep
<1>11. ASSUME NEW w \in Workers, Exit(w) \/ Crash(w) \/ Disconnect(w)
       PROVE  NoneStranded'
  <2>1. CloseChannel(w)
    BY <1>11 DEF Exit, Crash, Disconnect
  <2>2. /\ channel'[w] = "closed"
        /\ \A v \in Workers : v # w => channel'[v] = channel[v]
        /\ \A m \in Messages : place'[m] = "unacked" =>
               place[m] = "unacked" /\ m \notin unacked[w]
    BY <1>1, <2>1, CloseFacts
  <2>3. /\ \A v \in Workers : v # w => process'[v] = process[v] /\ buffer'[v] = buffer[v]
        /\ \A g \in Threads : Owner(g) # w => pc'[g] = pc[g] /\ msg'[g] = msg[g]
    <3>1. CASE Exit(w) \/ Crash(w)
      BY <1>1, <3>1, ResetFacts DEF Exit, Crash, TypeOK
    <3>2. CASE Disconnect(w)
      BY <3>2 DEF Disconnect, threadVars
    <3>3. QED
      BY <1>11, <3>1, <3>2
  <2>4. ASSUME NEW m \in Messages, place'[m] = "unacked", NEW v \in Workers, Keeper(v, m)
        PROVE  Keeper(v, m)'
    <3>1. v # w
      BY <2>2, <2>4, KeeperUnacked
    <3>2. QED
      BY <2>2, <2>3, <2>4, <3>1
  <2>5. QED
    BY <1>2, <2>2, <2>3, <2>4, KeepingStep
<1>12. CASE UNCHANGED vars
  BY <1>12 DEF vars, brokerVars, threadVars, NoneStranded
<1>13. QED
  BY <1>3, <1>4, <1>5, <1>6, <1>7, <1>8, <1>9, <1>10, <1>11, <1>12 DEF Next, Step

\* Every delivery the broker waits for is in the hands of a process that can
\* still settle it.
THEOREM NothingStranded == Spec => []NoneStranded
<1>1. Init => NoneStranded
  BY OwnerType DEF Init, BrokerInit, NoneStranded
<1>2. QED
  BY <1>1, StrandedStep, Invariance, PTL DEF Spec
-----------------------------------------------------------------------------
(* The work on a delivery is bounded. *)

\* What a goroutine has left is a number, and it is something while it is busy.
LEMMA StepsLeftType ==
  ASSUME TypeOK, LoopInv, NEW g \in Threads
  PROVE  /\ StepsLeft(g) \in 0..(5 * MaxRetries)
         /\ pc[g] \in Busy => StepsLeft(g) > 0
<1>1. CASE pc[g] \in Busy
  <2>1. attempt[g] \in 1..MaxRetries /\ MaxRetries \in Nat
    BY <1>1, BusyFacts
  <2>2. StepsAfter[pc[g]] \in 1..5
    BY <1>1 DEF Busy, StepsAfter
  <2>3. StepsLeft(g) = 5 * (MaxRetries - attempt[g]) + StepsAfter[pc[g]]
    BY <1>1 DEF StepsLeft
  <2>4. QED
    BY <2>1, <2>2, <2>3
<1>2. CASE pc[g] \notin Busy
  BY <1>2, WorkerAssumption DEF StepsLeft
<1>3. QED
  BY <1>1, <1>2

LEMMA StepsDecrease ==
  ASSUME TypeOK, LoopInv, TypeOK', LoopInv', [Next]_vars, NEW g \in Threads,
         pc[g] \in Busy, <<pc[g], attempt[g]>>' # <<pc[g], attempt[g]>>
  PROVE  StepsLeft(g)' < StepsLeft(g)
<1>1. /\ LoopTypeOK /\ g \in Threads /\ Owner(g) \in Workers
      /\ attempt[g] \in 1..MaxRetries /\ attempt[g] \in Nat /\ MaxRetries \in Nat
      /\ StepsLeft(g) \in Nat /\ StepsLeft(g) > 0
  BY BusyFacts, StepsLeftType DEF TypeOK
<1>2. ASSUME pc'[g] \notin Busy
      PROVE  StepsLeft(g)' < StepsLeft(g)
  BY <1>1, <1>2 DEF StepsLeft
<1>3. ASSUME NEW h \in Threads, Step(h)
      PROVE  StepsLeft(g)' < StepsLeft(g)
  <2>1. h = g
    <3>1. ASSUME h # g
          PROVE  pc'[g] = pc[g] /\ attempt'[g] = attempt[g]
      BY <1>1, <1>3, <3>1 DEF Step, Receive, RejectMalformed, Insert, MarkProcessed,
         MarkRetrying, Retry, NackOnShutdown, MarkFailed, AckMessage, ExitLoop,
         AttemptGoesOn, AttemptFails, Return, Goto, LoopTypeOK
    <3>2. QED
      BY <3>1
  <2>2. CASE RejectMalformed(h) \/ NackOnShutdown(h) \/ AckMessage(h)
    BY <1>1, <1>2, <2>1, <2>2, ReturnFacts
       DEF RejectMalformed, NackOnShutdown, AckMessage, Busy
  <2>3. CASE Receive(h) \/ ExitLoop(h)
    BY <2>1, <2>3 DEF Receive, ExitLoop, Busy
  <2>4. CASE Insert(h) \/ MarkProcessed(h) \/ MarkRetrying(h) \/ MarkFailed(h)
    <3>1. PICK label \in Busy :
            /\ Goto(g, label) /\ attempt' = attempt
            /\ \/ pc[g] = "insert" /\ label \in {"update", "mark_retrying", "mark_failed"}
               \/ pc[g] = "update" /\ label \in {"ack", "mark_retrying", "mark_failed"}
               \/ pc[g] = "mark_retrying" /\ label = "backoff"
               \/ pc[g] = "mark_failed" /\ label = "ack"
      BY <2>1, <2>4 DEF Insert, MarkProcessed, MarkRetrying, MarkFailed,
         AttemptGoesOn, AttemptFails, Busy
    <3>2. pc'[g] = label
      BY <1>1, <3>1, GotoFacts
    <3>3. StepsAfter[label] \in Nat /\ StepsAfter[label] < StepsAfter[pc[g]]
      BY <3>1 DEF StepsAfter
    <3>4. StepsAfter[pc[g]] \in Nat
      BY <3>1 DEF StepsAfter
    <3>5. /\ StepsLeft(g) = 5 * (MaxRetries - attempt[g]) + StepsAfter[pc[g]]
          /\ StepsLeft(g)' = 5 * (MaxRetries - attempt[g]) + StepsAfter[label]
      BY <3>1, <3>2 DEF StepsLeft
    <3>6. QED
      BY <1>1, <3>3, <3>4, <3>5
  <2>5. CASE Retry(h)
    <3>1. /\ pc[g] = "backoff" /\ pc'[g] = "insert"
          /\ attempt'[g] = attempt[g] + 1
      BY <1>1, <2>1, <2>5 DEF Retry, Goto, LoopTypeOK
    <3>2. /\ StepsLeft(g) = 5 * (MaxRetries - attempt[g]) + 2
          /\ StepsLeft(g)' = 5 * (MaxRetries - attempt'[g]) + 5
      BY <3>1 DEF StepsLeft, StepsAfter, Busy
    <3>3. QED
      BY <1>1, <3>1, <3>2
  <2>6. QED
    BY <1>3, <2>2, <2>3, <2>4, <2>5 DEF Step
<1>4. ASSUME NEW w \in Workers, StartWorker(w) \/ Exit(w) \/ Crash(w)
      PROVE  StepsLeft(g)' < StepsLeft(g)
  <2>1. PICK label \in {"idle", "exited"} : ResetLoops(w, label)
    BY <1>4 DEF StartWorker, Exit, Crash
  <2>2. Owner(g) = w /\ pc'[g] = label
    BY <1>1, <2>1, ResetFacts DEF TypeOK
  <2>3. QED
    BY <1>2, <2>2 DEF Busy
<1>5. CASE UNCHANGED threadVars
  BY <1>5 DEF threadVars
<1>6. QED
  BY <1>3, <1>4, <1>5 DEF Next, vars, threadVars, Publish, ExpireMessage, DeliverTo,
     StopConsuming, Signal, Disconnect

\* However many faults there are, a goroutine ends each delivery within five
\* steps per attempt.
THEOREM DeliveriesAreBounded == Spec => DeliveriesEnd
<1>1. IndInv /\ IndInv' /\ [Next]_vars =>
        [\A g \in Threads :
           /\ StepsLeft(g) \in 0..(5 * MaxRetries)
           /\ pc[g] \in Busy /\ <<pc[g], attempt[g]>>' # <<pc[g], attempt[g]>>
                => StepsLeft(g)' < StepsLeft(g)]_vars
  BY StepsLeftType, StepsDecrease DEF IndInv
<1>2. QED
  BY <1>1, Invariance, PTL DEF Spec, DeliveriesEnd
-----------------------------------------------------------------------------
(* While no connection is lost, one goroutine at a time has a message in hand, *)
(* so nobody undoes the status it gave the document.                           *)

OwnID(m) == \A n \in Messages \ {m} : WebhookID[n] # WebhookID[m]

Processed(m) == \E i \in DOMAIN docs : docs[i].msg = m /\ docs[i].status = "processed"

ConnectedInv == \A w \in Workers : process[w] # "down" => channel[w] = "open"

ProcessedInv ==
    faults["disconnect"] = 0 =>
        /\ ConnectedInv
        /\ \A g \in Threads :
             pc[g] = "ack" /\ OwnID(msg[g]) /\ msg[g] \notin exhausted => Processed(msg[g])
        /\ \A m \in Messages :
             place[m] = "acked" /\ OwnID(m) /\ m \notin exhausted => Processed(m)

LEMMA OneHolder ==
  ASSUME IndInv, ConnectedInv, NEW g \in Threads, pc[g] \in Busy
  PROVE  /\ place[msg[g]] = "unacked"
         /\ \A h \in Threads : pc[h] \in Busy /\ msg[h] = msg[g] => h = g
<1>1. ASSUME NEW h \in Threads, pc[h] \in Busy
      PROVE  /\ Owner(h) \in Workers /\ channel[Owner(h)] = "open"
             /\ msg[h] \in unacked[Owner(h)]
             /\ \A k \in Threads \ {h} : Owner(k) = Owner(h) => msg[k] # msg[h]
  <2>1. Owner(h) \in Workers /\ pc[h] # "exited"
    BY <1>1, OwnerType DEF Busy
  <2>2. channel[Owner(h)] = "open"
    BY <2>1 DEF IndInv, ChannelsInv, ConnectedInv
  <2>3. QED
    BY <1>1, <2>1, <2>2 DEF IndInv, SettleOnce
<1>2. QED
  BY <1>1 DEF IndInv, UnackedInv

\* Inserting adds a document; updating changes only documents with the same id.
LEMMA InsertKeepsProcessed ==
  ASSUME StoreTypeOK, NEW k \in Messages, NEW n \in Nat, InsertEvent(k, n)
  PROVE  \A m : Processed(m) => Processed(m)'
<1> DEFINE d == [msg |-> k, status |-> "pending", retry |-> n]
<1>1. d \in Document
  BY DEF Document, EventStatus
<1>2. docs \in Seq(Document) /\ docs' = Append(docs, d)
  BY DEF StoreTypeOK, InsertEvent
<1> HIDE DEF d
<1>3. \A i \in DOMAIN docs : i \in DOMAIN docs' /\ docs'[i] = docs[i]
  BY <1>1, <1>2
<1>4. QED
  BY <1>3 DEF Processed

LEMMA UpdateKeepsProcessed ==
  ASSUME StoreTypeOK, NEW k \in Messages, NEW s \in EventStatus, NEW n \in Nat,
         UpdateEventStatus(k, s, n)
  PROVE  /\ \A m \in Messages : m # k /\ OwnID(m) /\ Processed(m) => Processed(m)'
         /\ s = "processed" /\ Stored(k) /\ OwnID(k) => Processed(k)'
<1>1. /\ DOMAIN docs' = DOMAIN docs
      /\ \A i \in DOMAIN docs :
             /\ docs'[i].msg = docs[i].msg
             /\ \/ docs'[i].status = docs[i].status
                \/ docs'[i].status = s /\ WebhookID[docs[i].msg] = WebhookID[k]
  BY UpdateFacts
<1>2. ASSUME NEW m \in Messages, m # k, OwnID(m), Processed(m) PROVE Processed(m)'
  <2>1. WebhookID[k] # WebhookID[m]
    BY <1>2 DEF OwnID
  <2>2. QED
    BY <1>1, <1>2, <2>1 DEF Processed
<1>3. ASSUME s = "processed", Stored(k), OwnID(k) PROVE Processed(k)'
  <2>1. Matching(WebhookID[k]) # {}
    BY <1>3 DEF Stored, Matching
  <2>2. PICK i \in Matching(WebhookID[k]) :
             docs' = [docs EXCEPT ![i].status = s, ![i].retry = n]
    BY <2>1 DEF UpdateEventStatus
  <2>3. /\ i \in DOMAIN docs /\ docs[i] \in Document
        /\ WebhookID[docs[i].msg] = WebhookID[k]
    BY <2>2 DEF StoreTypeOK, Matching
  <2>4. docs[i].msg = k
    BY <1>3, <2>3 DEF OwnID, Document
  <2>5. docs'[i] = [docs[i] EXCEPT !.status = s, !.retry = n]
    BY <2>2, <2>3 DEF StoreTypeOK
  <2>6. docs'[i].status = s
    BY <2>3, <2>5 DEF Document
  <2>7. QED
    BY <1>1, <1>3, <2>3, <2>4, <2>6 DEF Processed
<1>4. QED
  BY <1>2, <1>3

\* A goroutine that goes on with its delivery, takes one or gives up.
LEMMA GoingOnKeepsProcessed ==
  ASSUME IndInv, ProcessedInv, faults["disconnect"] = 0, NEW g \in Threads,
         UNCHANGED <<process, place, channel>>, exhausted \subseteq exhausted',
         \A h \in Threads \ {g} : pc'[h] = pc[h] /\ msg'[h] = msg[h],
         pc'[g] = "ack" =>
             /\ pc[g] \in Busy /\ msg'[g] = msg[g]
             /\ msg[g] \in exhausted \/ (OwnID(msg[g]) => Processed(msg[g])'),
         \A m \in Messages : OwnID(m) /\ Processed(m) =>
             Processed(m)' \/ (pc[g] \in Busy /\ m = msg[g])
  PROVE  ProcessedInv'
<1>1. ConnectedInv /\ ConnectedInv'
  BY DEF ProcessedInv, ConnectedInv
<1>2. ASSUME NEW h \in Threads, pc'[h] = "ack", OwnID(msg[h])',
             msg'[h] \notin exhausted'
      PROVE  Processed(msg[h])'
  <2>0. /\ OwnID(msg[h])' <=> OwnID(msg'[h])
    BY DEF OwnID
  <2>1. CASE h = g
    BY <1>2, <2>0, <2>1 DEF Processed
  <2>2. CASE h # g
    <3>1. pc[h] = "ack" /\ msg'[h] = msg[h] /\ pc[h] \in Busy
      BY <1>2, <2>2 DEF Busy
    <3>2. msg[h] \in Messages
      BY <3>1 DEF IndInv, LoopInv
    <3>3. OwnID(msg[h]) /\ Processed(msg[h])
      BY <1>2, <2>0, <3>1 DEF ProcessedInv
    <3>4. ~(pc[g] \in Busy /\ msg[h] = msg[g])
      BY <1>1, <2>2, <3>1, OneHolder
    <3>5. PICK m \in Messages : m = msg[h]
      BY <3>2
    <3>6. Processed(m)'
      BY <3>3, <3>4, <3>5
    <3>7. QED
      BY <3>1, <3>5, <3>6 DEF Processed
  <2>3. QED
    BY <2>1, <2>2
<1>3. ASSUME NEW m \in Messages, place'[m] = "acked", OwnID(m), m \notin exhausted'
      PROVE  Processed(m)'
  <2>1. Processed(m)
    BY <1>3 DEF ProcessedInv
  <2>2. ~(pc[g] \in Busy /\ m = msg[g])
    BY <1>1, <1>3, OneHolder
  <2>3. QED
    BY <1>3, <2>1, <2>2
<1>4. \A m \in Messages : OwnID(m)' = OwnID(m)
  BY DEF OwnID
<1>5. QED
  BY <1>1, <1>2, <1>3, <1>4 DEF ProcessedInv

\* A step that touches no document and brings no goroutine to its ack.
LEMMA QuietKeepsProcessed ==
  ASSUME ProcessedInv, faults["disconnect"] = 0, UNCHANGED <<docs, exhausted>>,
         ConnectedInv => ConnectedInv',
         \A g \in Threads : pc'[g] = "ack" => pc[g] = "ack" /\ msg'[g] = msg[g],
         \A m \in Messages : place'[m] = "acked" =>
             place[m] = "acked" \/ \E g \in Threads : pc[g] = "ack" /\ msg[g] = m
  PROVE  ProcessedInv'
<1>1. \A m : OwnID(m)' = OwnID(m) /\ Processed(m)' = Processed(m)
  BY DEF OwnID, Processed
<1>2. \A g \in Threads : pc'[g] = "ack" /\ OwnID(msg[g])' /\ msg'[g] \notin exhausted'
                             => Processed(msg[g])'
  BY DEF ProcessedInv, OwnID, Processed
<1>3. QED
  BY <1>1, <1>2 DEF ProcessedInv

LEMMA MarkProcessedKeeps ==
  ASSUME IndInv, ProcessedInv, faults["disconnect"] = 0, NEW g \in Threads,
         MarkProcessed(g)
  PROVE  ProcessedInv'
<1> DEFINE effect == UpdateEventStatus(msg[g], "processed", attempt[g] - 1)
<1>1. /\ TypeOK /\ LoopInv /\ StoreTypeOK /\ LoopTypeOK
      /\ exhausted \subseteq Messages
  BY DEF IndInv, TypeOK
<1>2. /\ pc[g] = "update" /\ pc[g] \in Busy
      /\ \/ DatabaseSucceeds(Owner(g), effect) /\ AttemptGoesOn(g, "ack")
         \/ DatabaseFails(Owner(g), effect) /\ AttemptFails(g)
  BY DEF MarkProcessed, Busy
<1>3. msg[g] \in Messages /\ attempt[g] - 1 \in Nat /\ Stored(msg[g])
  BY <1>1, <1>2 DEF LoopInv, LoopTypeOK, IndInv, AchievedInv
<1>4. effect => /\ \A m \in Messages : m # msg[g] /\ OwnID(m) /\ Processed(m)
                                           => Processed(m)'
                /\ OwnID(msg[g]) => Processed(msg[g])' \/ msg'[g] # msg[g]
  <2>1. SUFFICES ASSUME effect
                 PROVE  /\ \A m \in Messages : m # msg[g] /\ OwnID(m) /\ Processed(m)
                                                   => Processed(m)'
                        /\ OwnID(msg[g]) => Processed(msg[g])' \/ msg'[g] # msg[g]
    OBVIOUS
  <2>2. PICK k \in Messages : k = msg[g]
    BY <1>3
  <2>3. /\ \A m \in Messages : m # k /\ OwnID(m) /\ Processed(m) => Processed(m)'
        /\ OwnID(k) => Processed(k)'
    BY <1>1, <1>3, <2>1, <2>2, UpdateKeepsProcessed DEF EventStatus
  <2>4. QED
    BY <2>2, <2>3 DEF Processed
<1>5. UNCHANGED docs => \A m \in Messages : Processed(m) => Processed(m)'
  BY DEF Processed
<1> HIDE DEF effect
<1>6. /\ UNCHANGED <<process, place, channel>> /\ msg' = msg
      /\ exhausted \subseteq exhausted'
      /\ effect \/ UNCHANGED docs
      /\ Goto(g, "ack") => effect
      /\ Goto(g, "ack") \/ Goto(g, "mark_retrying") \/ Goto(g, "mark_failed")
  <2>1. CASE DatabaseSucceeds(Owner(g), effect) /\ AttemptGoesOn(g, "ack")
    BY <2>1 DEF DatabaseSucceeds, AttemptGoesOn, brokerVars
  <2>2. CASE DatabaseFails(Owner(g), effect) /\ AttemptFails(g)
    <3>1. Goto(g, "mark_retrying") \/ Goto(g, "mark_failed")
      BY <2>2 DEF AttemptFails
    <3>2. ~Goto(g, "ack")
      BY <1>1, <3>1, GotoFacts DEF Busy
    <3>3. QED
      BY <2>2, <3>1, <3>2 DEF DatabaseFails, AttemptFails, brokerVars
  <2>3. QED
    BY <1>2, <2>1, <2>2
<1>7. PICK label \in {"ack", "mark_retrying", "mark_failed"} : Goto(g, label)
  BY <1>6
<1>8. pc'[g] = label /\ \A h \in Threads \ {g} : pc'[h] = pc[h]
  BY <1>1, <1>7, GotoFacts DEF Busy
<1>9. \A m \in Messages : OwnID(m) /\ Processed(m) =>
          Processed(m)' \/ (pc[g] \in Busy /\ m = msg[g])
  BY <1>2, <1>4, <1>5, <1>6
<1>10. pc'[g] = "ack" => (OwnID(msg[g]) => Processed(msg[g])')
  BY <1>4, <1>6, <1>7, <1>8 DEF Processed
<1>11. QED
  BY <1>2, <1>6, <1>8, <1>9, <1>10, GoingOnKeepsProcessed

LEMMA InsertKeeps ==
  ASSUME IndInv, ProcessedInv, faults["disconnect"] = 0, NEW g \in Threads,
         Insert(g)
  PROVE  ProcessedInv'
<1> DEFINE effect == InsertEvent(msg[g], attempt[g] - 1)
<1>1. /\ TypeOK /\ LoopInv /\ StoreTypeOK /\ LoopTypeOK
  BY DEF IndInv, TypeOK
<1>2. /\ pc[g] = "insert" /\ pc[g] \in Busy
      /\ \/ DatabaseSucceeds(Owner(g), effect) /\ AttemptGoesOn(g, "update")
         \/ DatabaseFails(Owner(g), effect) /\ AttemptFails(g)
  BY DEF Insert, Busy
<1>3. msg[g] \in Messages /\ attempt[g] - 1 \in Nat
  BY <1>1, <1>2 DEF LoopInv, LoopTypeOK
<1>4. effect \/ UNCHANGED docs => \A m : Processed(m) => Processed(m)'
  BY <1>1, <1>3, InsertKeepsProcessed DEF Processed
<1> HIDE DEF effect
<1>5. /\ UNCHANGED <<process, place, channel>> /\ msg' = msg
      /\ exhausted \subseteq exhausted'
      /\ effect \/ UNCHANGED docs
      /\ Goto(g, "update") \/ Goto(g, "mark_retrying") \/ Goto(g, "mark_failed")
  BY <1>2 DEF DatabaseSucceeds, DatabaseFails, AttemptGoesOn, AttemptFails, brokerVars
<1>6. PICK label \in {"update", "mark_retrying", "mark_failed"} : Goto(g, label)
  BY <1>5
<1>7. pc'[g] = label /\ \A h \in Threads \ {g} : pc'[h] = pc[h]
  BY <1>1, <1>6, GotoFacts DEF Busy
<1>8. QED
  BY <1>4, <1>5, <1>7, GoingOnKeepsProcessed

\* The updates whose errors are ignored are to other statuses.
LEMMA MarkKeeps ==
  ASSUME IndInv, ProcessedInv, faults["disconnect"] = 0, NEW g \in Threads,
         MarkRetrying(g) \/ MarkFailed(g)
  PROVE  ProcessedInv'
<1>1. /\ TypeOK /\ LoopInv /\ StoreTypeOK /\ LoopTypeOK
  BY DEF IndInv, TypeOK
<1>2. PICK s \in EventStatus, label \in {"backoff", "ack"} :
        /\ pc[g] \in {"mark_retrying", "mark_failed"}
        /\ label = "ack" => pc[g] = "mark_failed"
        /\ UpdateIgnoringErrors(g, s)
        /\ AttemptGoesOn(g, label)
  BY DEF MarkRetrying, MarkFailed, EventStatus
<1> DEFINE effect == UpdateEventStatus(msg[g], s, attempt[g])
<1>3. effect \/ UNCHANGED docs
  BY <1>2 DEF UpdateIgnoringErrors, DatabaseSucceeds, DatabaseFails
<1>4. pc[g] \in Busy /\ msg[g] \in Messages /\ attempt[g] \in Nat
  BY <1>1, <1>2, BusyFacts DEF Busy
<1>5. \A m \in Messages : m # msg[g] /\ OwnID(m) /\ Processed(m) => Processed(m)'
  <2>1. CASE UNCHANGED docs
    BY <2>1 DEF Processed
  <2>2. CASE effect
    BY <1>1, <1>4, <2>2, UpdateKeepsProcessed
  <2>3. QED
    BY <1>3, <2>1, <2>2
<1> HIDE DEF effect
<1>6. /\ UNCHANGED <<process, place, channel>> /\ msg' = msg
      /\ exhausted' = exhausted /\ Goto(g, label)
  BY <1>2 DEF AttemptGoesOn, brokerVars
<1>7. pc'[g] = label /\ \A h \in Threads \ {g} : pc'[h] = pc[h]
  BY <1>1, <1>6, GotoFacts DEF Busy
<1>8. label = "ack" => msg[g] \in exhausted
  BY <1>2 DEF IndInv, AchievedInv
<1>9. QED
  BY <1>4, <1>5, <1>6, <1>7, <1>8, GoingOnKeepsProcessed

LEMMA SettlingKeeps ==
  ASSUME IndInv, ProcessedInv, faults["disconnect"] = 0, NEW g \in Threads,
         pc[g] \in Busy, NEW where \in Places,
         Settle(Owner(g), msg[g], where), Return(g),
         where = "acked" => pc[g] = "ack",
         UNCHANGED <<docs, process, exhausted>>
  PROVE  ProcessedInv'
<1>1. /\ TypeOK /\ LoopInv /\ LoopTypeOK /\ BrokerTypeOK
  BY DEF IndInv, TypeOK
<1>2. Owner(g) \in Workers /\ msg[g] \in Messages
  BY <1>1, BusyFacts
<1>3. /\ channel' = channel
      /\ \A m \in Messages : place'[m] = place[m] \/ (m = msg[g] /\ place'[m] = where)
  <2>1. channel[Owner(g)] \in {"open", "closed"}
    BY <1>1, <1>2 DEF BrokerTypeOK
  <2>2. QED
    BY <1>1, <1>2, <2>1, SettleFacts
<1>4. /\ pc'[g] = "idle"
      /\ \A h \in Threads : h # g => pc'[h] = pc[h] /\ msg'[h] = msg[h]
  BY <1>1, ReturnFacts
<1>5. QED
  BY <1>3, <1>4, QuietKeepsProcessed DEF ConnectedInv

LEMMA StepKeeps ==
  ASSUME IndInv, ProcessedInv, faults["disconnect"] = 0, NEW g \in Threads, Step(g)
  PROVE  ProcessedInv'
<1>1. TypeOK /\ LoopTypeOK
  BY DEF IndInv, TypeOK
<1>2. CASE RejectMalformed(g)
  <2>1. DeadLetter \in Places /\ DeadLetter # "acked"
    BY DEF DeadLetter, Places
  <2>2. QED
    BY <1>2, <2>1, SettlingKeeps DEF RejectMalformed, NackDiscard, Busy
<1>3. CASE NackOnShutdown(g)
  BY <1>3, SettlingKeeps DEF NackOnShutdown, NackRequeue, Busy, Places
<1>4. CASE AckMessage(g)
  BY <1>4, SettlingKeeps DEF AckMessage, Ack, Busy, Places
<1>5. CASE Receive(g) \/ Retry(g) \/ ExitLoop(g)
  <2>1. PICK label \in {"reject", "insert", "exited"} : Goto(g, label)
    BY <1>5 DEF Receive, Retry, ExitLoop
  <2>2. pc'[g] = label /\ \A h \in Threads \ {g} : pc'[h] = pc[h]
    BY <1>1, <2>1, GotoFacts DEF Busy
  <2>3. \A h \in Threads \ {g} : msg'[h] = msg[h]
    BY <1>1, <1>5 DEF Receive, Retry, ExitLoop, LoopTypeOK
  <2>4. UNCHANGED <<docs, process, place, channel, exhausted>>
    BY <1>5 DEF Receive, Retry, ExitLoop, brokerVars
  <2>5. QED
    BY <2>2, <2>3, <2>4, QuietKeepsProcessed DEF ConnectedInv
<1>6. QED
  BY <1>2, <1>3, <1>4, <1>5, InsertKeeps, MarkProcessedKeeps, MarkKeeps DEF Step

LEMMA ProcessedStep == IndInv /\ ProcessedInv /\ [Next]_vars => ProcessedInv'
<1> SUFFICES ASSUME IndInv, ProcessedInv, [Next]_vars, faults'["disconnect"] = 0
             PROVE  ProcessedInv'
  BY DEF ProcessedInv
<1>1. TypeOK /\ LoopTypeOK /\ BrokerTypeOK /\ faults["disconnect"] \in Nat
  BY DEF IndInv, TypeOK, Faults
<1>2. CASE UNCHANGED vars
  <2>1. /\ UNCHANGED <<docs, place, channel, process, pc, msg, exhausted, faults>>
    BY <1>2 DEF vars, brokerVars, threadVars
  <2>2. QED
    BY <2>1, QuietKeepsProcessed DEF ConnectedInv
<1>3. ASSUME NEW m \in Messages, Publish(m) \/ ExpireMessage(m) PROVE ProcessedInv'
  <2>1. UNCHANGED <<docs, channel, process, pc, msg, exhausted, faults>>
    BY <1>3 DEF Publish, Enqueue, ExpireMessage, Expire, threadVars
  <2>2. \A k \in Messages : place'[k] = "acked" => place[k] = "acked"
    BY <1>1, <1>3 DEF Publish, Enqueue, ExpireMessage, Expire, DeadLetter, BrokerTypeOK
  <2>3. QED
    BY <2>1, <2>2, QuietKeepsProcessed DEF ConnectedInv
<1>4. ASSUME NEW g \in Threads, Step(g) PROVE ProcessedInv'
  <2>1. faults["disconnect"] = 0
    <3>1. faults' = faults \/ SpendFault("db")
      BY <1>4 DEF Step, Receive, RejectMalformed, Insert, MarkProcessed,
                  MarkRetrying, Retry, NackOnShutdown, MarkFailed, AckMessage,
                  ExitLoop, UpdateIgnoringErrors, DatabaseSucceeds, DatabaseFails
    <3>2. "db" \in Faults /\ "disconnect" \in Faults /\ faults \in [Faults -> Nat]
      BY <1>1 DEF Faults, TypeOK
    <3>3. QED
      BY <3>1, <3>2, SpendFacts
  <2>2. QED
    BY <1>4, <2>1, StepKeeps
<1>5. ASSUME NEW w \in Workers, StartWorker(w) \/ Exit(w) \/ Crash(w)
      PROVE  ProcessedInv'
  <2>1. PICK label \in {"idle", "exited"} : ResetLoops(w, label)
    BY <1>5 DEF StartWorker, Exit, Crash
  <2>2. \A g \in Threads : pc'[g] = "ack" => pc[g] = "ack" /\ msg'[g] = msg[g]
    BY <1>1, <2>1, ResetFacts DEF TypeOK
  <2>3. UNCHANGED <<docs, exhausted>> /\ (UNCHANGED faults \/ SpendFault("crash"))
    BY <1>5 DEF StartWorker, Exit, Crash
  <2>4. faults["disconnect"] = 0
    <3>1. "crash" \in Faults /\ "disconnect" \in Faults /\ faults \in [Faults -> Nat]
      BY <1>1 DEF Faults, TypeOK
    <3>2. QED
      BY <2>3, <3>1, SpendFacts
  <2>5. \A m \in Messages : place'[m] = "acked" => place[m] = "acked"
    BY <1>1, <1>5, CloseFacts DEF StartWorker, OpenChannel, Exit, Crash
  <2>6. ConnectedInv => ConnectedInv'
    BY <1>1, <1>5, CloseFacts
       DEF StartWorker, OpenChannel, Exit, Crash, ConnectedInv, TypeOK, BrokerTypeOK
  <2>7. QED
    BY <2>2, <2>3, <2>4, <2>5, <2>6, QuietKeepsProcessed
<1>6. ASSUME NEW w \in Workers, DeliverTo(w) \/ StopConsuming(w) \/ Signal(w)
      PROVE  ProcessedInv'
  <2>1. UNCHANGED <<docs, pc, msg, exhausted, channel>>
    BY <1>6 DEF DeliverTo, Deliver, StopConsuming, CancelConsumer, Signal,
                threadVars, brokerVars
  <2>2. faults["disconnect"] = 0
    <3>1. faults' = faults \/ SpendFault("signal")
      BY <1>6 DEF DeliverTo, StopConsuming, Signal
    <3>2. "signal" \in Faults /\ "disconnect" \in Faults /\ faults \in [Faults -> Nat]
      BY <1>1 DEF Faults, TypeOK
    <3>3. QED
      BY <3>1, <3>2, SpendFacts
  <2>3. \A m \in Messages : place'[m] = "acked" => place[m] = "acked"
    BY <1>1, <1>6 DEF DeliverTo, Deliver, StopConsuming, CancelConsumer, Signal,
                      brokerVars, BrokerTypeOK
  <2>4. ConnectedInv => ConnectedInv'
    BY <1>1, <1>6, <2>1 DEF DeliverTo, StopConsuming, Signal, ConnectedInv, TypeOK
  <2>5. QED
    BY <2>1, <2>2, <2>3, <2>4, QuietKeepsProcessed
<1>7. ASSUME NEW w \in Workers, Disconnect(w) PROVE FALSE
  <2>1. faults \in [Faults -> Nat] /\ "disconnect" \in Faults /\ SpendFault("disconnect")
    BY <1>1, <1>7 DEF Disconnect, TypeOK, Faults
  <2>2. QED
    BY <1>1, <2>1, SpendFacts
<1>8. QED
  BY <1>2, <1>3, <1>4, <1>5, <1>6, <1>7 DEF Next

\* An acknowledged event of its own webhook id is stored as "processed" unless
\* its attempts were used up or a connection was lost: nobody overwrites the
\* status that processEvent gave it.
THEOREM AckedAreProcessed == Spec => []AckedProcessed
<1>1. Init => ProcessedInv
  BY DEF Init, BrokerInit, ProcessedInv, ConnectedInv
<1>2. IndInv /\ ProcessedInv => AckedProcessed
  BY DEF ProcessedInv, AckedProcessed, OwnID, Processed
<1>3. QED
  BY <1>1, <1>2, ProcessedStep, Invariance, PTL DEF Spec
-----------------------------------------------------------------------------
(***************************************************************************)
(* Worker implements AtLeastOnce: under the mapping of Promise, the        *)
(* initial states map to its initial state and every step to one of its    *)
(* steps or to none.                                                       *)
(***************************************************************************)

\* The mapped variables.
Sent == {m \in Messages : place[m] # "unsent"}
InStore == {m \in Messages : Stored(m)}
Done == {m \in Messages : Settled(m)}
Discardable == IF HasTTL THEN Messages ELSE Malformed

\* Steps of the promise, in terms of the mapped variables.
LEMMA SendStep ==
  ASSUME NEW m \in Messages, Sent' = Sent \cup {m},
         InStore' = InStore, exhausted' = exhausted, Done' = Done
  PROVE  Promise!Next
  BY DEF Promise!Next, Promise!Send, Sent, InStore, Done

LEMMA AttemptStep ==
  ASSUME NEW m \in Messages, m \in Sent, m \notin Malformed,
         InStore' \in {InStore, InStore \cup {m}},
         exhausted' \in {exhausted, exhausted \cup {m}},
         Sent' = Sent, Done' = Done
  PROVE  Promise!Next
  BY DEF Promise!Next, Promise!Attempt, Sent, InStore, Done

LEMMA SettleStep ==
  ASSUME NEW m \in Messages, m \in Sent,
         m \in InStore \/ m \in exhausted \/ m \in Discardable,
         Done' = Done \cup {m},
         Sent' = Sent, InStore' = InStore, exhausted' = exhausted
  PROVE  Promise!Next
  BY DEF Promise!Next, Promise!Settle, Sent, InStore, Done, Discardable

LEMMA StutterStep ==
  ASSUME Sent' = Sent, InStore' = InStore, exhausted' = exhausted, Done' = Done
  PROVE  UNCHANGED Promise!promise
  BY DEF Promise!promise, Sent, InStore, Done

\* A step that leaves the collection alone leaves what is stored alone.
LEMMA SameStore == UNCHANGED docs => InStore' = InStore
  BY DEF InStore, Stored

\* A step that leaves the broker alone settles and sends nothing.
LEMMA SamePlace == UNCHANGED place => Sent' = Sent /\ Done' = Done
  BY DEF Sent, Done, Settled

\* A channel that closes only gives back what was being processed.
LEMMA CloseKeeps ==
  ASSUME TypeOK, Holding, NEW w \in Workers, CloseChannel(w)
  PROVE  Sent' = Sent /\ Done' = Done
<1>1. \A m \in Messages :
        place'[m] = IF m \in unacked[w] THEN "ready" ELSE place[m]
  BY CloseFacts DEF TypeOK
<1>2. \A m \in unacked[w] : place[m] = "unacked"
  BY DEF Holding, UnackedInv
<1>3. QED
  BY <1>1, <1>2 DEF Sent, Done, Settled

LEMMA PromiseInit == Init => Promise!Init
  BY DEF Init, StoreInit, BrokerInit, Promise!Init, Stored, Settled

LEMMA PromiseNext ==
  ASSUME TypeOK, Holding, Effects, [Next]_vars
  PROVE  [Promise!Next]_(Promise!promise)
<1>1. LoopInv /\ BrokerTypeOK /\ LoopTypeOK
  BY DEF Holding, TypeOK
<1>2. ASSUME NEW m \in Messages, Publish(m)
      PROVE  Promise!Next
  <2>1. place[m] = "unsent" /\ place' = [place EXCEPT ![m] = "ready"]
    BY <1>2 DEF Publish, Enqueue
  <2>2. Sent' = Sent \cup {m} /\ Done' = Done
    BY <1>1, <2>1 DEF Sent, Done, Settled, BrokerTypeOK
  <2>3. InStore' = InStore /\ exhausted' = exhausted
    BY <1>2, SameStore DEF Publish
  <2>4. QED
    BY <2>2, <2>3, SendStep
<1>3. ASSUME NEW m \in Messages, ExpireMessage(m)
      PROVE  Promise!Next
  <2>1. /\ HasTTL /\ place[m] = "ready"
        /\ place' = [place EXCEPT ![m] = DeadLetter]
        /\ DeadLetter \in {"dead", "dropped"}
    BY <1>3 DEF ExpireMessage, Expire, DeadLetter
  <2>2. Sent' = Sent /\ Done' = Done \cup {m} /\ m \in Sent
    BY <1>1, <2>1 DEF Sent, Done, Settled, BrokerTypeOK
  <2>3. InStore' = InStore /\ exhausted' = exhausted
    BY <1>3, SameStore DEF ExpireMessage
  <2>4. QED
    BY <2>1, <2>2, <2>3, SettleStep DEF Discardable
<1>4. ASSUME NEW g \in Threads, Insert(g) \/ MarkProcessed(g)
      PROVE  Promise!Next
  <2>1. PICK label \in {"update", "ack"} : CallReturns(g, label)
    BY <1>1, <1>4, InsertStep, MarkProcessedStep
  <2>2. /\ pc[g] \in Busy /\ pc[g] # "reject"
        /\ \A k : Stored(k) => Stored(k)'
        /\ \A k : Stored(k)' => Stored(k) \/ k = msg[g]
    BY <1>1, <1>4, InsertStep, MarkProcessedStep DEF StoreGrowsBy, Busy
  <2>3. /\ place' = place
        /\ exhausted' \in {exhausted, exhausted \cup {msg[g]}}
    BY <2>1 DEF CallReturns, AttemptGoesOn, AttemptFails, brokerVars
  <2>4. msg[g] \in Messages /\ msg[g] \notin Malformed /\ msg[g] \in Sent
    BY <1>1, <2>2 DEF LoopInv, Sent
  <2>5. InStore' \in {InStore, InStore \cup {msg[g]}}
    BY <2>2, <2>4 DEF InStore
  <2>6. QED
    BY <2>3, <2>4, <2>5, SamePlace, AttemptStep
<1>5. ASSUME NEW g \in Threads, MarkRetrying(g) \/ MarkFailed(g)
      PROVE  UNCHANGED Promise!promise
  <2>1. PICK s \in EventStatus : UpdateIgnoringErrors(g, s)
    BY <1>5 DEF MarkRetrying, MarkFailed, EventStatus
  <2>2. \A k : Stored(k)' = Stored(k)
    BY <1>1, <1>5, <2>1, UpdateIgnoringErrorsStep DEF MarkRetrying, MarkFailed, Busy
  <2>3. place' = place /\ exhausted' = exhausted
    BY <1>5 DEF MarkRetrying, MarkFailed, AttemptGoesOn, brokerVars
  <2>4. QED
    BY <2>2, <2>3, SamePlace, StutterStep DEF InStore
<1>6. ASSUME NEW g \in Threads, Receive(g) \/ Retry(g) \/ ExitLoop(g)
      PROVE  UNCHANGED Promise!promise
  BY <1>6, SamePlace, SameStore, StutterStep DEF Receive, Retry, ExitLoop, brokerVars
<1>7. ASSUME NEW g \in Threads,
             RejectMalformed(g) \/ NackOnShutdown(g) \/ AckMessage(g)
      PROVE  [Promise!Next]_(Promise!promise)
  <2>1. InStore' = InStore /\ exhausted' = exhausted
    BY <1>7, SameStore DEF RejectMalformed, NackOnShutdown, AckMessage
  <2>2. /\ pc[g] \in Busy /\ msg[g] \in Messages /\ Owner(g) \in Workers
        /\ msg[g] \in Sent
    BY <1>1, <1>7, OwnerType DEF RejectMalformed, NackOnShutdown, AckMessage, Busy,
       LoopInv, Sent
  <2>3. CASE channel[Owner(g)] # "open"
    <3>1. place' = place
      BY <1>7, <2>3 DEF RejectMalformed, NackDiscard, NackOnShutdown, NackRequeue,
         AckMessage, Ack, Settle
    <3>2. QED
      BY <2>1, <3>1, SamePlace, StutterStep
  <2>4. CASE channel[Owner(g)] = "open" /\ NackOnShutdown(g)
    <3>1. place' = [place EXCEPT ![msg[g]] = "ready"]
      BY <2>4 DEF NackOnShutdown, NackRequeue, Settle
    <3>2. place[msg[g]] = "unacked"
      BY <2>2, <2>4 DEF Holding, SettleOnce, UnackedInv
    <3>3. Sent' = Sent /\ Done' = Done
      BY <1>1, <2>2, <3>1, <3>2 DEF Sent, Done, Settled, BrokerTypeOK
    <3>4. QED
      BY <2>1, <3>3, StutterStep
  <2>5. CASE channel[Owner(g)] = "open" /\ (RejectMalformed(g) \/ AckMessage(g))
    <3>1. \/ place' = [place EXCEPT ![msg[g]] = "acked"] /\ pc[g] = "ack"
          \/ place' = [place EXCEPT ![msg[g]] = DeadLetter] /\ pc[g] = "reject"
      BY <2>5 DEF RejectMalformed, NackDiscard, AckMessage, Ack, Settle
    <3>2. Sent' = Sent /\ Done' = Done \cup {msg[g]}
      BY <1>1, <2>2, <3>1 DEF Sent, Done, Settled, BrokerTypeOK, DeadLetter
    <3>3. msg[g] \in InStore \/ msg[g] \in exhausted \/ msg[g] \in Malformed
      BY <1>1, <2>2, <3>1 DEF Effects, AchievedInv, LoopInv, InStore
    <3>4. Malformed \subseteq Discardable
      BY EventsAssumption DEF Discardable
    <3>5. QED
      BY <2>1, <2>2, <3>2, <3>3, <3>4, SettleStep
  <2>6. QED
    BY <1>7, <2>3, <2>4, <2>5
<1>8. ASSUME NEW w \in Workers, StartWorker(w) \/ StopConsuming(w) \/ Signal(w)
      PROVE  UNCHANGED Promise!promise
  BY <1>8, SamePlace, SameStore, StutterStep
     DEF StartWorker, OpenChannel, StopConsuming, CancelConsumer, Signal, brokerVars
<1>9. ASSUME NEW w \in Workers, DeliverTo(w)
      PROVE  UNCHANGED Promise!promise
  <2>1. PICK m \in Messages :
          place[m] = "ready" /\ place' = [place EXCEPT ![m] = "unacked"]
    BY <1>9 DEF DeliverTo, Deliver
  <2>2. Sent' = Sent /\ Done' = Done
    BY <1>1, <2>1 DEF Sent, Done, Settled, BrokerTypeOK
  <2>3. QED
    BY <1>9, <2>2, SameStore, StutterStep DEF DeliverTo
<1>10. ASSUME NEW w \in Workers, Exit(w) \/ Crash(w) \/ Disconnect(w)
       PROVE  UNCHANGED Promise!promise
  BY <1>10, CloseKeeps, SameStore, StutterStep DEF Exit, Crash, Disconnect
<1>11. CASE UNCHANGED vars
  BY <1>11, SamePlace, SameStore, StutterStep DEF vars, brokerVars
<1>12. QED
  BY <1>2, <1>3, <1>4, <1>5, <1>6, <1>7, <1>8, <1>9, <1>10, <1>11 DEF Next, Step

\* The queue and its workers deliver at least once.
THEOREM Refinement == Spec => KeepsPromise
<1>1. IndInv /\ [Next]_vars => [Promise!Next]_(Promise!promise)
  BY IndInvParts, PromiseNext
<1>2. QED
  BY <1>1, PromiseInit, Invariance, PTL DEF Spec, KeepsPromise, Promise!Spec
=============================================================================

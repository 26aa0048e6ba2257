------------------------- MODULE WebhookSync_proofs -------------------------
(***************************************************************************)
(* Proofs about the registration scripts, for any number of runs, clients, *)
(* webhooks and edits: what a run logs as completed is done, no webhook it *)
(* found is forgotten, and it undoes an edit only where what it had been   *)
(* told is out of date.                                                    *)
(***************************************************************************)
EXTENDS WebhookSync, FiniteSetTheorems, TLAPS

\* The webhooks whose turn has not come.
Listed(s) == {w.id : w \in list[s]}

\* A run finds a webhook once, and then it is listed, in progress, completed or
\* failed, and never two of these.
PlacesInv(s) ==
    /\ touched[s] \subseteq found[s]
    /\ \A h \in found[s] : OwnerOf[h] \notin todo[s]
    /\ found[s] \subseteq
         Listed(s) \cup completed[s] \cup failed[s]
           \cup (IF webhook[s] = NoWebhook THEN {} ELSE {webhook[s].id})
    /\ \A w \in list[s] :
         /\ w.id \in found[s] \ (completed[s] \cup failed[s])
         /\ \A v \in list[s] : v.id = w.id => v = w
    /\ completed[s] \cap failed[s] = {}
    /\ webhook[s] # NoWebhook =>
         webhook[s].id \in found[s] \ (completed[s] \cup failed[s] \cup Listed(s))
    /\ pc[s] \in {"search", "done"} => list[s] = {}
    /\ pc[s] = "done" => todo[s] = {}

\* What a run has been told of a webhook, and what it has done to it, stands
\* until somebody else touches the webhook.
ToldInv(s) ==
    /\ \A w \in list[s] :
         w.id \notin touched[s] => url[w.id] = w.url /\ edits[w.id] = w.edits
    /\ webhook[s] # NoWebhook /\ webhook[s].id \notin touched[s] =>
         /\ edits[webhook[s].id] = webhook[s].edits
         /\ pc[s] # "update" => url[webhook[s].id] = Target[s]
    /\ \A h \in completed[s] \ touched[s] :
         url[h] = Target[s] /\ (active[h] \/ h \in warned[s])

Inv ==
    /\ TypeOK
    /\ \A s \in Scripts : PlacesInv(s) /\ ToldInv(s)
-----------------------------------------------------------------------------
LEMMA InitInv ==
  ASSUME Init  PROVE Inv
<1>1. TypeOK
  BY WebhookSyncAssumption DEF Init, TypeOK, Requests
<1>2. ASSUME NEW s \in Scripts PROVE PlacesInv(s) /\ ToldInv(s)
  BY DEF Init, PlacesInv, ToldInv, Listed
<1> QED
  BY <1>1, <1>2 DEF Inv
-----------------------------------------------------------------------------
\* The parts of a run's state are left alone.
Still(t) ==
    /\ pc'[t] = pc[t] /\ todo'[t] = todo[t] /\ list'[t] = list[t]
    /\ webhook'[t] = webhook[t] /\ found'[t] = found[t]
    /\ completed'[t] = completed[t] /\ failed'[t] = failed[t]
    /\ warned'[t] = warned[t]

\* A step that writes nothing is nothing to the other runs ...
LEMMA Unmoved ==
  ASSUME NEW t \in Scripts, PlacesInv(t), ToldInv(t), Still(t), NoWrite
  PROVE  PlacesInv(t)' /\ ToldInv(t)'
<1>1. UNCHANGED Listed(t)
  BY DEF Still, Listed
<1> QED
  BY <1>1 DEF Still, NoWrite, serviceVars, PlacesInv, ToldInv

\* ... and one that changes a webhook they have found is noticed.
LEMMA Disturbed ==
  ASSUME TypeOK, NEW t \in Scripts, PlacesInv(t), ToldInv(t), Still(t),
         NEW h \in Hooks, NEW others, t \in others, Touch(h, others),
         \A g \in Hooks \ {h} :
           url'[g] = url[g] /\ active'[g] = active[g] /\ edits'[g] = edits[g]
  PROVE  PlacesInv(t)' /\ ToldInv(t)'
<1>1. UNCHANGED Listed(t)
  BY DEF Still, Listed
<1>2. /\ touched[t] \subseteq touched'[t]
      /\ touched'[t] \subseteq touched[t] \cup found[t]
      /\ h \in found[t] \ failed[t] => h \in touched'[t]
  BY DEF Touch
<1>3. PlacesInv(t)'
  BY <1>1, <1>2 DEF Still, PlacesInv
<1>4. ASSUME NEW g \in found[t] \ failed[t], g \notin touched'[t]
      PROVE  /\ g \in Hooks /\ g \notin touched[t]
             /\ url'[g] = url[g] /\ active'[g] = active[g] /\ edits'[g] = edits[g]
  BY <1>2, <1>4 DEF TypeOK
<1>5. \A w \in list[t] : w.id \in found[t] \ failed[t]
  BY DEF PlacesInv
<1>6. webhook[t] # NoWebhook => webhook[t].id \in found[t] \ failed[t]
  BY DEF PlacesInv
<1>7. completed[t] \subseteq found[t] \ failed[t]
  BY DEF PlacesInv, TypeOK
<1>8. ToldInv(t)'
  <2>1. \A w \in list[t] : w.id \notin touched'[t] =>
          url'[w.id] = w.url /\ edits'[w.id] = w.edits
    BY <1>4, <1>5 DEF ToldInv
  <2>2. webhook[t] # NoWebhook /\ webhook[t].id \notin touched'[t] =>
          /\ edits'[webhook[t].id] = webhook[t].edits
          /\ pc[t] # "update" => url'[webhook[t].id] = Target[t]
    BY <1>4, <1>6 DEF ToldInv
  <2>3. \A g \in completed[t] \ touched'[t] :
          url'[g] = Target[t] /\ (active'[g] \/ g \in warned[t])
    BY <1>4, <1>7 DEF ToldInv
  <2> QED
    BY <2>1, <2>2, <2>3 DEF Still, ToldInv
<1> QED
  BY <1>3, <1>8
-----------------------------------------------------------------------------
\* What a request may do to the service and to what is known of it.
Writes(s) == SetURL(s) \/ Activate(s) \/ NoWrite

LEMMA WriteFacts ==
  ASSUME TypeOK, NEW s \in Scripts, webhook[s] # NoWebhook, Writes(s)
  PROVE  /\ webhook[s].id \in Hooks
         /\ registered' = registered
         /\ url' \in [Hooks -> URLs] /\ active' \in [Hooks -> BOOLEAN]
         /\ edits' \in [Hooks -> Nat]
         /\ \A g \in Hooks \ {webhook[s].id} :
              url'[g] = url[g] /\ active'[g] = active[g] /\ edits'[g] = edits[g]
         /\ touched' \in [Scripts -> SUBSET Hooks]
         /\ touched'[s] = touched[s]
         /\ \A t \in Scripts : touched'[t] \subseteq touched[t] \cup found[t]
         /\ NoWrite \/ Touch(webhook[s].id, Scripts \ {s})
<1>1. webhook[s] \in Webhook
  BY DEF TypeOK
<1>2. webhook[s].id \in Hooks /\ webhook[s].edits \in Nat
  BY <1>1 DEF Webhook
<1>3. Target[s] \in URLs
  BY DEF URLs
<1>4. CASE NoWrite
  BY <1>2, <1>4 DEF NoWrite, serviceVars, TypeOK
<1>5. ASSUME Touch(webhook[s].id, Scripts \ {s})
      PROVE  /\ touched' \in [Scripts -> SUBSET Hooks]
             /\ touched'[s] = touched[s]
             /\ \A t \in Scripts : touched'[t] \subseteq touched[t] \cup found[t]
  BY <1>5 DEF Touch, TypeOK
<1>6. CASE SetURL(s)
  BY <1>2, <1>3, <1>5, <1>6 DEF SetURL, TypeOK
<1>7. CASE Activate(s)
  BY <1>2, <1>5, <1>7 DEF Activate, TypeOK
<1> QED
  BY <1>4, <1>6, <1>7 DEF Writes

\* How a request may end.
Ends(s) ==
    \/ \E label \in {"details", "toggle", "verify"} : GoOn(s, label)
    \/ Fail(s) \/ Complete(s) \/ TryAgain(s)

LEMMA EndFacts ==
  ASSUME TypeOK, NEW s \in Scripts, webhook[s] # NoWebhook, Ends(s)
  PROVE  /\ pc' \in [Scripts -> Requests \cup {"next_hook", "done"}]
         /\ tries' \in [Scripts -> 0..(MaxRetries - 1)]
         /\ webhook' \in [Scripts -> Webhook \cup {NoWebhook}]
         /\ {completed', failed'} \subseteq [Scripts -> SUBSET Hooks]
         /\ list' = list
         /\ \A t \in Scripts \ {s} :
              /\ pc'[t] = pc[t] /\ webhook'[t] = webhook[t]
              /\ completed'[t] = completed[t] /\ failed'[t] = failed[t]
         /\ \/ /\ webhook' = webhook /\ completed' = completed /\ failed' = failed
               /\ \/ pc'[s] = pc[s]
                  \/ pc'[s] \in {"details", "toggle", "verify"}
            \/ /\ webhook' = [webhook EXCEPT ![s] = NoWebhook]
               /\ pc'[s] = "next_hook"
               /\ \/ /\ failed' = failed
                     /\ completed'[s] = completed[s] \cup {webhook[s].id}
                  \/ /\ completed' = completed
                     /\ failed'[s] = failed[s] \cup {webhook[s].id}
<1>1. MaxRetries \in Nat \ {0} /\ webhook[s].id \in Hooks
  BY WebhookSyncAssumption DEF TypeOK, Webhook
<1>2. ASSUME NEW label \in {"details", "toggle", "verify"}, GoOn(s, label)
      PROVE  /\ pc' = [pc EXCEPT ![s] = label]
             /\ tries' = [tries EXCEPT ![s] = 0]
             /\ UNCHANGED <<webhook, completed, failed, list>>
  BY <1>2 DEF GoOn, Answered, Goto
<1>3. CASE \E label \in {"details", "toggle", "verify"} : GoOn(s, label)
  BY <1>1, <1>2, <1>3 DEF TypeOK, Requests
<1>4. CASE TryAgain(s)
  BY <1>1, <1>4 DEF TryAgain, TypeOK
<1>5. ASSUME Fail(s) \/ Complete(s)
      PROVE  /\ pc' = [pc EXCEPT ![s] = "next_hook"]
             /\ tries' = [tries EXCEPT ![s] = 0]
             /\ webhook' = [webhook EXCEPT ![s] = NoWebhook]
             /\ list' = list
             /\ \/ /\ failed' = failed
                   /\ completed' = [completed EXCEPT ![s] = @ \cup {webhook[s].id}]
                \/ /\ completed' = completed
                   /\ failed' = [failed EXCEPT ![s] = @ \cup {webhook[s].id}]
  BY <1>5 DEF Fail, Complete, Leave, Answered, Goto
<1>6. CASE Fail(s) \/ Complete(s)
  BY <1>1, <1>5, <1>6 DEF TypeOK, Requests
<1> QED
  BY <1>3, <1>4, <1>6 DEF Ends
-----------------------------------------------------------------------------
\* A run goes on about its webhook, or leaves it.
Kept(s) ==
    /\ webhook' = webhook /\ completed' = completed /\ failed' = failed
    /\ pc'[s] \in {pc[s], "details", "toggle", "verify"}

Left(s) ==
    /\ webhook' = [webhook EXCEPT ![s] = NoWebhook]
    /\ pc'[s] = "next_hook"
    /\ \/ /\ failed' = failed
          /\ completed'[s] = completed[s] \cup {webhook[s].id}
       \/ /\ completed' = completed
          /\ failed'[s] = failed[s] \cup {webhook[s].id}

\* A request holds what a run has been told, if it is true of the webhook it is
\* about.
LEMMA RequestHolds ==
  ASSUME Inv, NEW s \in Scripts, webhook[s] # NoWebhook,
         Writes(s), Ends(s), UNCHANGED <<todo, found>>,
         warned' \in [Scripts -> SUBSET Hooks], warned[s] \subseteq warned'[s],
         \A t \in Scripts \ {s} : warned'[t] = warned[t],
         Kept(s) /\ webhook[s].id \notin touched[s] =>
           /\ edits'[webhook[s].id] = webhook[s].edits
           /\ pc'[s] # "update" => url'[webhook[s].id] = Target[s],
         completed'[s] # completed[s] /\ webhook[s].id \notin touched[s] =>
           /\ url'[webhook[s].id] = Target[s]
           /\ active'[webhook[s].id] \/ webhook[s].id \in warned'[s]
  PROVE  Inv'
<1>1. TypeOK /\ PlacesInv(s) /\ ToldInv(s)
  BY DEF Inv
<1> DEFINE id == webhook[s].id
<1>2. id \in found[s] \ (completed[s] \cup failed[s] \cup Listed(s))
  BY <1>1 DEF PlacesInv
<1>3. /\ id \in Hooks
      /\ registered' = registered
      /\ url' \in [Hooks -> URLs] /\ active' \in [Hooks -> BOOLEAN]
      /\ edits' \in [Hooks -> Nat]
      /\ \A g \in Hooks \ {id} :
           url'[g] = url[g] /\ active'[g] = active[g] /\ edits'[g] = edits[g]
      /\ touched' \in [Scripts -> SUBSET Hooks]
      /\ touched'[s] = touched[s]
      /\ \A t \in Scripts : touched'[t] \subseteq touched[t] \cup found[t]
      /\ NoWrite \/ Touch(id, Scripts \ {s})
  BY <1>1, WriteFacts
<1>4. /\ pc' \in [Scripts -> Requests \cup {"next_hook", "done"}]
      /\ tries' \in [Scripts -> 0..(MaxRetries - 1)]
      /\ webhook' \in [Scripts -> Webhook \cup {NoWebhook}]
      /\ {completed', failed'} \subseteq [Scripts -> SUBSET Hooks]
      /\ list' = list
      /\ \A t \in Scripts \ {s} :
           /\ pc'[t] = pc[t] /\ webhook'[t] = webhook[t]
           /\ completed'[t] = completed[t] /\ failed'[t] = failed[t]
      /\ Kept(s) \/ Left(s)
  BY <1>1, EndFacts DEF Kept, Left
<1>5. \A t \in Scripts \ {s} : Still(t)
  BY <1>4 DEF Still
<1>6. ASSUME NEW t \in Scripts \ {s}  PROVE PlacesInv(t)' /\ ToldInv(t)'
  <2>1. PlacesInv(t) /\ ToldInv(t)
    BY DEF Inv
  <2>2. CASE NoWrite
    BY <1>5, <2>1, <2>2, Unmoved
  <2>3. CASE Touch(id, Scripts \ {s})
    BY <1>1, <1>3, <1>5, <2>1, <2>3, Disturbed
  <2> QED
    BY <1>3, <2>2, <2>3
<1>7. Listed(s)' = Listed(s)
  BY <1>4 DEF Listed
<1>8. pc[s] \notin {"search", "next_hook", "done"}
  BY <1>1 DEF TypeOK
<1>9. PlacesInv(s)'
  <2>1. CASE Kept(s)
    BY <1>1, <1>3, <1>4, <1>7, <1>8, <2>1 DEF Kept, PlacesInv
  <2>2. CASE Left(s)
    <3>1. webhook'[s] = NoWebhook
      BY <1>1, <2>2 DEF Left, TypeOK
    <3>2. \A w \in list[s] : w.id # id
      BY <1>2 DEF Listed
    <3>3. completed'[s] \cap failed'[s] = {}
      BY <1>1, <1>2, <2>2 DEF Left, PlacesInv
    <3>4. completed'[s] \cup failed'[s] = completed[s] \cup failed[s] \cup {id}
      BY <2>2 DEF Left
    <3>5. found[s] \subseteq Listed(s) \cup completed'[s] \cup failed'[s]
      BY <1>1, <3>4 DEF PlacesInv
    <3>6. \A w \in list[s] :
            /\ w.id \in found[s] \ (completed'[s] \cup failed'[s])
            /\ \A v \in list[s] : v.id = w.id => v = w
      BY <1>1, <3>2, <3>4 DEF PlacesInv
    <3>7. pc'[s] \notin {"search", "done"}
      BY <2>2 DEF Left
    <3> QED
      BY <1>1, <1>3, <1>4, <1>7, <3>1, <3>3, <3>5, <3>6, <3>7 DEF PlacesInv
  <2> QED
    BY <1>4, <2>1, <2>2
<1>10. ToldInv(s)'
  <2>1. \A w \in list[s] : w.id \in Hooks /\ w.id # id
    BY <1>1, <1>2 DEF Listed, TypeOK, Webhook
  <2>2. \A w \in list[s] : w.id \notin touched[s] =>
          url'[w.id] = w.url /\ edits'[w.id] = w.edits
    BY <1>1, <1>3, <2>1 DEF ToldInv
  <2>3. \A h \in completed[s] : h \in Hooks /\ h # id
    BY <1>1, <1>2 DEF TypeOK
  <2>4. completed'[s] \subseteq completed[s] \cup {id}
    BY <1>4 DEF Kept, Left
  <2>5. \A h \in completed'[s] \ touched[s] :
          url'[h] = Target[s] /\ (active'[h] \/ h \in warned'[s])
    BY <1>1, <1>2, <1>3, <2>3, <2>4 DEF ToldInv
  <2>6. webhook'[s] # NoWebhook => Kept(s)
    BY <1>1, <1>4 DEF Left, TypeOK
  <2>7. Kept(s) => webhook'[s] = webhook[s]
    BY DEF Kept
  <2> QED
    BY <1>3, <1>4, <2>2, <2>5, <2>6, <2>7 DEF ToldInv
<1>11. TypeOK'
  <2>1. ASSUME NEW t \in Scripts
        PROVE  /\ webhook'[t] \in Webhook \cup {NoWebhook}
               /\ webhook'[t] = NoWebhook
                    <=> pc'[t] \in {"search", "next_hook", "done"}
               /\ completed'[t] \cup failed'[t] \subseteq found[t]
               /\ found[t] \cup touched'[t] \subseteq registered
    <3>1. found[t] \cup touched'[t] \subseteq registered
      BY <1>1, <1>3 DEF TypeOK
    <3>2. CASE t # s
      BY <1>1, <1>4, <3>1, <3>2 DEF TypeOK
    <3>3. CASE t = s /\ Kept(s)
      BY <1>1, <1>8, <3>1, <3>3 DEF TypeOK, Kept
    <3>4. CASE t = s /\ Left(s)
      BY <1>1, <1>2, <3>1, <3>4 DEF TypeOK, Left
    <3> QED
      BY <1>4, <3>2, <3>3, <3>4
  <2>2. {found', completed', failed', touched'} \subseteq [Scripts -> SUBSET Hooks]
    BY <1>1, <1>3, <1>4 DEF TypeOK
  <2> QED
    BY <1>1, <1>3, <1>4, <2>1, <2>2 DEF TypeOK
<1> QED
  BY <1>1, <1>6, <1>9, <1>10, <1>11 DEF Inv

LEMMA BusyFacts ==
  ASSUME Inv, NEW s \in Scripts, pc[s] \in {"update", "details", "toggle", "verify"}
  PROVE  /\ webhook[s] # NoWebhook /\ ToldInv(s)
         /\ webhook[s].id \in Hooks /\ webhook[s].id \notin completed[s]
         /\ url \in [Hooks -> URLs] /\ active \in [Hooks -> BOOLEAN]
         /\ edits \in [Hooks -> Nat]
         /\ webhook \in [Scripts -> Webhook \cup {NoWebhook}]
         /\ pc \in [Scripts -> Requests \cup {"next_hook", "done"}]
         /\ completed \in [Scripts -> SUBSET Hooks]
         /\ warned \in [Scripts -> SUBSET Hooks]
  BY DEF Inv, TypeOK, PlacesInv, Webhook

\* Which request may come next, and whether a webhook is logged as completed.
LEMMA OutcomeFacts ==
  ASSUME Inv, NEW s \in Scripts, pc[s] \in {"update", "details", "toggle", "verify"}
  PROVE  /\ Fail(s) \/ TryAgain(s) =>
              /\ completed' = completed
              /\ webhook'[s] = webhook[s] => pc'[s] = pc[s]
         /\ \A label : GoOn(s, label) =>
              completed' = completed /\ pc'[s] = label
         /\ Complete(s) => webhook'[s] = NoWebhook
  BY BusyFacts
     DEF Fail, TryAgain, GoOn, Complete, Leave, Answered, Goto

LEMMA UpdateHolds ==
  ASSUME Inv, NEW s \in Scripts, Update(s)  PROVE Inv'
<1>1. pc[s] = "update"
  BY DEF Update
<1>2. /\ webhook[s] # NoWebhook /\ ToldInv(s) /\ webhook[s].id \in Hooks
      /\ url \in [Hooks -> URLs] /\ edits \in [Hooks -> Nat]
      /\ warned \in [Scripts -> SUBSET Hooks]
  BY <1>1, BusyFacts
<1>3. Writes(s) /\ Ends(s) /\ UNCHANGED <<todo, found, warned>>
  BY DEF Update, Writes, Ends
<1>4. /\ completed' = completed
      /\ Kept(s) => pc'[s] = "update" \/ SetURL(s)
      /\ Kept(s) => pc'[s] # "verify"
  BY <1>1, OutcomeFacts DEF Update, Kept
<1>5. SetURL(s) => /\ url'[webhook[s].id] = Target[s]
                   /\ edits'[webhook[s].id] = webhook[s].edits
  BY <1>2 DEF SetURL
<1>6. SetURL(s) \/ edits' = edits
  BY DEF Update, NoWrite, serviceVars
<1> QED
  BY <1>2, <1>3, <1>4, <1>5, <1>6, RequestHolds DEF ToldInv

LEMMA DetailsHolds ==
  ASSUME Inv, NEW s \in Scripts, Details(s)  PROVE Inv'
<1>1. pc[s] = "details"
  BY DEF Details
<1>2. webhook[s] # NoWebhook /\ ToldInv(s) /\ warned \in [Scripts -> SUBSET Hooks]
  BY <1>1, BusyFacts
<1>3. Writes(s) /\ Ends(s) /\ UNCHANGED <<todo, found, warned, url, active, edits>>
  BY DEF Details, Writes, Ends, NoWrite, serviceVars
<1>4. /\ Kept(s) => pc'[s] \in {"details", "toggle"}
      /\ completed' = completed \/ active[webhook[s].id]
  BY <1>1, <1>2, OutcomeFacts DEF Details, Kept
<1> QED
  BY <1>1, <1>2, <1>3, <1>4, RequestHolds DEF ToldInv

LEMMA ToggleHolds ==
  ASSUME Inv, NEW s \in Scripts, Toggle(s)  PROVE Inv'
<1>1. pc[s] = "toggle"
  BY DEF Toggle
<1>2. /\ webhook[s] # NoWebhook /\ ToldInv(s) /\ webhook[s].id \in Hooks
      /\ warned \in [Scripts -> SUBSET Hooks]
  BY <1>1, BusyFacts
<1>3. Writes(s) /\ Ends(s) /\ UNCHANGED <<todo, found, warned, url, edits>>
  BY DEF Toggle, Writes, Ends, NoWrite, Activate, serviceVars
<1>4. completed' = completed
  BY <1>1, OutcomeFacts DEF Toggle
<1> QED
  BY <1>1, <1>2, <1>3, <1>4, RequestHolds DEF ToldInv

LEMMA VerifyHolds ==
  ASSUME Inv, NEW s \in Scripts, Verify(s)  PROVE Inv'
<1>1. pc[s] = "verify"
  BY DEF Verify
<1>2. /\ webhook[s] # NoWebhook /\ ToldInv(s) /\ webhook[s].id \in Hooks
      /\ warned \in [Scripts -> SUBSET Hooks]
  BY <1>1, BusyFacts
<1>3. Writes(s) /\ Ends(s) /\ UNCHANGED <<todo, found, url, active, edits>>
  BY DEF Verify, Writes, Ends, NoWrite, serviceVars
<1>4. /\ warned' \in [Scripts -> SUBSET Hooks] /\ warned[s] \subseteq warned'[s]
      /\ \A t \in Scripts \ {s} : warned'[t] = warned[t]
  BY <1>2 DEF Verify
<1>5. \/ completed' = completed
      \/ active[webhook[s].id] \/ webhook[s].id \in warned'[s]
  BY <1>1, <1>2, OutcomeFacts DEF Verify
<1> QED
  BY <1>1, <1>2, <1>3, <1>4, <1>5, RequestHolds DEF ToldInv
-----------------------------------------------------------------------------
\* What a run does between its webhooks writes nothing.
LEMMA OthersUnmoved ==
  ASSUME Inv, NEW s \in Scripts, NoWrite,
         pc' = [pc EXCEPT ![s] = pc'[s]],
         todo' = [todo EXCEPT ![s] = todo'[s]],
         list' = [list EXCEPT ![s] = list'[s]],
         webhook' = [webhook EXCEPT ![s] = webhook'[s]],
         found' = [found EXCEPT ![s] = found'[s]],
         UNCHANGED <<completed, failed, warned>>
  PROVE  \A t \in Scripts \ {s} : Still(t) /\ PlacesInv(t)' /\ ToldInv(t)'
<1>1. SUFFICES ASSUME NEW t \in Scripts \ {s}
               PROVE  Still(t) /\ PlacesInv(t)' /\ ToldInv(t)'
  OBVIOUS
<1>2. Still(t)
  BY DEF Still, Inv, TypeOK
<1> QED
  BY <1>2, Unmoved DEF Inv

LEMMA FinishHolds ==
  ASSUME Inv, NEW s \in Scripts, Finish(s)  PROVE Inv'
<1>1. /\ pc[s] = "search" /\ todo[s] = {} /\ pc' = [pc EXCEPT ![s] = "done"]
      /\ UNCHANGED <<tries, todo, list, webhook, found, completed, failed, warned>>
      /\ UNCHANGED <<registered, url, active, edits, touched>>
  BY DEF Finish, Goto, NoWrite, serviceVars
<1>2. pc'[s] = "done"
  BY <1>1 DEF Inv, TypeOK
<1>3. TypeOK'
  BY <1>1 DEF Inv, TypeOK
<1>4. PlacesInv(s)' /\ ToldInv(s)'
  BY <1>1, <1>2 DEF Inv, TypeOK, PlacesInv, ToldInv, Listed
<1>5. \A t \in Scripts \ {s} : PlacesInv(t)' /\ ToldInv(t)'
  BY <1>1, OthersUnmoved DEF Finish, Inv, TypeOK
<1> QED
  BY <1>3, <1>4, <1>5 DEF Inv

LEMMA SearchLostHolds ==
  ASSUME Inv, NEW s \in Scripts, SearchLost(s)  PROVE Inv'
<1>1. /\ pc[s] = "search"
      /\ UNCHANGED <<pc, list, webhook, found, completed, failed, warned>>
      /\ UNCHANGED <<registered, url, active, edits, touched>>
      /\ tries' \in [Scripts -> 0..(MaxRetries - 1)]
  BY WebhookSyncAssumption
     DEF SearchLost, TryAgain, GoOn, Answered, Goto, NoWrite, serviceVars, Inv, TypeOK
<1>2. /\ todo' = [todo EXCEPT ![s] = todo'[s]]
      /\ todo'[s] \subseteq todo[s]
  BY DEF SearchLost, Inv, TypeOK
<1>3. TypeOK'
  BY <1>1, <1>2 DEF Inv, TypeOK
<1>4. PlacesInv(s)' /\ ToldInv(s)'
  BY <1>1, <1>2 DEF Inv, PlacesInv, ToldInv, Listed
<1>5. \A t \in Scripts \ {s} : PlacesInv(t)' /\ ToldInv(t)'
  BY <1>1, <1>2, OthersUnmoved DEF SearchLost, Inv, TypeOK
<1> QED
  BY <1>3, <1>4, <1>5 DEF Inv

LEMMA SearchFacts ==
  ASSUME NEW a \in Accounts, NEW page \in SearchResults(a) \cup {{}}
  PROVE  page \subseteq registered /\ \A h \in page : OwnerOf[h] = a
  BY DEF SearchResults, OwnedBy

LEMMA SearchHolds ==
  ASSUME Inv, NEW s \in Scripts, Search(s)  PROVE Inv'
<1>1. TypeOK /\ PlacesInv(s) /\ ToldInv(s)
  BY DEF Inv
<1>2. /\ pc[s] = "search" /\ webhook[s] = NoWebhook /\ list[s] = {}
      /\ todo \in [Scripts -> SUBSET Accounts]
  BY <1>1 DEF Search, PlacesInv, TypeOK
<1>3. PICK a \in todo[s] : \E page \in SearchResults(a) \cup {{}} :
        /\ Answered(s, "next_hook")
        /\ todo' = [todo EXCEPT ![s] = @ \ {a}]
        /\ list' = [list EXCEPT ![s] =
                      {[id |-> h, url |-> url[h], edits |-> edits[h]] : h \in page}]
        /\ found' = [found EXCEPT ![s] = @ \cup page]
  BY DEF Search
<1>4. PICK page \in SearchResults(a) \cup {{}} :
        /\ Answered(s, "next_hook")
        /\ todo' = [todo EXCEPT ![s] = @ \ {a}]
        /\ list' = [list EXCEPT ![s] =
                      {[id |-> h, url |-> url[h], edits |-> edits[h]] : h \in page}]
        /\ found' = [found EXCEPT ![s] = @ \cup page]
  BY <1>3
<1>5. a \in Accounts
  BY <1>2
<1>6. page \subseteq registered /\ \A h \in page : OwnerOf[h] = a
  BY <1>5, SearchFacts
<1>7. /\ pc' = [pc EXCEPT ![s] = "next_hook"] /\ tries' = [tries EXCEPT ![s] = 0]
      /\ UNCHANGED <<webhook, completed, failed, warned, registered, url, active, edits, touched>>
  BY <1>4 DEF Search, Answered, Goto, NoWrite, serviceVars
<1>8. /\ pc'[s] = "next_hook" /\ todo'[s] = todo[s] \ {a}
      /\ found'[s] = found[s] \cup page
      /\ list'[s] = {[id |-> h, url |-> url[h], edits |-> edits[h]] : h \in page}
  BY <1>1, <1>4, <1>7 DEF TypeOK
<1>9. page \cap found[s] = {}
  BY <1>1, <1>6 DEF PlacesInv
<1>10. /\ Listed(s)' = page
       /\ \A w \in list'[s] : /\ w.id \in page
                               /\ w.url = url[w.id] /\ w.edits = edits[w.id]
       /\ \A v, w \in list'[s] : v.id = w.id => v = w
  <2> DEFINE Row(h) == [id |-> h, url |-> url[h], edits |-> edits[h]]
  <2>1. \A h : Row(h).id = h /\ Row(h).url = url[h] /\ Row(h).edits = edits[h]
    OBVIOUS
  <2>2. list'[s] = {Row(h) : h \in page} /\ Listed(s)' = {w.id : w \in list'[s]}
    BY <1>8 DEF Listed
  <2> HIDE DEF Row
  <2>3. \A w \in list'[s] : w.id \in page /\ w = Row(w.id)
    BY <2>1, <2>2
  <2>4. \A h \in page : Row(h) \in list'[s]
    BY <2>2
  <2>5. Listed(s)' = page
    BY <2>1, <2>2, <2>3, <2>4
  <2> QED
    BY <2>1, <2>3, <2>5
<1>11. list'[s] \in SUBSET Webhook
  BY <1>1, <1>6, <1>8 DEF TypeOK, Webhook
<1>12. MaxRetries \in Nat \ {0}
  BY WebhookSyncAssumption
<1>13. TypeOK'
  <2>1. /\ pc' \in [Scripts -> Requests \cup {"next_hook", "done"}]
        /\ tries' \in [Scripts -> 0..(MaxRetries - 1)]
        /\ todo' \in [Scripts -> SUBSET Accounts]
        /\ list' \in [Scripts -> SUBSET Webhook]
        /\ found' \in [Scripts -> SUBSET Hooks]
    BY <1>1, <1>4, <1>6, <1>7, <1>8, <1>11, <1>12 DEF TypeOK
  <2>2. ASSUME NEW t \in Scripts
        PROVE  /\ webhook'[t] = NoWebhook
                    <=> pc'[t] \in {"search", "next_hook", "done"}
               /\ completed'[t] \cup failed'[t] \subseteq found'[t]
               /\ found'[t] \cup touched'[t] \subseteq registered'
    BY <1>1, <1>2, <1>4, <1>6, <1>7 DEF TypeOK
  <2> QED
    BY <1>1, <1>7, <2>1, <2>2 DEF TypeOK
<1>14. PlacesInv(s)'
  <2>1. /\ touched'[s] \subseteq found'[s]
        /\ \A h \in found'[s] : OwnerOf[h] \notin todo'[s]
        /\ completed'[s] \cap failed'[s] = {}
    BY <1>1, <1>6, <1>7, <1>8 DEF PlacesInv
  <2>2. found'[s] \subseteq Listed(s)' \cup completed'[s] \cup failed'[s]
    BY <1>1, <1>2, <1>7, <1>8, <1>10 DEF PlacesInv, Listed
  <2>3. page \cap (completed[s] \cup failed[s]) = {}
    BY <1>1, <1>9 DEF TypeOK
  <2>4. \A w \in list'[s] :
          /\ w.id \in found'[s] \ (completed'[s] \cup failed'[s])
          /\ \A v \in list'[s] : v.id = w.id => v = w
    BY <1>7, <1>8, <1>10, <2>3
  <2> QED
    BY <1>2, <1>7, <1>8, <2>1, <2>2, <2>4 DEF PlacesInv
<1>15. ToldInv(s)'
  BY <1>1, <1>2, <1>7, <1>10 DEF ToldInv
<1>16. \A t \in Scripts \ {s} : PlacesInv(t)' /\ ToldInv(t)'
  <2>1. /\ pc' = [pc EXCEPT ![s] = pc'[s]] /\ todo' = [todo EXCEPT ![s] = todo'[s]]
        /\ list' = [list EXCEPT ![s] = list'[s]]
        /\ found' = [found EXCEPT ![s] = found'[s]]
        /\ webhook' = [webhook EXCEPT ![s] = webhook'[s]]
    BY <1>1, <1>4, <1>7, <1>8 DEF TypeOK
  <2>2. NoWrite
    BY DEF Search
  <2> QED
    BY <1>7, <2>1, <2>2, OthersUnmoved
<1> QED
  BY <1>13, <1>14, <1>15, <1>16 DEF Inv

LEMMA NextHookHolds ==
  ASSUME Inv, NEW s \in Scripts, NextHook(s)  PROVE Inv'
<1>1. TypeOK /\ PlacesInv(s) /\ ToldInv(s)
  BY DEF Inv
<1>2. /\ pc[s] = "next_hook" /\ webhook[s] = NoWebhook
      /\ UNCHANGED <<tries, todo, found, completed, failed, warned>>
      /\ UNCHANGED <<registered, url, active, edits, touched>>
  BY <1>1 DEF NextHook, NoWrite, serviceVars, TypeOK
<1>3. NoWrite
  BY DEF NextHook
<1>4. CASE /\ list[s] = {} /\ pc' = [pc EXCEPT ![s] = "search"]
           /\ UNCHANGED <<list, webhook>>
  <2>1. pc'[s] = "search"
    BY <1>1, <1>4 DEF TypeOK
  <2>2. TypeOK'
    BY <1>1, <1>2, <1>4 DEF TypeOK, Requests
  <2>3. PlacesInv(s)' /\ ToldInv(s)'
    BY <1>1, <1>2, <1>4, <2>1 DEF PlacesInv, ToldInv, Listed
  <2>4. \A t \in Scripts \ {s} : PlacesInv(t)' /\ ToldInv(t)'
    BY <1>1, <1>2, <1>3, <1>4, OthersUnmoved DEF TypeOK
  <2> QED
    BY <2>2, <2>3, <2>4 DEF Inv
<1>5. ASSUME NEW w \in list[s],
             list' = [list EXCEPT ![s] = @ \ {w}],
             webhook' = [webhook EXCEPT ![s] = w],
             pc' = [pc EXCEPT ![s] = IF w.url # Target[s] THEN "update" ELSE "details"]
      PROVE  Inv'
  <2>1. w \in Webhook /\ w # NoWebhook /\ w.id \in Hooks
    BY <1>1, WebhookSyncAssumption DEF TypeOK, Webhook
  <2>2. /\ list'[s] = list[s] \ {w} /\ webhook'[s] = w
        /\ pc'[s] = IF w.url # Target[s] THEN "update" ELSE "details"
    BY <1>1, <1>5 DEF TypeOK
  <2>3. /\ w.id \in found[s] \ (completed[s] \cup failed[s])
        /\ \A v \in list[s] : v.id = w.id => v = w
    BY <1>1 DEF PlacesInv
  <2>4. Listed(s)' = Listed(s) \ {w.id}
    BY <2>2, <2>3 DEF Listed
  <2>5. TypeOK'
    <3>1. /\ pc' \in [Scripts -> Requests \cup {"next_hook", "done"}]
          /\ list' \in [Scripts -> SUBSET Webhook]
          /\ webhook' \in [Scripts -> Webhook \cup {NoWebhook}]
      BY <1>1, <1>5, <2>1 DEF TypeOK, Requests
    <3>2. ASSUME NEW t \in Scripts
          PROVE  webhook'[t] = NoWebhook
                    <=> pc'[t] \in {"search", "next_hook", "done"}
      BY <1>1, <1>5, <2>1 DEF TypeOK
    <3> QED
      BY <1>1, <1>2, <3>1, <3>2 DEF TypeOK
  <2>6. PlacesInv(s)'
    BY <1>1, <1>2, <2>1, <2>2, <2>3, <2>4 DEF PlacesInv
  <2>7. ToldInv(s)'
    BY <1>1, <1>2, <2>2 DEF ToldInv
  <2>8. \A t \in Scripts \ {s} : PlacesInv(t)' /\ ToldInv(t)'
    BY <1>1, <1>2, <1>3, <1>5, <2>2, OthersUnmoved DEF TypeOK
  <2> QED
    BY <2>5, <2>6, <2>7, <2>8 DEF Inv
<1> QED
  BY <1>4, <1>5 DEF NextHook, Goto

LEMMA EditHolds ==
  ASSUME Inv, NEW h \in Hooks, Edit(h)  PROVE Inv'
<1>1. TypeOK
  BY DEF Inv
<1>2. /\ UNCHANGED <<registered, pc, tries, todo, list, webhook, found, completed, failed, warned>>
      /\ edits' = [edits EXCEPT ![h] = @ + 1]
      /\ Touch(h, Scripts) /\ h \in registered
  BY DEF Edit, runVars
<1>3. PICK u \in {url[h], Elsewhere}, on \in {active[h], FALSE} :
        url' = [url EXCEPT ![h] = u] /\ active' = [active EXCEPT ![h] = on]
  BY DEF Edit
<1>4. u \in URLs /\ on \in BOOLEAN
  BY <1>1 DEF TypeOK, URLs
<1>5. \A g \in Hooks \ {h} :
        url'[g] = url[g] /\ active'[g] = active[g] /\ edits'[g] = edits[g]
  BY <1>1, <1>2, <1>3 DEF TypeOK
<1>6. /\ touched' \in [Scripts -> SUBSET Hooks]
      /\ \A t \in Scripts : touched'[t] \subseteq touched[t] \cup found[t]
  BY <1>1, <1>2 DEF Touch, TypeOK
<1>7. TypeOK'
  BY <1>1, <1>2, <1>3, <1>4, <1>6 DEF TypeOK
<1>8. ASSUME NEW t \in Scripts  PROVE PlacesInv(t)' /\ ToldInv(t)'
  <2>1. Still(t)
    BY <1>2 DEF Still
  <2> QED
    BY <1>1, <1>2, <1>5, <2>1, Disturbed DEF Inv
<1> QED
  BY <1>7, <1>8 DEF Inv
-----------------------------------------------------------------------------
LEMMA NextInv ==
  ASSUME Inv, [Next]_vars  PROVE Inv'
<1>1. ASSUME NEW s \in Scripts, Step(s)  PROVE Inv'
  BY <1>1, SearchHolds, SearchLostHolds, NextHookHolds, UpdateHolds, DetailsHolds,
     ToggleHolds, VerifyHolds, FinishHolds DEF Step
<1>2. ASSUME NEW h \in Hooks, Edit(h)  PROVE Inv'
  BY <1>2, EditHolds
<1>3. CASE UNCHANGED vars
  BY <1>3 DEF vars, serviceVars, runVars, Inv, TypeOK, PlacesInv, ToldInv, Listed
<1> QED
  BY <1>1, <1>2, <1>3 DEF Next

\* Everything a run has been told or has done stands until others touch it.
THEOREM Invariance == Spec => []Inv
  BY InitInv, NextInv, PTL DEF Spec

\* Requests, lists and histories stay what they are meant to be, and a run holds
\* a webhook just while it sends requests about one.
THEOREM TypeCorrect == Spec => []TypeOK
<1>1. Inv => TypeOK
  BY DEF Inv
<1> QED
  BY <1>1, Invariance, PTL

\* What a run logs as completed points to its URL and is active, or was warned
\* of, unless others have changed it since its search.
THEOREM Completed == Spec => []CompletedMeansFixed
<1>1. Inv => CompletedMeansFixed
  BY DEF Inv, ToldInv, CompletedMeansFixed
<1> QED
  BY <1>1, Invariance, PTL

\* A run that is done has logged an outcome for every webhook it found.
THEOREM NoneForgotten == Spec => []EveryHookHandled
<1>1. Inv => EveryHookHandled
  BY DEF Inv, TypeOK, PlacesInv, Listed, EveryHookHandled
<1> QED
  BY <1>1, Invariance, PTL

\* Only the update of a webhook that others have changed since the search takes
\* an edit back.
THEOREM EditsKept == Spec => EditsLostOnlyInFlight
<1>1. ASSUME Inv, Next, NEW h \in Hooks, edits'[h] < edits[h]
      PROVE  \E s \in Scripts :
               pc[s] = "update" /\ webhook[s].id = h /\ h \in touched[s]
  <2>1. edits \in [Hooks -> Nat]
    BY <1>1 DEF Inv, TypeOK
  <2>2. edits' # edits
    BY <1>1, <2>1
  <2>3. ASSUME NEW g \in Hooks, Edit(g)  PROVE FALSE
    BY <1>1, <2>1, <2>3 DEF Edit
  <2>4. PICK s \in Scripts : Update(s) /\ SetURL(s)
    BY <1>1, <2>2, <2>3
       DEF Next, Step, Search, SearchLost, NextHook, Update, Details, Toggle,
           Verify, Finish, Activate, NoWrite, serviceVars
  <2>5. pc[s] = "update"
    BY <2>4 DEF Update
  <2>6. ToldInv(s) /\ webhook[s] # NoWebhook
    BY <1>1, <2>5, BusyFacts
  <2>7. edits' = [edits EXCEPT ![webhook[s].id] = webhook[s].edits]
    BY <2>4 DEF SetURL
  <2>8. webhook[s].id = h /\ edits'[h] = webhook[s].edits
    BY <1>1, <2>1, <2>7
  <2>9. h \in touched[s]
    BY <1>1, <2>1, <2>6, <2>8 DEF ToldInv
  <2> QED
    BY <2>5, <2>8, <2>9
<1>2. ASSUME Inv, [Next]_vars
      PROVE  [\A h \in Hooks :
                edits'[h] < edits[h] =>
                  \E s \in Scripts :
                    pc[s] = "update" /\ webhook[s].id = h /\ h \in touched[s]]_vars
  BY <1>1, <1>2
<1> QED
  BY <1>2, Invariance, PTL DEF Spec, EditsLostOnlyInFlight
-----------------------------------------------------------------------------
(* A run comes to its end. *)

\* What a run has left is measured by numbers: a list has each webhook once.
LEMMA WorkLeftType ==
  ASSUME Inv, NEW s \in Scripts
  PROVE  /\ IsFiniteSet(todo[s]) /\ IsFiniteSet(list[s])
         /\ WorkLeft(s) \in Measure
         /\ pc[s] \in DOMAIN Stage
         /\ MaxRetries - tries[s] \in Nat
<1>1. /\ todo[s] \subseteq Accounts /\ list[s] \subseteq Webhook
      /\ tries[s] \in 0..(MaxRetries - 1) /\ MaxRetries \in Nat
      /\ pc[s] \in Requests \cup {"next_hook", "done"}
  BY WebhookSyncAssumption DEF Inv, TypeOK
<1>2. IsFiniteSet(todo[s])
  BY <1>1, MailerCloudAssumption, FS_Subset
<1>3. IsFiniteSet(list[s])
  <2> DEFINE name == [w \in list[s] |-> w.id]
  <2>1. \A w, v \in list[s] : w.id = v.id => w = v
    BY DEF Inv, PlacesInv
  <2>2. name \in Injection(list[s], Hooks)
    BY <1>1, <2>1 DEF Injection, IsInjective, Webhook
  <2> QED
    BY <2>2, MailerCloudAssumption, FS_Injection
<1>4. Cardinality(todo[s]) \in Nat /\ Cardinality(list[s]) \in Nat
  BY <1>2, <1>3, FS_CardinalityType
<1>5. pc[s] \in DOMAIN Stage /\ Stage[pc[s]] \in Nat
  BY <1>1 DEF Requests, Stage
<1>6. MaxRetries - tries[s] \in Nat
  BY <1>1
<1> QED
  <2> DEFINE c == Cardinality(todo[s])
             h == Cardinality(list[s])
             g == Stage[pc[s]]
             k == MaxRetries - tries[s]
  <2>1. WorkLeft(s) = [clients |-> c, hooks |-> h, stage |-> g, tries |-> k]
    BY Zenon DEF WorkLeft
  <2>2. c \in Nat /\ h \in Nat /\ g \in Nat /\ k \in Nat
    BY <1>4, <1>5, <1>6
  <2> HIDE DEF c, h, g, k
  <2>3. WorkLeft(s) \in Measure
    BY <2>1, <2>2 DEF Measure
  <2> QED
    BY <1>2, <1>3, <1>5, <1>6, <2>3

\* What a run has left, number by number.
LEMMA WorkLeftIs ==
  ASSUME NEW s \in Scripts
  PROVE  /\ WorkLeft(s).clients = Cardinality(todo[s])
         /\ WorkLeft(s).hooks = Cardinality(list[s])
         /\ WorkLeft(s).stage = Stage[pc[s]]
         /\ WorkLeft(s).tries = MaxRetries - tries[s]
         /\ WorkLeft(s)'.clients = Cardinality(todo'[s])
         /\ WorkLeft(s)'.hooks = Cardinality(list'[s])
         /\ WorkLeft(s)'.stage = Stage[pc'[s]]
         /\ WorkLeft(s)'.tries = MaxRetries - tries'[s]
  BY Zenon DEF WorkLeft

\* The four ways in which there is less to do.
LEMMA LessToDo ==
  ASSUME Inv, Inv', NEW s \in Scripts,
         \/ \E a \in todo[s] : todo'[s] = todo[s] \ {a}
         \/ todo'[s] = todo[s] /\ \E w \in list[s] : list'[s] = list[s] \ {w}
         \/ /\ todo'[s] = todo[s] /\ list'[s] = list[s]
            /\ Stage[pc'[s]] < Stage[pc[s]]
         \/ /\ todo'[s] = todo[s] /\ list'[s] = list[s] /\ pc'[s] = pc[s]
            /\ tries'[s] = tries[s] + 1
  PROVE  Less(WorkLeft(s)', WorkLeft(s))
<1>1. /\ IsFiniteSet(todo[s]) /\ IsFiniteSet(list[s])
      /\ Cardinality(todo[s]) \in Nat /\ Cardinality(list[s]) \in Nat
      /\ MaxRetries \in Nat /\ tries[s] \in Nat
  BY WorkLeftType, FS_CardinalityType, WebhookSyncAssumption DEF Inv, TypeOK
<1>2. ASSUME NEW a \in todo[s], todo'[s] = todo[s] \ {a}
      PROVE  Less(WorkLeft(s)', WorkLeft(s))
  <2>1. Cardinality(todo'[s]) = Cardinality(todo[s]) - 1
    BY <1>1, <1>2, FS_RemoveElement
  <2> QED
    BY <1>1, <2>1, WorkLeftIs DEF Less
<1>3. ASSUME todo'[s] = todo[s], NEW w \in list[s], list'[s] = list[s] \ {w}
      PROVE  Less(WorkLeft(s)', WorkLeft(s))
  <2>1. Cardinality(list'[s]) = Cardinality(list[s]) - 1
    BY <1>1, <1>3, FS_RemoveElement
  <2>2. Cardinality(todo'[s]) = Cardinality(todo[s])
    BY <1>3
  <2>3. /\ WorkLeft(s)'.clients = WorkLeft(s).clients
        /\ WorkLeft(s)'.hooks < WorkLeft(s).hooks
    BY <1>1, <2>1, <2>2, WorkLeftIs
  <2> QED
    BY <2>3 DEF Less
<1>4. ASSUME todo'[s] = todo[s], list'[s] = list[s], Stage[pc'[s]] < Stage[pc[s]]
      PROVE  Less(WorkLeft(s)', WorkLeft(s))
  BY <1>4, WorkLeftIs DEF Less
<1>5. ASSUME todo'[s] = todo[s], list'[s] = list[s], pc'[s] = pc[s],
             tries'[s] = tries[s] + 1
      PROVE  Less(WorkLeft(s)', WorkLeft(s))
  BY <1>1, <1>5, WorkLeftIs DEF Less
<1> QED
  BY <1>2, <1>3, <1>4, <1>5

LEMMA StepLeavesLess ==
  ASSUME Inv, Inv', NEW s \in Scripts, Step(s)
  PROVE  Less(WorkLeft(s)', WorkLeft(s))
<1> USE DEF Answered, Goto
<1>0. TypeOK
  BY DEF Inv
<1>1. CASE Search(s) \/ SearchLost(s)
  <2>1. \/ \E a \in todo[s] : todo'[s] = todo[s] \ {a}
        \/ /\ todo'[s] = todo[s] /\ list'[s] = list[s] /\ pc'[s] = pc[s]
           /\ tries'[s] = tries[s] + 1
    BY <1>0, <1>1 DEF Search, SearchLost, TryAgain, GoOn, TypeOK
  <2> QED
    BY <2>1, LessToDo
<1>2. CASE NextHook(s)
  <2>1. /\ todo'[s] = todo[s]
        /\ \/ list'[s] = list[s] /\ pc'[s] = "search" /\ pc[s] = "next_hook"
           \/ \E w \in list[s] : list'[s] = list[s] \ {w}
    BY <1>0, <1>2 DEF NextHook, TypeOK
  <2> QED
    BY <2>1, LessToDo DEF Stage
<1>3. CASE Update(s) \/ Details(s) \/ Toggle(s) \/ Verify(s)
  <2>1. /\ todo'[s] = todo[s] /\ list'[s] = list[s]
        /\ \/ pc'[s] = pc[s] /\ tries'[s] = tries[s] + 1
           \/ pc[s] \in {"update", "details", "toggle", "verify"} /\ pc'[s] = "next_hook"
           \/ pc[s] = "update" /\ pc'[s] = "details"
           \/ pc[s] = "details" /\ pc'[s] = "toggle"
           \/ pc[s] = "toggle" /\ pc'[s] = "verify"
    BY <1>0, <1>3
    DEF Update, Details, Toggle, Verify, GoOn, Fail, Complete, Leave, TryAgain, TypeOK
  <2>2. \/ pc'[s] = pc[s] /\ tries'[s] = tries[s] + 1
        \/ Stage[pc'[s]] < Stage[pc[s]]
    BY <2>1 DEF Stage
  <2> QED
    BY <2>1, <2>2, LessToDo
<1>4. CASE Finish(s)
  <2>1. /\ todo'[s] = todo[s] /\ list'[s] = list[s]
        /\ pc[s] = "search" /\ pc'[s] = "done"
    BY <1>0, <1>4 DEF Finish, TypeOK
  <2> QED
    BY <2>1, LessToDo DEF Stage
<1> QED
  BY <1>1, <1>2, <1>3, <1>4 DEF Step

\* A run of a script ends: what it has left to do only ever gets less
\* (processWebhooks, and main around it).
THEOREM RunsAreBounded == Spec => RunsEnd
<1>1. ASSUME Inv, Inv', [Next]_vars, NEW s \in Scripts
      PROVE  /\ WorkLeft(s) \in Measure
             /\ <<pc[s], tries[s], todo[s], list[s]>>' # <<pc[s], tries[s], todo[s], list[s]>>
                    => Less(WorkLeft(s)', WorkLeft(s))
  <2>1. ASSUME NEW t \in Scripts \ {s}, Step(t)
        PROVE  <<pc[s], tries[s], todo[s], list[s]>>' = <<pc[s], tries[s], todo[s], list[s]>>
    BY <1>1, <2>1
    DEF Step, Search, SearchLost, NextHook, Update, Details, Toggle, Verify, Finish,
        GoOn, Fail, Complete, Leave, TryAgain, Answered, Goto, Inv, TypeOK
  <2>2. CASE UNCHANGED runVars
    BY <2>2, WorkLeftType, <1>1 DEF runVars
  <2> QED
    BY <1>1, <2>1, <2>2, WorkLeftType, StepLeavesLess DEF Next, Edit, vars
<1>2. Inv /\ Inv' /\ [Next]_vars =>
        [\A s \in Scripts :
           /\ WorkLeft(s) \in Measure
           /\ <<pc[s], tries[s], todo[s], list[s]>>' # <<pc[s], tries[s], todo[s], list[s]>>
                 => Less(WorkLeft(s)', WorkLeft(s))]_vars
  BY <1>1
<1> QED
  BY <1>2, Invariance, PTL DEF Spec, RunsEnd
=============================================================================

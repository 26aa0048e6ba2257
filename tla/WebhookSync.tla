---------------------------- MODULE WebhookSync ----------------------------
(***************************************************************************)
(* The scripts that point the webhooks of all configured clients to this   *)
(* server and activate them (scripts/production/update_webhooks.go, and    *)
(* scripts/update_webhooks.go for development, which differs in the URL).  *)
(* A run searches each client's webhooks and then, webhook by webhook,     *)
(* sends up to four requests, each with retries.  Runs of both scripts may *)
(* overlap, and users edit their webhooks meanwhile.                       *)
(***************************************************************************)
EXTENDS MailerCloud

CONSTANTS
    Scripts,      \* runs of a script
    Target,       \* the URL each one sets
    Elsewhere,    \* any other URL
    MaxRetries,   \* maxRetries
    NoWebhook,    \* none is being processed
    MaxEdits      \* bound on the edits of each webhook

URLs == {Target[s] : s \in Scripts} \cup {Elsewhere}

ASSUME WebhookSyncAssumption ==
    /\ MaxRetries \in Nat \ {0}
    /\ NoWebhook \notin [id : Hooks, url : URLs, edits : Nat]
    /\ MaxEdits \in [Hooks -> Nat]

VARIABLES
    url, active,  \* of each webhook, in the service
    edits,        \* its name and events: how often users have edited them
    pc, tries,    \* of each run: the request it is at, and earlier tries of it
    todo,         \* clients whose turn has not come
    list,         \* what the search said of the webhooks whose turn has not come
    webhook,      \* ... and of the one being processed
    found, completed, failed, \* history: webhooks found, and what was logged
    warned,       \* history: of those completed, still inactive when verified
    touched       \* history: of these, changed by others since the search

serviceVars == <<registered, url, active, edits>>
runVars == <<pc, tries, todo, list, webhook, found, completed, failed, warned>>
vars == <<serviceVars, runVars, touched>>

Webhook == [id : Hooks, url : URLs, edits : Nat]

Requests == {"search", "update", "details", "toggle", "verify"}

TypeOK ==
    /\ registered \subseteq Hooks
    /\ url \in [Hooks -> URLs]
    /\ active \in [Hooks -> BOOLEAN]
    /\ edits \in [Hooks -> Nat]
    /\ pc \in [Scripts -> Requests \cup {"next_hook", "done"}]
    /\ tries \in [Scripts -> 0..(MaxRetries - 1)]
    /\ todo \in [Scripts -> SUBSET Accounts]
    /\ list \in [Scripts -> SUBSET Webhook]
    /\ webhook \in [Scripts -> Webhook \cup {NoWebhook}]
    /\ {found, completed, failed, warned, touched} \subseteq [Scripts -> SUBSET Hooks]
    /\ \A s \in Scripts :
         /\ webhook[s] = NoWebhook
                <=> pc[s] \in {"search", "next_hook", "done"}
         /\ completed[s] \cup failed[s] \subseteq found[s]
         /\ found[s] \cup touched[s] \subseteq registered

Init ==
    /\ registered \in SUBSET Hooks
    /\ url \in [Hooks -> URLs]
    /\ active \in [Hooks -> BOOLEAN]
    /\ edits = [h \in Hooks |-> 0]
    /\ pc = [s \in Scripts |-> "search"]
    /\ tries = [s \in Scripts |-> 0]
    /\ todo = [s \in Scripts |-> Accounts]
    /\ list = [s \in Scripts |-> {}]
    /\ webhook = [s \in Scripts |-> NoWebhook]
    /\ found = [s \in Scripts |-> {}]
    /\ completed = [s \in Scripts |-> {}]
    /\ failed = [s \in Scripts |-> {}]
    /\ warned = [s \in Scripts |-> {}]
    /\ touched = [s \in Scripts |-> {}]
-----------------------------------------------------------------------------
Goto(s, label) == pc' = [pc EXCEPT ![s] = label]

\* makeRequest returns an answer, and processing goes on with request label.
Answered(s, label) ==
    /\ Goto(s, label)
    /\ tries' = [tries EXCEPT ![s] = 0]

\* The run is done with its webhook, and has logged how it went.
Leave(s, outcome) ==
    /\ Answered(s, "next_hook")
    /\ webhook' = [webhook EXCEPT ![s] = NoWebhook]
    /\ CASE outcome = "completed" ->
              /\ completed' = [completed EXCEPT ![s] = @ \cup {webhook[s].id}]
              /\ UNCHANGED failed
         [] outcome = "failed" ->
              /\ failed' = [failed EXCEPT ![s] = @ \cup {webhook[s].id}]
              /\ UNCHANGED completed

\* Another request about the same webhook.
GoOn(s, label) ==
    /\ Answered(s, label)
    /\ UNCHANGED <<webhook, completed, failed, list>>

\* A try gets no answer, or one that blames the server, and is repeated.
TryAgain(s) ==
    /\ tries[s] + 1 < MaxRetries
    /\ tries' = [tries EXCEPT ![s] = @ + 1]
    /\ UNCHANGED <<pc, webhook, completed, failed, list>>

\* Variants: an error ends the client, or puts the webhook back for later.
FailAbandoning(s) == Leave(s, "failed") /\ list' = [list EXCEPT ![s] = {}]
FailRepeating(s) ==
    Leave(s, "failed") /\ list' = [list EXCEPT ![s] = @ \cup {webhook[s]}]

\* The request is refused, its answer does not decode, or the last try is lost.
Fail(s) == Leave(s, "failed") /\ UNCHANGED list

Complete(s) == Leave(s, "completed") /\ UNCHANGED list

\* Webhook h is changed under the eyes of the runs others.
Touch(h, others) ==
    touched' = [t \in Scripts |->
                  IF t \in others /\ h \in found[t] \ failed[t]
                  THEN touched[t] \cup {h} ELSE touched[t]]

\* Variant: name and events are not sent.
SetURLOnly(s) ==
    /\ url' = [url EXCEPT ![webhook[s].id] = Target[s]]
    /\ edits' = [edits EXCEPT ![webhook[s].id] = 0]
    /\ Touch(webhook[s].id, Scripts \ {s})
    /\ UNCHANGED <<registered, active>>

\* The request carries the name and the events that the search found.
SetURL(s) ==
    /\ url' = [url EXCEPT ![webhook[s].id] = Target[s]]
    /\ edits' = [edits EXCEPT ![webhook[s].id] = webhook[s].edits]
    /\ Touch(webhook[s].id, Scripts \ {s})
    /\ UNCHANGED <<registered, active>>

Activate(s) ==
    /\ active' = [active EXCEPT ![webhook[s].id] = TRUE]
    /\ Touch(webhook[s].id, Scripts \ {s})
    /\ UNCHANGED <<registered, url, edits>>

NoWrite == UNCHANGED <<serviceVars, touched>>
-----------------------------------------------------------------------------
\* The range over the clients is at its end.
Finish(s) ==
    /\ pc[s] = "search"
    /\ todo[s] = {}
    /\ Goto(s, "done")
    /\ UNCHANGED <<tries, todo, list, webhook, found, completed, failed, warned>>
    /\ NoWrite

\* getWebhooks, for any client of those left.  It does not look at the status:
\* a refusal is an empty list.
Search(s) ==
    /\ pc[s] = "search"
    /\ \E a \in todo[s] : \E page \in SearchResults(a) \cup {{}} :
         /\ Answered(s, "next_hook")
         /\ todo' = [todo EXCEPT ![s] = @ \ {a}]
         /\ list' = [list EXCEPT ![s] =
                       {[id |-> h, url |-> url[h], edits |-> edits[h]] : h \in page}]
         /\ found' = [found EXCEPT ![s] = @ \cup page]
    /\ UNCHANGED <<webhook, completed, failed, warned>>
    /\ NoWrite

\* Or it fails for good: main logs the error and takes the next client.
SearchLost(s) ==
    /\ pc[s] = "search"
    /\ todo[s] # {}
    /\ \/ TryAgain(s) /\ UNCHANGED todo
       \/ /\ GoOn(s, "search")
          /\ \E a \in todo[s] : todo' = [todo EXCEPT ![s] = @ \ {a}]
    /\ UNCHANGED <<found, warned>>
    /\ NoWrite

\* processWebhooks takes the next webhook of the list, and corrects the URL if
\* the search said another.
NextHook(s) ==
    /\ pc[s] = "next_hook"
    /\ \/ /\ list[s] = {}
          /\ Goto(s, "search")
          /\ UNCHANGED <<list, webhook>>
       \/ \E w \in list[s] :
            /\ list' = [list EXCEPT ![s] = @ \ {w}]
            /\ webhook' = [webhook EXCEPT ![s] = w]
            /\ Goto(s, IF w.url # Target[s] THEN "update" ELSE "details")
    /\ UNCHANGED <<tries, todo, found, completed, failed, warned>>
    /\ NoWrite

\* updateWebhookURL, whose effect may go unheard of.
Update(s) ==
    /\ pc[s] = "update"
    /\ \/ SetURL(s) /\ GoOn(s, "details")
       \/ (SetURL(s) \/ NoWrite) /\ (Fail(s) \/ TryAgain(s))
    /\ UNCHANGED <<todo, found, warned>>

\* Variant: what the search said of the status is believed.
DetailsSkipped(s) ==
    /\ pc[s] = "details"
    /\ Complete(s)
    /\ UNCHANGED <<todo, found, warned>>
    /\ NoWrite

\* getWebhookDetails does not look at the status of the answer either: a refusal
\* reads as an inactive webhook, if it can be decoded at all.
Details(s) ==
    /\ pc[s] = "details"
    /\ \/ active[webhook[s].id] /\ Complete(s)
       \/ GoOn(s, "toggle")
       \/ Fail(s) \/ TryAgain(s)
    /\ UNCHANGED <<todo, found, warned>>
    /\ NoWrite

\* toggleWebhookStatus, likewise.  A 200 is no promise that it took effect ...
Toggle(s) ==
    /\ pc[s] = "toggle"
    /\ Activate(s) \/ NoWrite
    /\ GoOn(s, "verify") \/ Fail(s) \/ TryAgain(s)
    /\ UNCHANGED <<todo, found, warned>>

\* ... so the status is read again.  One that does not read as active, or that
\* was refused to be read, is a warning, and the webhook is logged as completed.
Verify(s) ==
    /\ pc[s] = "verify"
    /\ \/ active[webhook[s].id] /\ Complete(s) /\ UNCHANGED warned
       \/ /\ Complete(s)
          /\ warned' = [warned EXCEPT ![s] = @ \cup {webhook[s].id}]
       \/ (Fail(s) \/ TryAgain(s)) /\ UNCHANGED warned
    /\ UNCHANGED <<todo, found>>
    /\ NoWrite
-----------------------------------------------------------------------------
\* What users do in the service.  One they register is found by a later search,
\* as if it had always been there, or by none.
Edit(h) ==
    /\ h \in registered
    /\ edits[h] < MaxEdits[h]
    /\ edits' = [edits EXCEPT ![h] = @ + 1]
    /\ \E u \in {url[h], Elsewhere}, on \in {active[h], FALSE} :
         /\ url' = [url EXCEPT ![h] = u]
         /\ active' = [active EXCEPT ![h] = on]
    /\ Touch(h, Scripts)
    /\ UNCHANGED <<registered, runVars>>

Step(s) ==
    \/ Search(s) \/ SearchLost(s)
    \/ NextHook(s) \/ Update(s) \/ Details(s) \/ Toggle(s) \/ Verify(s)
    \/ Finish(s)

Next ==
    \/ \E s \in Scripts : Step(s)
    \/ \E h \in Hooks : Edit(h)

Spec == Init /\ [][Next]_vars
-----------------------------------------------------------------------------
\* A webhook that a run says it has completed points to the run's URL, and is
\* active unless the run warned that it is not, as long as nobody else has
\* changed it since the run's search: whichever requests were lost, refused or
\* repeated, an error on the way is never logged as a success without a warning.
CompletedMeansFixed ==
    \A s \in Scripts : \A h \in completed[s] \ touched[s] :
        url[h] = Target[s] /\ (active[h] \/ h \in warned[s])

\* A run that is done has dealt with every webhook its searches found: an error
\* with one of them, or with another client, costs the rest nothing.
EveryHookHandled ==
    \A s \in Scripts :
        pc[s] = "done" =>
            todo[s] = {} /\ found[s] \subseteq completed[s] \cup failed[s]

\* A user's edit of name and events is undone only if it falls between a run's
\* search and its update of that webhook, which sends back what the search said.
EditsLostOnlyInFlight ==
    [][\A h \in Hooks :
          edits'[h] < edits[h] =>
              \E s \in Scripts :
                  pc[s] = "update" /\ webhook[s].id = h /\ h \in touched[s]]_vars

\* What a run has still to do: clients, webhooks of the list, requests about the
\* webhook in progress, and tries of the request, in this order of importance.
Stage == [update |-> 6, details |-> 5, toggle |-> 4, verify |-> 3, next_hook |-> 2,
          search |-> 1, done |-> 0]

WorkLeft(s) ==
    [clients |-> Cardinality(todo[s]), hooks |-> Cardinality(list[s]),
     stage |-> Stage[pc[s]], tries |-> MaxRetries - tries[s]]

Measure == [clients : Nat, hooks : Nat, stage : Nat, tries : Nat]

Less(p, q) ==
    \/ p.clients < q.clients
    \/ p.clients = q.clients /\ p.hooks < q.hooks
    \/ p.clients = q.clients /\ p.hooks = q.hooks /\ p.stage < q.stage
    \/ /\ p.clients = q.clients /\ p.hooks = q.hooks /\ p.stage = q.stage
       /\ p.tries < q.tries

\* No run goes on for ever, whatever the service answers and whoever edits the
\* webhooks or runs a script meanwhile: each step of a run, a lost try or one that
\* finds more webhooks included, leaves it less to do, and no step of others
\* leaves it more.
RunsEnd ==
    [][\A s \in Scripts :
          /\ WorkLeft(s) \in Measure
          /\ <<pc[s], tries[s], todo[s], list[s]>>' # <<pc[s], tries[s], todo[s], list[s]>>
                 => Less(WorkLeft(s)', WorkLeft(s))]_vars
=============================================================================

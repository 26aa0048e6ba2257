------------------------------- MODULE Intake -------------------------------
(***************************************************************************)
(* Whom a request is charged to.  When it starts, the server asks the      *)
(* e-mail service for the webhooks of every configured client              *)
(* (internal/mapping/webhook_mapping.go, called by api/router/router.go)   *)
(* and never asks again.  A POST to /webhook passes the router's checks    *)
(* and the handler's, is attributed to a client by its Webhook-Id header   *)
(* (extractClientID in api/handlers/webhook.go), and meets that client's   *)
(* limit.  The header is whatever its sender writes there.  The handler    *)
(* that WEBHOOK_DEBUG selects (webhook_debug.go) makes fewer checks, and   *)
(* may take the body's word for the client.                                *)
(***************************************************************************)
EXTENDS MailerCloud, RateLimiter

CONSTANTS
    Configured,   \* the clients of MAILERCLOUD_API_KEYS
    AccountOf,    \* the account of each one's API key
    NoHook,       \* the Webhook-Id header is missing
    ValidationID, \* the header says "WebhookID"
    Unknown,      \* the client "unknown"
    NoClient,     \* WebhookToClient has no entry, or a body names no client
    Claims        \* other texts a header may hold, or a body, for a client

ASSUME IntakeAssumption ==
    /\ AccountOf \in [Configured -> Accounts]
    /\ {NoHook, ValidationID} \cap (Hooks \cup Claims) = {}
    /\ NoClient \notin Configured \cup Claims
    /\ IsFiniteSet(Configured) /\ IsFiniteSet(Hooks)
    /\ Clients = Configured \cup Hooks \cup {Unknown} \cup Claims

VARIABLES
    debug,        \* which handler the process runs
    toLoad,       \* clients whose webhooks are still to be fetched
    mapping,      \* WebhookToClient
    listed,       \* history: webhooks that were fetched since the start
    charged       \* history: since the start, who was charged for whose requests

mappingVars == <<debug, toLoad, mapping, listed>>
vars == <<limiterVars, registered, mappingVars, charged>>

TypeOK ==
    /\ LimiterTypeOK
    /\ registered \subseteq Hooks
    /\ debug \in BOOLEAN
    /\ toLoad \subseteq Configured
    /\ mapping \in [Hooks -> Configured \cup {NoClient}]
    /\ listed \subseteq registered
    /\ charged \subseteq (Hooks \cup Claims \cup {NoHook}) \X Clients

Init ==
    /\ LimiterInit
    /\ registered = {}
    /\ debug \in BOOLEAN
    /\ toLoad = Configured
    /\ mapping = [h \in Hooks |-> NoClient]
    /\ listed = {}
    /\ charged = {}
-----------------------------------------------------------------------------
\* Variant: each client's webhooks go into a fresh map.
FetchReplacing(c) ==
    /\ c \in toLoad
    /\ \E page \in SearchResults(AccountOf[c]) :
         /\ mapping' = [h \in Hooks |-> IF h \in page THEN c ELSE NoClient]
         /\ listed' = listed \cup page
    /\ toLoad' = toLoad \ {c}
    /\ UNCHANGED <<limiterVars, registered, debug, charged>>

\* The next client of the range over the map, in any order.
Fetch(c) ==
    /\ c \in toLoad
    /\ \E page \in SearchResults(AccountOf[c]) :
         /\ mapping' = [h \in Hooks |-> IF h \in page THEN c ELSE mapping[h]]
         /\ listed' = listed \cup page
    /\ toLoad' = toLoad \ {c}
    /\ UNCHANGED <<limiterVars, registered, debug, charged>>

\* The error is logged, and nobody tries again.
FetchFails(c) ==
    /\ c \in toLoad
    /\ toLoad' = toLoad \ {c}
    /\ UNCHANGED <<limiterVars, registered, debug, mapping, listed, charged>>

\* Setup returns before the server listens.
Serving == toLoad = {}
-----------------------------------------------------------------------------
\* What the decisions read of a POST: two headers, the API key, which may be
\* missing or unknown, and the body, with the client it names.
Posts ==
    [hook : Hooks \cup Claims \cup {NoHook, ValidationID},
     agent : {"MailerCloud", "other"},
     key : {"refused", "configured"},
     body : {"event", "test", "malformed"},
     client : Claims \cup {NoClient}]

\* The router takes any User-Agent that contains "MailerCloud" for a validation,
\* so that the handler, which looks for that very string, never finds it.
IsValidation(q) == q.hook = ValidationID \/ q.agent # "other"

\* A Webhook-Id stands in for an API key.
Authorised(q) == q.hook # NoHook \/ q.key = "configured"

\* What the handler takes for an event: the debug handler knows no test body.
EventBodies == IF debug THEN {"event", "test"} ELSE {"event"}

IsEvent(q) == ~IsValidation(q) /\ Authorised(q) /\ q.body \in EventBodies

\* What the handler reads of a client in the body.
ClaimOf(q) == IF debug THEN q.client ELSE NoClient

GetClientForWebhook(h) == IF h \in Hooks THEN mapping[h] ELSE NoClient

\* Whom a Webhook-Id stands for: the client it is mapped to, or else whoever
\* has the very text for a name.
ByHook(h) == IF GetClientForWebhook(h) # NoClient THEN GetClientForWebhook(h) ELSE h

\* Variant: what the body says comes first.
ClientClaimed(q) ==
    CASE ClaimOf(q) # NoClient -> ClaimOf(q)
      [] ClaimOf(q) = NoClient /\ q.hook = NoHook -> Unknown
      [] OTHER -> ByHook(q.hook)

\* extractClientID
ClientFor(q) ==
    CASE q.hook # NoHook -> ByHook(q.hook)
      [] q.hook = NoHook /\ ClaimOf(q) # NoClient -> ClaimOf(q)
      [] OTHER -> Unknown

\* Variant: the mapping is loaded in the background.
ChargeWhileLoading(q) ==
    /\ IsEvent(q)
    /\ Admit(ClientFor(q)) \/ Refuse(ClientFor(q))
    /\ charged' = charged \cup {<<q.hook, ClientFor(q)>>}
    /\ UNCHANGED <<registered, mappingVars>>

\* The limiter is asked about the event's client.
Charge(q) ==
    /\ Serving
    /\ IsEvent(q)
    /\ Admit(ClientFor(q)) \/ Refuse(ClientFor(q))
    /\ charged' = charged \cup {<<q.hook, ClientFor(q)>>}
    /\ UNCHANGED <<registered, mappingVars>>

\* 200 to a validation or a test, 401 or 400: nothing changes.
AnswerAtOnce(q) ==
    /\ Serving
    /\ ~IsEvent(q)
    /\ UNCHANGED vars

\* The process starts again, with either handler, and loads the mapping again.
Restart ==
    /\ ForgetLimits
    /\ debug' \in BOOLEAN
    /\ toLoad' = Configured
    /\ mapping' = [h \in Hooks |-> NoClient]
    /\ listed' = {}
    /\ charged' = {}
    /\ UNCHANGED registered

Next ==
    \/ \E c \in Configured : Fetch(c) \/ FetchFails(c)
    \/ \E q \in Posts : Charge(q) \/ AnswerAtOnce(q)
    \/ \E h \in Hooks : Register(h) /\ UNCHANGED <<limiterVars, mappingVars, charged>>
    \/ Time /\ UNCHANGED <<registered, mappingVars, charged>>
    \/ Restart

Spec == Init /\ [][Next]_vars
-----------------------------------------------------------------------------
\* From one start to the next, all requests with one Webhook-Id are charged to
\* the same client, whatever fetches failed and whatever has been registered
\* since: no client sees its count split by the order in which things happened.
OneClientPerHook ==
    \A p, q \in charged : p[1] = q[1] /\ p[1] # NoHook => p[2] = q[2]

\* A webhook that was found when the mapping was loaded is charged to a client
\* of its account and to nobody else.  Any other request that is charged to a
\* configured client came with the client's own name in place of a webhook's
\* id, which nothing checks, or has no id and names the client in its body,
\* which is enough for the debug handler alone (or the client is "unknown").
ChargedToOwner ==
    \A p \in charged :
        p[2] \in Configured =>
            \/ p[1] \in listed /\ OwnerOf[p[1]] = AccountOf[p[2]]
            \/ p[1] \notin listed /\ p[1] = p[2]
            \/ p[1] = NoHook /\ (debug \/ p[2] = Unknown)

\* The webhooks of an account share the limit of its client, except those a
\* fetch did not return (it failed, the page was full, they were registered
\* later), which have a limit each.
LimitsShared ==
    \A a \in Accounts :
        LET own == {h \in Hooks : OwnerOf[h] = a}
            used == {p[2] : p \in {p \in charged : p[1] \in own}}
            clients == {c \in Configured : AccountOf[c] = a}
        IN  Cardinality(used) <= Cardinality(clients) + Cardinality(own \ listed)
=============================================================================

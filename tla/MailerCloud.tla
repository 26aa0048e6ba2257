---------------------------- MODULE MailerCloud ----------------------------
(***************************************************************************)
(* The webhook registry of the e-mail service, as far as the repository    *)
(* calls it.  The server (internal/mapping/webhook_mapping.go) and the     *)
(* scripts (scripts/production/update_webhooks.go) send the same search: the *)
(* first page of an account's webhooks, sorted by name.                    *)
(***************************************************************************)
EXTENDS Naturals, FiniteSets

CONSTANTS
    Hooks,        \* webhook ids
    Accounts,     \* what an API key stands for
    OwnerOf,      \* the account of each webhook
    PageSize      \* SearchWebhooksRequest.Limit

ASSUME MailerCloudAssumption ==
    /\ OwnerOf \in [Hooks -> Accounts]
    /\ PageSize \in Nat \ {0}
    /\ IsFiniteSet(Hooks) /\ IsFiniteSet(Accounts)

VARIABLE registered   \* the webhooks that exist

\* A user creates a webhook in the service.
Register(h) ==
    /\ h \notin registered
    /\ registered' = registered \cup {h}

OwnedBy(a) == {h \in registered : OwnerOf[h] = a}

\* What a search may return.  Names are the users' choice, so any webhooks may
\* come first.
SearchResults(a) ==
    LET size == IF Cardinality(OwnedBy(a)) < PageSize
                THEN Cardinality(OwnedBy(a)) ELSE PageSize
    IN  {page \in SUBSET OwnedBy(a) : Cardinality(page) = size}
=============================================================================

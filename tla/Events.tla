------------------------------- MODULE Events -------------------------------
(***************************************************************************)
(* The webhook events that travel through the system                       *)
(* (internal/models/webhook.go).  A member of Messages is one AMQP message *)
(* carrying one event; two copies of an event published twice are two      *)
(* members of Messages with the same webhook id.  Only the fields that a   *)
(* decision of the code depends on are kept: the webhook id, which filters *)
(* every status update, and whether the body can be decoded at all.        *)
(***************************************************************************)
CONSTANTS
    Messages,    \* messages that may be published to the queue
    WebhookIDs,  \* values of WebhookEvent.WebhookID
    WebhookID,   \* the webhook id each message carries
    Malformed    \* messages whose body json.Unmarshal rejects

ASSUME EventsAssumption ==
    /\ WebhookID \in [Messages -> WebhookIDs]
    /\ Malformed \subseteq Messages

\* models.EventStatus
EventStatus == {"pending", "processed", "failed", "retrying"}
=============================================================================

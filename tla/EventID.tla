------------------------------ MODULE EventID ------------------------------
(***************************************************************************)
(* The id a handler gives an event (generateWebhookID in                   *)
(* api/handlers/webhook.go, of which webhook_debug.go has a copy).  Of a   *)
(* payload it reads five fields that may hold an id, and four others.      *)
(***************************************************************************)
EXTENDS Sequences

CONSTANT Absent   \* a field that is missing, empty or of another type

\* ids: webhook_id, message_id, event_id, delivery_id and tracking_id, of which
\* the first counts; parts: campaign_id, email, ts and event, as fmt prints them
\* in hexadecimal.  A list leaves no trace of the fields that are absent.
Present(fields) == SelectSeq(fields, LAMBDA f : f # Absent)

\* The last resort is the time, here the name of the instant.
generateWebhookID(payload, instant) ==
    LET given == Present(payload.ids)
        components == Present(payload.parts)
    IN  CASE given # <<>> -> <<"given", <<given[1]>>>>
          [] given = <<>> /\ components # <<>> -> <<"mc", components>>
          [] OTHER -> <<"mc", <<instant>>>>
=============================================================================

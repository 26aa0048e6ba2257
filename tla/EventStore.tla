----------------------------- MODULE EventStore -----------------------------
(***************************************************************************)
(* The MongoDB collection of events (internal/storage/mongodb.go).  The    *)
(* indexes NewMongoDB creates are not unique, so a collection may hold any *)
(* number of documents with the same webhook_id.                           *)
(***************************************************************************)
EXTENDS Events, Naturals, Sequences

VARIABLE docs   \* the documents, in the order they were inserted

Document == [msg : Messages, status : EventStatus, retry : Nat]

StoreTypeOK == docs \in Seq(Document)

StoreInit == docs = << >>

\* InsertOne of a fresh document; event.Status is "pending" on every path that
\* reaches it, because processDelivery sets it and nothing changes it.
InsertEvent(m, retryCount) ==
    docs' = Append(docs, [msg |-> m, status |-> "pending", retry |-> retryCount])

Matching(id) == {i \in DOMAIN docs : WebhookID[docs[i].msg] = id}

\* UpdateOne filters on webhook_id alone.  It changes one matching document,
\* of whichever event; which one is not specified by the query.  Nothing
\* matching is not an error.
UpdateEventStatus(m, status, retryCount) ==
    IF Matching(WebhookID[m]) = {}
    THEN UNCHANGED docs
    ELSE \E i \in Matching(WebhookID[m]) :
             docs' = [docs EXCEPT ![i].status = status, ![i].retry = retryCount]

\* Some document of the collection holds the contents of message m.
Stored(m) == \E i \in DOMAIN docs : docs[i].msg = m
=============================================================================

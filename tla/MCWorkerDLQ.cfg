\* A database outage longer than the retries, with a dead letter queue.
SPECIFICATION Spec
CONSTANTS
    m1 = m1
    m2 = m2
    w1 = w1
    w2 = w2
    id = id
    Messages = {m1}
    WebhookIDs = {m1}
    WebhookID <- DistinctIDs
    Malformed <- NoneMalformed
    Workers = {w1}
    Prefetch = 2
    HasDLQ = TRUE
    HasTTL = FALSE
    Concurrency = 1
    MaxRetries = 3
    NoMessage = NoMessage
    MaxFaults <- OutageFaults
INVARIANTS
    RetriesEndInDLQ
\* Once everything is settled, or every worker has stalled, nothing need happen.
CHECK_DEADLOCK FALSE

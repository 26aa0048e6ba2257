\* Liveness through database errors, crashes, shutdowns and lost connections, with
\* a TTL on the queue and no dead letter queue: a message may also expire.
SPECIFICATION FairSpec
CONSTANTS
    m1 = m1
    m2 = m2
    w1 = w1
    w2 = w2
    id = id
    Messages = {m1}
    WebhookIDs = {m1}
    WebhookID <- DistinctIDs
    Malformed <- NoneMalformed
    Workers = {w1, w2}
    Prefetch = 2
    HasDLQ = FALSE
    HasTTL = TRUE
    Concurrency = 1
    MaxRetries = 2
    NoMessage = NoMessage
    MaxFaults <- StallFaults
PROPERTIES
    SettledUnlessAllStalled
    ShutdownCompletes
\* Once everything is settled, or every worker has stalled, nothing need happen.
CHECK_DEADLOCK FALSE

\* A lost connection: a goroutine goes on with a delivery that the broker has
\* already given to another worker.  What duplicates and losses then cost, for
\* one event, with the code's own number of attempts.
SPECIFICATION HistorySpec
CONSTANTS
    m1 = m1
    m2 = m2
    w1 = w1
    w2 = w2
    Messages = {m1}
    WebhookIDs = {m1}
    WebhookID <- DistinctIDs
    Malformed <- NoneMalformed
    Workers = {w1, w2}
    Prefetch = 2
    HasDLQ = TRUE
    HasTTL = FALSE
    Concurrency = 1
    MaxRetries = 3
    NoMessage = NoMessage
    MaxFaults <- CostFaults
    MaxDeliveries = 3
SYMMETRY Symmetry
INVARIANTS
    DuplicateBound
    LossBound
    RedeliveryBound
PROPERTY
    KeepsPromise
\* Once everything is settled, or every worker has stalled, nothing need happen.
CHECK_DEADLOCK FALSE

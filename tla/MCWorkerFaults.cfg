\* One worker of two goroutines, an event and a message that does not decode, the
\* code's own number of attempts, a dead letter queue and no TTL, so that nothing
\* but a rejection dead-letters a message, and every kind of fault.
SPECIFICATION Spec
CONSTANTS
    m1 = m1
    m2 = m2
    w1 = w1
    w2 = w2
    id = id
    Messages = {m1, m2}
    WebhookIDs = {m1, m2}
    WebhookID <- DistinctIDs
    Malformed <- SecondMalformed
    Workers = {w1}
    Prefetch = 4
    HasDLQ = TRUE
    HasTTL = FALSE
    Concurrency = 2
    MaxRetries = 3
    NoMessage = NoMessage
    MaxFaults <- AllFaults
INVARIANTS
    NoneStranded
    SettleOnce
    AckedAccountedFor
    FailedEarned
    ShutdownCostsOneAttempt
    PoisonSeparated
    AckedProcessed
    IndInv
\* Once everything is settled, or every worker has stalled, nothing need happen.
CHECK_DEADLOCK FALSE

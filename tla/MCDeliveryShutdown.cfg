SPECIFICATION DeliverySpec
\* Every request ends; the process then waits for more.
CHECK_DEADLOCK FALSE
CONSTANTS
    Clients = {"r"}
    DailyLimit = 2
    Day = 1
    ClockSteps = {}
    MaxSteps = 0
    MaxTime = 0
    NoLimit = NoLimit
    Keys <- MCSeries
    Series <- MCSeries
    failureKey <- MCFailureKey
    Requests <- TwoRequests
    ClientOf <- MCClientOf
    Absent = Absent
    Payload <- OneEvent
    Attempts = 2
    HasTTL = FALSE
INVARIANT
    GracefulShutdown

SPECIFICATION Spec
\* A process that is up, when no more faults are left, stays as it is.
CHECK_DEADLOCK FALSE
CONSTANTS
    server = server
    worker = worker
    Processes = {server, worker}
    Servers = {server}
    Half = 4
    Deployments <- MCDeployments
    MaxFaults = 1
    MaxTampering = 1
INVARIANTS
    WiredOnceUp
    DeadLettersKept
    TTLHonoured
    RedeclareAccepted
    RefusedForCause
PROPERTY
    GetsUp

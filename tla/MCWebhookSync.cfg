SPECIFICATION Spec
\* Both runs end, and users stop editing.
CHECK_DEADLOCK FALSE
CONSTANTS
    h1 = h1
    h2 = h2
    a1 = a1
    dev = dev
    prod = prod
    Hooks = {h1, h2}
    Accounts = {a1}
    OwnerOf <- MCOwnerOf
    PageSize = 2
    Scripts = {dev, prod}
    Target <- MCTarget
    Elsewhere = Elsewhere
    MaxRetries = 2
    NoWebhook = NoWebhook
    MaxEdits <- MCMaxEdits
SYMMETRY Symmetry
INVARIANTS
    CompletedMeansFixed
    EveryHookHandled
PROPERTIES
    EditsLostOnlyInFlight
    RunsEnd

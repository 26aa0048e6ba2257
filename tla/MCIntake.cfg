SPECIFICATION Spec
CONSTANTS
    h1 = h1
    h2 = h2
    h3 = h3
    c1 = c1
    c2 = c2
    a1 = a1
    a2 = a2
    Hooks = {h1, h2, h3}
    Accounts = {a1, a2}
    OwnerOf <- MCOwnerOf
    PageSize = 2
    Configured = {c1, c2}
    AccountOf <- MCAccountOf
    NoHook = NoHook
    ValidationID = ValidationID
    Unknown = Unknown
    NoClient = NoClient
    Claims = {c1}
    Clients <- MCClients
    DailyLimit = 2
    Day = 2
    ClockSteps <- MCClockSteps
    MaxTime = 4
    MaxSteps = 1
    NoLimit = NoLimit
SYMMETRY Symmetry
CONSTRAINT OneClientOverTime
INVARIANTS
    WindowBound
    RefusedOnlyWhenSpent
    OneClientPerHook
    LimitsShared
    ChargedToOwner

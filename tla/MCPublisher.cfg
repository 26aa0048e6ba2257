\* Two goroutines that publish, reconnect and race with Close, under outages and
\* losses without limit.
SPECIFICATION Spec
CONSTANTS
    Handlers = {h1, h2}
    Conns = {c1, c2, c3}
    MaxAttempts = 3
    NoConn = NoConn
INVARIANTS
    UndisturbedCallSucceeds
    OrphansComeFromRaces
    CloseClosesAll
PROPERTIES
    CallsEnd
    EveryCallReturns

\* A client and this host; a disabled limiter and a budget of 2 per window of two
\* half-seconds; time for two windows and the start of a third; one line a report.
CONSTANTS
    c1 = c1
    lo = lo
    Keys = {c1, lo}
    Loopback = lo
    Unparsed = Unparsed
    NoHeader = NoHeader
    Limits = {0, 2}
    Window = 2
    UnitsPerSecond = 2
    MaxTime = 4
    MaxLogged = 1
    Violations = {0, 3}
SPECIFICATION EdgeFairSpec
INVARIANTS
    SlidingBudget
    RetryAfterTracksRollover
    BudgetFollowsOrigin
    LogBounded
PROPERTIES
    RejectedForOwnRequests
    ImplementsFixedWindow
    ForgetsIdleClients

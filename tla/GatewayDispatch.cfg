SPECIFICATION Spec
CONSTANTS
    g1 = g1
    g2 = g2
    web = web
    store = store
    None = None
    Grant = {g1, g2}
    Target = {web, store}
    RequestOf <- MCRequestOf
    Targets <- MCTargets
    IssuedAt <- MCIssuedAt
    ExpiresAt <- MCExpiresAt
    Skew = 1
    MaxEntries = 1
    MaxClock = 2
    MaxSends = 2
    MaxStarts = 2
CHECK_DEADLOCK FALSE
INVARIANTS SucceededMeansReached OnceWhileLive

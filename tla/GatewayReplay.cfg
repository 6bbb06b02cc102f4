SPECIFICATION Spec
CONSTANTS
    t1 = t1
    t2 = t2
    j1 = j1
    j2 = j2
    j3 = j3
    Thread <- MCThread
    Jti <- MCJti
    IssuedAt <- MCIssuedAt
    ExpiresAt <- MCExpiresAt
    Skew = 1
    MaxEntries = 2
    MaxClock = 3
INVARIANTS TypeOK UsedOnceWhileLive CacheWithinBound

SPECIFICATION FairSpec
CONSTANTS
    c1 = c1
    c2 = c2
    s1 = s1
    p1 = p1
    p2 = p2
    p3 = p3
    Calls = {c1, c2}
    Available <- MCAvailable
    Preferred = {p2, p3}
    Est <- MCEst
    MaxEst = 2
    Over = 1
    Watched = s1
    MaxUsd = 3
    FailMax = 2
    ResetTimeout = 1
    TTL = 1
    Sessions = {s1}
    SessionOf <- OneSession
    Attempts = 2
INVARIANTS EveryProviderAccounted SpendBounded
PROPERTIES OpenIsNeverLeft GuardImplemented GenerateEnds

SPECIFICATION FairSpec
CONSTANTS
    c1 = c1
    c2 = c2
    Callers = {c1, c2}
    FailMax = 2
    ResetTimeout = 2
    Attempts = 2
INVARIANTS CounterExact ConsecutiveFailuresTrip
PROPERTIES TripsOnlyOnConsecutiveFailures OpenNeverClosesDirectly RecoversWhenUp

\* Two start requests, with or without one key, against every other
\* endpoint and the sweep.
CONSTANTS
    Sessions = {s1, s2}
    OfflineSessions = {}
    Starts = {q1, q2}
    Keys = {k1}
    NoKey = NoKey
    NoSession = NoSession
    Minutes = {1, 2}
    MaxTime = 3
    MaxTotal = 3
    MaxCrashes = 1
SPECIFICATION FairSpec
INVARIANTS
    TypeOK
    OneSessionPerKey
    TimeAddsUp
    PriceCoversTime
    ClosedOnce
PROPERTIES
    ImplementsLifecycle
    DueSessionsStop
    SweepIsLogged
\* All sessions of the instance may be closed and the time over.
CHECK_DEADLOCK FALSE

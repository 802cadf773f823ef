\* No crash, a request that fails or times out now and then.
CONSTANTS
    Ops = {o1, o2, o3}
    Threads = {t1}
    Reqs = {r1, r2}
    Admins = {a1}
    NoOp = NoOp
    NoReq = NoReq
    BatchSize = 1
    MaxCrashes = 0
    MaxFaults = 1
SPECIFICATION FairSpec
INVARIANT
    RecordedInSeqOrder
PROPERTY
    OutboxDrains
\* All operations of the instance may have been performed and settled.
CHECK_DEADLOCK FALSE

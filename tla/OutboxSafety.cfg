\* Two writing threads, overlapping requests, crashes, faults and two
\* administrators who can resolve the same conflict.
CONSTANTS
    Ops = {o1, o2}
    Threads = {t1, t2}
    Reqs = {r1, r2}
    Admins = {a1, a2}
    NoOp = NoOp
    NoReq = NoReq
    BatchSize = 2
    MaxCrashes = 2
    MaxFaults = 2
SYMMETRY Symmetry
SPECIFICATION Spec
INVARIANTS
    TypeOK
    PrunedOnlyIfRecorded
    IInv
PROPERTY
    ImplementsEventLog
\* All operations of the instance may have been performed and settled.
CHECK_DEADLOCK FALSE

\* Offline sessions replayed against the sweep only.
CONSTANTS
    Sessions = {s1, s2}
    OfflineSessions = {s1, s2}
    Starts = {}
    Keys = {}
    NoKey = NoKey
    NoSession = NoSession
    Minutes = {1}
    MaxTime = 2
    MaxTotal = 4
    MaxCrashes = 0
    MaxEvents = 3
    Admins = {}
    NoEvent = NoEvent
SYMMETRY Symmetry
SPECIFICATION UnattendedSpec
INVARIANTS
    TimeAddsUp
    EventsStayInTheirSession
    StartsAccepted
\* All sessions may be closed, all events settled and the time over.
CHECK_DEADLOCK FALSE

\* Everything at once: endpoints, sweep, offline events and their review.
CONSTANTS
    Sessions = {s1, s2}
    OfflineSessions = {s2}
    Starts = {q1}
    Keys = {}
    NoKey = NoKey
    NoSession = NoSession
    Minutes = {1}
    MaxTime = 2
    MaxTotal = 1
    MaxCrashes = 0
    MaxEvents = 2
    Admins = {a1}
    NoEvent = NoEvent
VIEW WithoutHistory
SPECIFICATION SyncSpec
PROPERTY
    NoRevival
\* All sessions may be closed, all events settled and the time over.
CHECK_DEADLOCK FALSE

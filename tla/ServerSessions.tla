--------------------------- MODULE ServerSessions ---------------------------
(***************************************************************************)
(* The sessions of one PC on the server: the start, extend, end, cancel,   *)
(* pause and resume endpoints and the worker's expiry sweep.               *)
(*                                                                         *)
(* Transactions run at PostgreSQL's default isolation, READ COMMITTED.     *)
(* Extend and the transitions lock the row first (SELECT ... FOR UPDATE)   *)
(* and the sweep is a single UPDATE, so each of them is one step here.     *)
(* Starting a session locks nothing: its lookups and its INSERT are steps  *)
(* of their own, and so is what the sweep writes after its UPDATE.         *)
(*                                                                         *)
(* Time passes in units in which sessions are bought; the money a session  *)
(* costs is represented by the minutes that were priced.                   *)
(***************************************************************************)
EXTENDS Naturals, FiniteSets

CONSTANTS
    Sessions,       \* rows the table can have for this PC
    OfflineSessions,\* those of them that begin on the PC, not at the desk
    Starts,         \* start requests
    Keys,           \* idempotency keys of start requests
    NoKey,          \* a request without one
    NoSession,
    Minutes,        \* planned_minutes and extension minutes of requests
    MaxTime,        \* bound on the clock
    MaxTotal,       \* bound on the minutes of a session
    MaxCrashes      \* bound on crashes of the worker

ASSUME OfflineAssumption == OfflineSessions \subseteq Sessions
ASSUME NoKeyAssumption == NoKey \notin Keys
ASSUME NoSessionAssumption == NoSession \notin Sessions
ASSUME MinutesAssumption == Minutes \subseteq Nat \ {0}
ASSUME BoundsAssumption ==
    MaxTime \in Nat /\ MaxTotal \in Nat /\ MaxCrashes \in Nat

VARIABLES
    row,            \* table sessions
    extensionLog,   \* minutes of the "extended" rows in session_events
    closingLog,     \* number of terminal rows in session_events
    unlogged,       \* swept sessions whose event the worker must still write
    start,          \* what each start request is doing
    now,            \* the database's clock
    crashes

tableVars == <<row, extensionLog, closingLog>>
vars == <<tableVars, unlogged, start, now, crashes>>

Terminal == {"ended", "cancelled", "expired"}
Statuses == Terminal \cup {"none", "active", "paused"}
StartSteps == {"idle", "validating", "inserting", "answered", "refused"}

Rows ==
    [status : Statuses, startedAt : Nat, expiresAt : Nat, planned : Nat,
     extended : Nat, priced : Nat, key : Keys \cup {NoKey}]

NoRow ==
    [status |-> "none", startedAt |-> 0, expiresAt |-> 0, planned |-> 0,
     extended |-> 0, priced |-> 0, key |-> NoKey]

StartStates ==
    [step : StartSteps, key : Keys \cup {NoKey},
     session : Sessions \cup {NoSession}]

TypeOK ==
    /\ row \in [Sessions -> Rows]
    /\ extensionLog \in [Sessions -> Nat]
    /\ closingLog \in [Sessions -> Nat]
    /\ unlogged \in SUBSET Sessions
    /\ start \in [Starts -> StartStates]
    /\ now \in Nat
    /\ crashes \in Nat

Init ==
    /\ row = [s \in Sessions |-> NoRow]
    /\ extensionLog = [s \in Sessions |-> 0]
    /\ closingLog = [s \in Sessions |-> 0]
    /\ unlogged = {}
    /\ start = [q \in Starts |->
                   [step |-> "idle", key |-> NoKey, session |-> NoSession]]
    /\ now = 0
    /\ crashes = 0

-----------------------------------------------------------------------------

Status(s) == row[s].status
Active == {s \in Sessions : Status(s) = "active"}
Granted(s) == row[s].planned + row[s].extended
WithKey(k) == {s \in Sessions : Status(s) # "none" /\ row[s].key = k}

Answer(q, s) ==
    start' = [start EXCEPT ![q].step = "answered", ![q].session = s]

(***************************************************************************)
(* POST /sessions                                                          *)
(***************************************************************************)

\* findIdempotentSession answers a repeated request from the table.
FindIdempotent(q, k) ==
    /\ start[q].step = "idle"
    /\ start' = [start EXCEPT ![q].key = k,
                     ![q].step = IF k # NoKey /\ WithKey(k) # {}
                                 THEN "answered" ELSE "validating",
                     ![q].session = IF k # NoKey /\ WithKey(k) # {}
                                    THEN CHOOSE s \in WithKey(k) : TRUE
                                    ELSE NoSession]
    /\ UNCHANGED <<tableVars, unlogged, now, crashes>>

\* validatePcForStart: a plain SELECT for active sessions; paused ones are
\* not looked for.
ValidatePc(q) ==
    /\ start[q].step = "validating"
    /\ start' = [start EXCEPT ![q].step =
                    IF Active = {} THEN "inserting" ELSE "refused"]
    /\ UNCHANGED <<tableVars, unlogged, now, crashes>>

\* Mutant: the unique index on idempotency_key is missing.
InsertAnyway(q, m) ==
    /\ start[q].step = "inserting"
    /\ m <= MaxTotal
    /\ \E s \in Sessions \ OfflineSessions :
        /\ Status(s) = "none"
        /\ row' = [row EXCEPT ![s] =
              [status |-> "active", startedAt |-> now,
               expiresAt |-> now + m, planned |-> m, extended |-> 0,
               priced |-> m, key |-> start[q].key]]
        /\ Answer(q, s)
    /\ UNCHANGED <<extensionLog, closingLog, unlogged, now, crashes>>

\* insertSessionRecord: ON CONFLICT (idempotency_key) DO NOTHING, then the
\* session that holds the key.
InsertSession(q, m) ==
    LET k == start[q].key IN
    /\ start[q].step = "inserting"
    /\ m <= MaxTotal
    /\ \/ /\ k # NoKey
          /\ \E s \in WithKey(k) : Answer(q, s)
          /\ UNCHANGED row
       \/ /\ k = NoKey \/ WithKey(k) = {}
          /\ \E s \in Sessions \ OfflineSessions :
              /\ Status(s) = "none"
              /\ row' = [row EXCEPT ![s] =
                    [status |-> "active", startedAt |-> now,
                     expiresAt |-> now + m, planned |-> m, extended |-> 0,
                     priced |-> m, key |-> k]]
              /\ Answer(q, s)
    /\ UNCHANGED <<extensionLog, closingLog, unlogged, now, crashes>>

(***************************************************************************)
(* POST /sessions/:id/extend, end, cancel, pause and resume                *)
(***************************************************************************)

\* Mutant: the extension counts from now, not from the end of the session.
ExtendFromNow(s, m) ==
    /\ Status(s) = "active"
    /\ Granted(s) + m <= MaxTotal
    /\ row' = [row EXCEPT ![s].expiresAt = now + m,
                          ![s].extended = @ + m,
                          ![s].priced = Granted(s) + m]
    /\ extensionLog' = [extensionLog EXCEPT ![s] = @ + m]
    /\ UNCHANGED <<closingLog, unlogged, start, now, crashes>>

\* Mutant: earlier extensions are left out of the new price.
ExtendPlannedPrice(s, m) ==
    /\ Status(s) = "active"
    /\ Granted(s) + m <= MaxTotal
    /\ row' = [row EXCEPT ![s].expiresAt = @ + m,
                          ![s].extended = @ + m,
                          ![s].priced = row[s].planned + m]
    /\ extensionLog' = [extensionLog EXCEPT ![s] = @ + m]
    /\ UNCHANGED <<closingLog, unlogged, start, now, crashes>>

\* The whole session is priced again for its new length.
Extend(s, m) ==
    /\ Status(s) = "active"
    /\ Granted(s) + m <= MaxTotal
    /\ row' = [row EXCEPT ![s].expiresAt = @ + m,
                          ![s].extended = @ + m,
                          ![s].priced = Granted(s) + m]
    /\ extensionLog' = [extensionLog EXCEPT ![s] = @ + m]
    /\ UNCHANGED <<closingLog, unlogged, start, now, crashes>>

\* The terminal transitions.
Close(s, to) ==
    /\ Status(s) \notin Terminal \cup {"none"}
    /\ to \in {"ended", "cancelled"}
    /\ row' = [row EXCEPT ![s].status = to]
    /\ closingLog' = [closingLog EXCEPT ![s] = @ + 1]
    /\ UNCHANGED <<extensionLog, unlogged, start, now, crashes>>

\* Mutant: a status the table does not have.
PauseMisnamed(s) ==
    /\ Status(s) = "active"
    /\ row' = [row EXCEPT ![s].status = "suspended"]
    /\ UNCHANGED <<extensionLog, closingLog, unlogged, start, now, crashes>>

Pause(s) ==
    /\ Status(s) = "active"
    /\ row' = [row EXCEPT ![s].status = "paused"]
    /\ UNCHANGED <<extensionLog, closingLog, unlogged, start, now, crashes>>

\* Mutant: any session that is not active is resumed.
ResumeAny(s) ==
    /\ Status(s) \notin {"active", "none"}
    /\ row' = [row EXCEPT ![s].status = "active"]
    /\ UNCHANGED <<extensionLog, closingLog, unlogged, start, now, crashes>>

\* Neither the time left nor the PC's other sessions are looked at.
Resume(s) ==
    /\ Status(s) = "paused"
    /\ row' = [row EXCEPT ![s].status = "active"]
    /\ UNCHANGED <<extensionLog, closingLog, unlogged, start, now, crashes>>

(***************************************************************************)
(* The worker's sweep, every 15 seconds                                    *)
(***************************************************************************)

\* Mutant: WHERE status <> 'expired' instead of status = 'active'.
DueUnlessExpired ==
    {s \in Sessions : /\ Status(s) \notin {"none", "expired"}
                      /\ row[s].expiresAt < now}

Due == {s \in Active : row[s].expiresAt < now}

\* Mutant: only sessions that became due since the last unit of time.
ExpireJustDue ==
    LET fresh == {s \in Due : row[s].expiresAt + 1 = now} IN
    /\ fresh # {}
    /\ row' = [s \in Sessions |->
                  IF s \in fresh THEN [row[s] EXCEPT !.status = "expired"]
                  ELSE row[s]]
    /\ unlogged' = unlogged \cup fresh
    /\ UNCHANGED <<extensionLog, closingLog, start, now, crashes>>

\* Mutant: the rows of the last sweep are forgotten for those of this one.
ExpireAndForget ==
    /\ Due # {}
    /\ row' = [s \in Sessions |->
                  IF s \in Due THEN [row[s] EXCEPT !.status = "expired"]
                  ELSE row[s]]
    /\ unlogged' = Due
    /\ UNCHANGED <<extensionLog, closingLog, start, now, crashes>>

ExpireDueSessions ==
    /\ Due # {}
    /\ row' = [s \in Sessions |->
                  IF s \in Due THEN [row[s] EXCEPT !.status = "expired"]
                  ELSE row[s]]
    /\ unlogged' = unlogged \cup Due
    /\ UNCHANGED <<extensionLog, closingLog, start, now, crashes>>

\* One turn of the loop over the rows the UPDATE returned.
LogExpiry(s) ==
    /\ s \in unlogged
    /\ closingLog' = [closingLog EXCEPT ![s] = @ + 1]
    /\ unlogged' = unlogged \ {s}
    /\ UNCHANGED <<row, extensionLog, start, now, crashes>>

\* The rows are not returned a second time.
WorkerCrash ==
    /\ crashes < MaxCrashes
    /\ crashes' = crashes + 1
    /\ unlogged' = {}
    /\ UNCHANGED <<tableVars, start, now>>

Tick ==
    /\ now < MaxTime
    /\ now' = now + 1
    /\ UNCHANGED <<tableVars, unlogged, start, crashes>>

-----------------------------------------------------------------------------

Next ==
    \/ \E q \in Starts, k \in Keys \cup {NoKey} : FindIdempotent(q, k)
    \/ \E q \in Starts : ValidatePc(q)
    \/ \E q \in Starts, m \in Minutes : InsertSession(q, m)
    \/ \E s \in Sessions, m \in Minutes : Extend(s, m)
    \/ \E s \in Sessions, to \in Terminal : Close(s, to)
    \/ \E s \in Sessions : Pause(s)
    \/ \E s \in Sessions : Resume(s)
    \/ ExpireDueSessions
    \/ \E s \in Sessions : LogExpiry(s)
    \/ WorkerCrash
    \/ Tick

Spec == Init /\ [][Next]_vars

(***************************************************************************)
(* Fairness: the sweep is scheduled every 15 seconds and writes what it    *)
(* has to unless it crashes; time passes.                                  *)
(***************************************************************************)
Fairness ==
    /\ WF_vars(Tick)
    /\ WF_vars(ExpireDueSessions)
    /\ \A s \in Sessions : WF_vars(LogExpiry(s))

FairSpec == Spec /\ Fairness

-----------------------------------------------------------------------------
(***************************************************************************)
(* Properties.                                                             *)
(***************************************************************************)

\* Any interleaving of repeated start requests leaves one session per key
\* (insertSessionRecord).
OneSessionPerKey == \A k \in Keys : \A s, t \in WithKey(k) : s = t

\* A request that was answered with a session got the one of its own key.
AnswersMatchKeys ==
    \A q \in Starts :
        start[q].step = "answered" =>
            /\ start[q].session \in Sessions
            /\ start[q].session \in WithKey(start[q].key)

\* No extension is lost or granted twice: what the row says, what was logged,
\* what was priced and when the session expires are the same amount of time
\* (handleExtendSession against the sweep and the other transitions).
TimeAddsUp ==
    \A s \in Sessions :
        /\ row[s].extended = extensionLog[s]
        /\ Status(s) \in {"active", "paused"} =>
            row[s].expiresAt = row[s].startedAt + Granted(s)

\* The customer is charged for the time of the session.
PriceCoversTime == \A s \in Sessions : row[s].priced = Granted(s)

\* A session is closed by one actor: one terminal event in its history, which
\* only a crash of the worker can leave out.
ClosedOnce ==
    \A s \in Sessions :
        LET closings == closingLog[s] + (IF s \in unlogged THEN 1 ELSE 0) IN
        /\ closings <= 1
        /\ closings = 1 => Status(s) \in Terminal
        /\ Status(s) \in Terminal /\ crashes = 0 => closings = 1

\* A row is blank until a start request inserts it.
BlankUntilStarted == \A s \in Sessions : Status(s) = "none" => row[s] = NoRow

\* The inductive invariant of the endpoints and the sweep.
IInv ==
    /\ BlankUntilStarted
    /\ OneSessionPerKey
    /\ AnswersMatchKeys
    /\ TimeAddsUp
    /\ PriceCoversTime
    /\ ClosedOnce

\* A session never runs again after it was closed.
NoRevival ==
    [][\A s \in Sessions :
            Status(s) \in Terminal => Status(s)' \in Terminal]_vars

\* A session whose time is over stops running, unless somebody extends it.
Overdue(s) == Status(s) = "active" /\ row[s].expiresAt < now

DueSessionsStop == \A s \in Sessions : Overdue(s) ~> ~Overdue(s)

\* Every swept session gets its event, unless the worker crashes.
SweepIsLogged ==
    \A s \in Sessions :
        Status(s) = "expired" ~> closingLog[s] > 0 \/ crashes > 0

Lifecycle ==
    INSTANCE SessionLifecycle WITH
        phase <- [s \in Sessions |-> Status(s)],
        granted <- [s \in Sessions |-> Granted(s)]

\* The endpoints implement the life cycle of a session.
ImplementsLifecycle == Lifecycle!Spec
=============================================================================

----------------------------- MODULE SessionSync -----------------------------
(***************************************************************************)
(* Offline events of one PC applied to its sessions while the endpoints of *)
(* ServerSessions and the sweep go on.                                     *)
(*                                                                         *)
(* An event is applied in a transaction that looks up the active session   *)
(* without locking it, decides, and then writes the row of that session by *)
(* its id: two steps.  Resolving a conflict with accept_offline checks,    *)
(* looks up and writes in statements of their own: three steps.            *)
(*                                                                         *)
(* The events of a PC are applied one after the other in the order of      *)
(* their numbers; how they get to the server is OutboxSync's subject.      *)
(*                                                                         *)
(* Meanwhile the agent hears of its sessions from the server: over the     *)
(* event stream, whose messages may come late or again after a             *)
(* reconnection, and from the bootstrap it asks for each time it connects. *)
(* It never compares the session a message is about with its own.          *)
(***************************************************************************)
EXTENDS ServerSessions

CONSTANTS
    MaxEvents,      \* bound on the offline events of the PC
    Admins,         \* administrators who resolve conflicts
    NoEvent

ASSUME EventsAssumption == MaxEvents \in Nat
ASSUME NoEventAssumption == NoEvent \notin Nat

VARIABLES
    event,          \* offline events by number
    applying,       \* event transaction under way, with what it looked up
    review,         \* resolution under way of each administrator
    applied,        \* session an event was applied to
    local,          \* session the agent takes the PC to be in
    published,      \* messages of the event stream about the PC's sessions
    answers,        \* what bootstrap requests have read for the agent
    dropped         \* history: sessions the agent left that were not closed,
                    \* without recording an event

newsVars == <<published, answers, dropped>>
syncVars == <<event, applying, review, applied, local, newsVars>>
allVars == <<vars, syncVars>>

Events == 1..MaxEvents
EventTypes == {"SESSION_STARTED", "SESSION_EXTENDED", "SESSION_ENDED",
               "SESSION_CANCELLED"}
EventStates == {"none", "queued", "accepted", "duplicate", "conflicted"}

\* "about" is the session the customer was in, occurred_at the agent's time.
EventRows ==
    [state : EventStates, type : EventTypes \cup {"none"},
     about : Sessions \cup {NoSession}, occurredAt : Nat, minutes : Nat]

\* What a handler has in memory: the event and the session row it read.
Lookups ==
    [event : Events \cup {NoEvent}, step : {"idle", "checked", "loaded"},
     session : Sessions \cup {NoSession}, expiresAt : Nat, extended : Nat]

\* Of a session's states the agent tells these apart; a message that it is
\* paused only shows a notice.
News == Sessions \X {"active", "closed"}

Idle ==
    [event |-> NoEvent, step |-> "idle", session |-> NoSession,
     expiresAt |-> 0, extended |-> 0]

SyncTypeOK ==
    /\ TypeOK
    /\ event \in [Events -> EventRows]
    /\ applying \in Lookups
    /\ review \in [Admins -> Lookups]
    /\ applied \in [Events -> Sessions \cup {NoSession}]
    /\ local \in Sessions \cup {NoSession}
    /\ published \in SUBSET News
    /\ answers \in SUBSET (Sessions \cup {NoSession})
    /\ dropped \in SUBSET Sessions

SyncInit ==
    /\ Init
    /\ event = [e \in Events |->
                   [state |-> "none", type |-> "none", about |-> NoSession,
                    occurredAt |-> 0, minutes |-> 0]]
    /\ applying = Idle
    /\ review = [a \in Admins |-> Idle]
    /\ applied = [e \in Events |-> NoSession]
    /\ local = NoSession
    /\ published = {}
    /\ answers = {}
    /\ dropped = {}

-----------------------------------------------------------------------------

(***************************************************************************)
(* The agent.  It is in one session at a time, started on the PC or taken  *)
(* over from the server, and records the changes made on the PC.           *)
(***************************************************************************)

Record(e, type, s, m) ==
    /\ event[e].state = "none"
    /\ \A d \in 1..(e - 1) : event[d].state # "none"
    /\ event' = [event EXCEPT ![e] =
            [state |-> "queued", type |-> type, about |-> s,
             occurredAt |-> now, minutes |-> m]]
    /\ UNCHANGED <<vars, applying, review, applied, newsVars>>

StartOffline(e, s, m) ==
    /\ local = NoSession
    /\ s \in OfflineSessions
    /\ \A d \in Events : event[d].about # s
    /\ local' = s
    /\ Record(e, "SESSION_STARTED", s, m)

ExtendOffline(e, m) ==
    /\ local # NoSession
    /\ Record(e, "SESSION_EXTENDED", local, m)
    /\ UNCHANGED local

\* Also what happens when the time of the session is over on the PC.
EndOffline(e, type) ==
    /\ local # NoSession
    /\ type \in {"SESSION_ENDED", "SESSION_CANCELLED"}
    /\ Record(e, type, local, 0)
    /\ local' = NoSession

(***************************************************************************)
(* What the agent hears.  No event is recorded for it: "the server already *)
(* knows".                                                                 *)
(***************************************************************************)

Heard == UNCHANGED <<vars, event, applying, review, applied>>

\* AdoptServerSessionState, "active": in a session it only sets the clock.
Adopt(s) ==
    /\ local = NoSession
    /\ local' = s
    /\ UNCHANGED dropped

\* The session the agent is in ends on the PC, whichever it is.
Leave ==
    /\ local # NoSession
    /\ local' = NoSession
    /\ dropped' = IF Status(local) \in Terminal THEN dropped
                  ELSE dropped \cup {local}

HearActive(s) ==
    /\ <<s, "active">> \in published
    /\ Adopt(s)
    /\ Heard
    /\ UNCHANGED <<published, answers>>

\* Also an end_session command that comes late: it names no session.
HearClosed(s) ==
    /\ <<s, "closed">> \in published
    /\ Leave
    /\ Heard
    /\ UNCHANGED <<published, answers>>

\* session.ended of a session of another PC: it is published without a PC
\* for the administrators, and matchesContext lets such messages through.
HearEndElsewhere ==
    /\ Leave
    /\ Heard
    /\ UNCHANGED <<published, answers>>

\* SyncFromBootstrapAsync: handleAgentBootstrap reads an active session ...
AskBootstrap(s) ==
    /\ s = NoSession => Active = {}
    /\ s # NoSession => s \in Active
    /\ answers' = answers \cup {s}
    /\ Heard
    /\ UNCHANGED <<local, published, dropped>>

\* ... and later the agent acts on the answer: "server wins".
TakeBootstrap(s) ==
    /\ s \in answers
    /\ answers' = answers \ {s}
    /\ IF s = NoSession THEN Leave ELSE Adopt(s)
    /\ Heard
    /\ UNCHANGED published

-----------------------------------------------------------------------------
(***************************************************************************)
(* The server.                                                             *)
(***************************************************************************)

\* What is published about a session that has this status.
Announced(s, status) ==
    CASE status = "active"     -> {<<s, "active">>}
      [] status \in Terminal   -> {<<s, "closed">>}
      [] OTHER                 -> {}

\* publishSession and the sweep's message, each sent with the write it is
\* about (the sweep's with the event it logs).
PublishChanges ==
    /\ published' = published \cup UNION
            {Announced(s, row'[s].status) : s \in
                {t \in Sessions : \/ closingLog'[t] # closingLog[t]
                                  \/ /\ row'[t] # row[t]
                                     /\ row'[t].status = "active"}}
    /\ UNCHANGED <<event, applying, review, applied, local, answers, dropped>>

\* loadActiveSession: the active session that was started last.
Latest(s) ==
    /\ s \in Active
    /\ \A t \in Active : row[t].startedAt <= row[s].startedAt

Lookup(e, s) ==
    IF s = NoSession
    THEN [Idle EXCEPT !.event = e, !.step = "loaded"]
    ELSE [event |-> e, step |-> "loaded", session |-> s,
          expiresAt |-> row[s].expiresAt, extended |-> row[s].extended]

\* Mutant: the events of a request are processed in any order.
LoadAnyOrder(e) ==
    /\ applying = Idle
    /\ event[e].state = "queued"
    /\ \E s \in Sessions \cup {NoSession} :
        /\ IF Active = {} THEN s = NoSession ELSE Latest(s)
        /\ applying' = Lookup(e, s)
    /\ UNCHANGED <<vars, event, review, applied, local, newsVars>>

\* Mutant: a closed session is found as well.
LoadLastSession(e) ==
    LET Known == {s \in Sessions : row[s] # NoRow} IN
    /\ applying = Idle
    /\ event[e].state = "queued"
    /\ \A d \in 1..(e - 1) : event[d].state # "queued"
    /\ \E s \in Sessions \cup {NoSession} :
        /\ IF Known = {} THEN s = NoSession
           ELSE s \in Known /\ \A t \in Known : row[t].startedAt <= row[s].startedAt
        /\ applying' = Lookup(e, s)
    /\ UNCHANGED <<vars, event, review, applied, local, newsVars>>

LoadActiveSession(e) ==
    /\ applying = Idle
    /\ event[e].state = "queued"
    /\ \A d \in 1..(e - 1) : event[d].state # "queued"
    /\ \E s \in Sessions \cup {NoSession} :
        /\ IF Active = {} THEN s = NoSession ELSE Latest(s)
        /\ applying' = Lookup(e, s)
    /\ UNCHANGED <<vars, event, review, applied, local, newsVars>>

\* resolveOfflineEvent; what was looked up is an active session or nothing.
Decision(type, s) ==
    CASE type = "SESSION_STARTED" ->
            IF s # NoSession THEN "conflict" ELSE "accept_start"
      [] type = "SESSION_EXTENDED" ->
            IF s # NoSession THEN "accept_extend" ELSE "conflict"
      [] OTHER ->
            IF s # NoSession THEN "accept_end" ELSE "duplicate"

Verdict(decision) ==
    IF decision = "conflict" THEN "conflicted"
    ELSE IF decision = "duplicate" THEN "duplicate" ELSE "accepted"

StartStatus(e) ==
    IF event[e].occurredAt + event[e].minutes <= now THEN "expired"
    ELSE "active"

\* A start whose time is already over is entered as an expired session.
ApplyStart(e) ==
    LET s == event[e].about
        end == event[e].occurredAt + event[e].minutes
    IN
    /\ row' = [row EXCEPT ![s] =
            [status |-> StartStatus(e),
             startedAt |-> event[e].occurredAt,
             expiresAt |-> IF end <= now THEN now ELSE end,
             planned |-> event[e].minutes, extended |-> 0,
             priced |-> event[e].minutes, key |-> NoKey]]
    /\ applied' = [applied EXCEPT ![e] = s]
    /\ UNCHANGED <<extensionLog, closingLog>>

\* Mutant: the new expiry counts from now.
WriteExtensionFromNow(l, m) ==
    row' = [row EXCEPT ![l.session].expiresAt = now + m,
                       ![l.session].extended = l.extended + m]

\* Mutant: the whole row that was looked up is written back, active again.
WriteRowBack(l, m) ==
    row' = [row EXCEPT ![l.session].expiresAt = l.expiresAt + m,
                       ![l.session].extended = l.extended + m,
                       ![l.session].status = "active"]

\* New values computed from what was looked up; the price stays.
WriteExtension(l, m) ==
    row' = [row EXCEPT ![l.session].expiresAt = l.expiresAt + m,
                       ![l.session].extended = l.extended + m]

ApplyExtend(e) ==
    /\ WriteExtension(applying, event[e].minutes)
    /\ extensionLog' =
        [extensionLog EXCEPT ![applying.session] = @ + event[e].minutes]
    /\ applied' = [applied EXCEPT ![e] = applying.session]
    /\ UNCHANGED closingLog

\* The row is updated by its id, whatever its status has become.
ApplyEnd(e) ==
    LET s == applying.session IN
    /\ row' = [row EXCEPT ![s].status =
            IF event[e].type = "SESSION_CANCELLED" THEN "cancelled"
            ELSE "ended"]
    /\ closingLog' = [closingLog EXCEPT ![s] = @ + 1]
    /\ applied' = [applied EXCEPT ![e] = s]
    /\ UNCHANGED extensionLog

\* finalizeOfflineEvent.
Finalize(e, state) == event' = [event EXCEPT ![e].state = state]

\* Sent while the transaction is still open.
DecisionNews ==
    LET e == applying.event
        s == applying.session
        decision == Decision(event[e].type, s)
    IN
    CASE decision = "accept_start"  -> Announced(event[e].about, StartStatus(e))
      [] decision = "accept_extend" -> Announced(s, Status(s))
      [] decision = "accept_end"    -> {<<s, "closed">>}
      [] OTHER                      -> {}

ApplyOfflineDecision ==
    LET e == applying.event
        decision == Decision(event[e].type, applying.session)
    IN
    /\ applying.step = "loaded"
    /\ CASE decision = "accept_start"  -> ApplyStart(e)
         [] decision = "accept_extend" -> ApplyExtend(e)
         [] decision = "accept_end"    -> ApplyEnd(e)
         [] OTHER                      -> UNCHANGED <<tableVars, applied>>
    /\ Finalize(e, Verdict(decision))
    /\ applying' = Idle
    /\ published' = published \cup DecisionNews
    /\ UNCHANGED <<unlogged, start, now, crashes, review, local, answers,
                   dropped>>

\* The server fails in the middle, perhaps after it has published; the agent
\* will send the event again.
RollBack ==
    /\ applying.step = "loaded"
    /\ applying' = Idle
    /\ \E sent \in SUBSET DecisionNews : published' = published \cup sent
    /\ UNCHANGED <<vars, event, review, applied, local, answers, dropped>>

(***************************************************************************)
(* POST /sync/conflicts/:id/resolve                                        *)
(***************************************************************************)

\* What handleSyncConflicts lists; the state is checked again.
Conflicts == {e \in Events : event[e].state = "conflicted"}

OpenConflict(a, e) ==
    /\ review[a] = Idle
    /\ e \in Conflicts
    /\ review' = [review EXCEPT ![a] =
                    [Idle EXCEPT !.event = e, !.step = "checked"]]
    /\ UNCHANGED <<vars, event, applying, applied, local, newsVars>>

\* accept_server and manual touch no session.
CloseWithoutSession(a) ==
    /\ review[a].step = "checked"
    /\ \E v \in {"accepted", "duplicate"} :
        event' = [event EXCEPT ![review[a].event].state = v]
    /\ review' = [review EXCEPT ![a] = Idle]
    /\ UNCHANGED <<vars, applying, applied, local, newsVars>>

LookupForReview(a) ==
    /\ review[a].step = "checked"
    /\ \E s \in Active \cup {NoSession} :
        /\ s = NoSession => Active = {}
        /\ review' = [review EXCEPT ![a] = Lookup(review[a].event, s)]
    /\ UNCHANGED <<vars, event, applying, applied, local, newsVars>>

\* accept_offline acts on extensions only, and writes neither a session
\* event nor a price.
AcceptOffline(a) ==
    LET e == review[a].event
        extends == /\ event[e].type = "SESSION_EXTENDED"
                   /\ review[a].session # NoSession
    IN
    /\ review[a].step = "loaded"
    /\ IF extends THEN WriteExtension(review[a], event[e].minutes)
       ELSE UNCHANGED row
    /\ applied' = [applied EXCEPT ![e] = IF extends THEN review[a].session
                                         ELSE @]
    /\ event' = [event EXCEPT ![e].state = "accepted"]
    /\ review' = [review EXCEPT ![a] = Idle]
    /\ UNCHANGED <<extensionLog, closingLog, unlogged, start, now, crashes,
                   applying, local, newsVars>>

-----------------------------------------------------------------------------

Replay ==
    \/ \E e \in Events, s \in Sessions, m \in Minutes : StartOffline(e, s, m)
    \/ \E e \in Events, m \in Minutes : ExtendOffline(e, m)
    \/ \E e \in Events, type \in EventTypes : EndOffline(e, type)
    \/ \E s \in Sessions : HearActive(s)
    \/ \E s \in Sessions : HearClosed(s)
    \/ HearEndElsewhere
    \/ \E s \in Sessions \cup {NoSession} : AskBootstrap(s)
    \/ \E s \in Sessions \cup {NoSession} : TakeBootstrap(s)
    \/ \E e \in Events : LoadActiveSession(e)
    \/ ApplyOfflineDecision
    \/ RollBack

Review ==
    \/ \E a \in Admins, e \in Events : OpenConflict(a, e)
    \/ \E a \in Admins : CloseWithoutSession(a)
    \/ \E a \in Admins : LookupForReview(a)
    \/ \E a \in Admins : AcceptOffline(a)

SyncNext ==
    \/ Next /\ PublishChanges
    \/ Replay
    \/ Review

SyncSpec == SyncInit /\ [][SyncNext]_allVars

(***************************************************************************)
(* Nobody at the desk touches the PC's sessions while its events arrive.   *)
(***************************************************************************)
UnattendedNext ==
    \/ /\ \/ ExpireDueSessions
          \/ \E s \in Sessions : LogExpiry(s)
          \/ Tick
       /\ PublishChanges
    \/ Replay

UnattendedSpec == SyncInit /\ [][UnattendedNext]_allVars

-----------------------------------------------------------------------------
(***************************************************************************)
(* Properties.                                                             *)
(***************************************************************************)

\* An event changes the session it was recorded in, or one the agent had left
\* because of a message of the server (loadActiveSession takes whatever
\* session is active by then).
EventsStayInTheirSession ==
    \A e \in Events :
        applied[e] \in {NoSession, event[e].about} \cup dropped

\* A start made on the PC is refused only where the agent has left a session
\* because of a message of the server (resolveOfflineEvent on
\* SESSION_STARTED).
StartsAccepted ==
    \A e \in Events :
        event[e].type = "SESSION_STARTED" /\ dropped = {} =>
            event[e].state \in {"queued", "accepted"}
=============================================================================

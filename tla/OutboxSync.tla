----------------------------- MODULE OutboxSync -----------------------------
(***************************************************************************)
(* The offline outbox of one gaming PC and its upload to the server.       *)
(*                                                                         *)
(* Agent side: OutboxService.Enqueue reserves a sequence number and        *)
(* inserts the event row in two separately committed SQLite statements;    *)
(* SyncEngine uploads the pending rows in batches, one request at a time,  *)
(* and OutboxService.ApplyBatch retains conflicted rows, prunes rows up to *)
(* the acknowledged sequence number and stores that number as the cursor,  *)
(* again in separate statements.  A crash or restart of the service keeps  *)
(* what SQLite committed and loses the rest; power cuts, which take away   *)
(* commits as well (synchronous=NORMAL), are not modelled.                 *)
(*                                                                         *)
(* Server side: POST /sync/events processes the events of a request in     *)
(* sequence order, each in a transaction of its own, and answers with the  *)
(* verdicts and the highest contiguous sequence number.  A request whose   *)
(* caller gave up goes on running, so two requests of one PC can overlap.  *)
(*                                                                         *)
(* An operation stands for one local mutation and for the event recording  *)
(* it: event ids are fresh GUIDs, one per call of Enqueue.                 *)
(***************************************************************************)
EXTENDS Naturals, FiniteSets

CONSTANTS
    Ops,            \* offline operations, each performed at most once
    Threads,        \* agent threads that perform them: main loop, IPC, SSE
    Reqs,           \* upload requests that can be in progress at once
    Admins,         \* administrators who review conflicts
    NoOp, NoReq,    \* no operation, no request
    BatchSize,      \* SyncEngine.BatchSize, 500 in the code
    MaxCrashes,     \* bound on agent crashes
    MaxFaults       \* bound on timeouts and failed requests

ASSUME NoOpAssumption == NoOp \notin Ops
ASSUME NoReqAssumption == NoReq \notin Reqs
ASSUME OpsFinite == IsFiniteSet(Ops)
ASSUME BoundsAssumption ==
    BatchSize \in Nat \ {0} /\ MaxCrashes \in Nat /\ MaxFaults \in Nat

VARIABLES
    \* SQLite file of the agent
    outboxSeq,      \* meta row "outbox_seq", the last number handed out
    seqOf,          \* seq in the event envelope of an operation, 0 before
    row,            \* what became of an operation and of its outbox row
    lastServerSeq,  \* meta row "last_server_seq", the cursor
    \* memory of the agent
    writer,         \* operation each thread is in the middle of
    flight,         \* request SyncEngine awaits
    stage,          \* where ApplyBatch is
    toMark,         \* conflicted results still to be marked
    ackSeq,         \* cursor computed from the response
    \* server
    reqLast,        \* last_server_seq of a request being processed
    batch,          \* its events; {} if the request slot is free
    result,         \* verdicts it has so far, "none" before
    offlineEvents,  \* table offline_events: state column, "none" if no row
    disputed,       \* audit rows SUPERADMIN_CONFLICT: events once in conflict
    review,         \* event whose conflict an administrator is resolving
    \* environment
    crashes, faults

dbVars == <<outboxSeq, seqOf, row, lastServerSeq>>
applyVars == <<stage, toMark, ackSeq>>
reqVars == <<reqLast, batch, result>>
logVars == <<offlineEvents, disputed>>
envVars == <<crashes, faults>>
vars == <<dbVars, writer, flight, applyVars, reqVars, logVars, review,
          envVars>>

(***************************************************************************)
(* "none": not performed.  "unqueued": the local effect is committed, its  *)
(* event is not.  "pending", "conflicted": sync_state of the outbox row.   *)
(* "pruned": the row was deleted after an acknowledgement.                 *)
(***************************************************************************)
RowState == {"none", "unqueued", "pending", "conflicted", "pruned"}
Stages == {"idle", "marking", "advancing"}
Final == {"accepted", "duplicate"}
Verdicts == Final \cup {"conflicted"}
NoVerdicts == [o \in Ops |-> "none"]

TypeOK ==
    /\ outboxSeq \in Nat
    /\ seqOf \in [Ops -> Nat]
    /\ row \in [Ops -> RowState]
    /\ lastServerSeq \in Nat
    /\ writer \in [Threads -> Ops \cup {NoOp}]
    /\ flight \in Reqs \cup {NoReq}
    /\ stage \in Stages
    /\ toMark \in SUBSET Ops
    /\ ackSeq \in Nat
    /\ reqLast \in [Reqs -> Nat]
    /\ batch \in [Reqs -> SUBSET Ops]
    /\ result \in [Reqs -> [Ops -> Verdicts \cup {"none"}]]
    /\ offlineEvents \in [Ops -> Verdicts \cup {"none"}]
    /\ disputed \in SUBSET Ops
    /\ review \in [Admins -> Ops \cup {NoOp}]
    /\ crashes \in Nat
    /\ faults \in Nat

Init ==
    /\ outboxSeq = 0
    /\ seqOf = [o \in Ops |-> 0]
    /\ row = [o \in Ops |-> "none"]
    /\ lastServerSeq = 0
    /\ writer = [t \in Threads |-> NoOp]
    /\ flight = NoReq
    /\ stage = "idle"
    /\ toMark = {}
    /\ ackSeq = 0
    /\ reqLast = [r \in Reqs |-> 0]
    /\ batch = [r \in Reqs |-> {}]
    /\ result = [r \in Reqs |-> NoVerdicts]
    /\ offlineEvents = NoVerdicts
    /\ disputed = {}
    /\ review = [a \in Admins |-> NoOp]
    /\ crashes = 0
    /\ faults = 0

-----------------------------------------------------------------------------
(***************************************************************************)
(* Agent: performing an operation and queueing its event.                  *)
(***************************************************************************)

\* The local mutation commits: the sessions_local write of StartSession,
\* Extend, SetExpiresEffMs, End or ExpireInternal.
BeginOp(t, o) ==
    /\ writer[t] = NoOp
    /\ row[o] = "none"
    /\ writer' = [writer EXCEPT ![t] = o]
    /\ row' = [row EXCEPT ![o] = "unqueued"]
    /\ UNCHANGED <<outboxSeq, seqOf, lastServerSeq, flight, applyVars, reqVars,
                   logVars, review, envVars>>

\* Mutant: the next number is computed from the rows still in the outbox
\* instead of being kept in the meta table.
NextSeqFromRows(t) ==
    LET o == writer[t]
        used == {seqOf[p] : p \in {q \in Ops : row[q] = "pending"}} \cup {0}
    IN
    /\ o # NoOp
    /\ seqOf[o] = 0
    /\ \E n \in used :
        /\ \A m \in used : m <= n
        /\ seqOf' = [seqOf EXCEPT ![o] = n + 1]
        /\ outboxSeq' = n + 1
    /\ UNCHANGED <<row, lastServerSeq, writer, flight, applyVars, reqVars,
                   logVars, review, envVars>>

NextSeq(t) ==
    LET o == writer[t] IN
    /\ o # NoOp
    /\ seqOf[o] = 0
    /\ outboxSeq' = outboxSeq + 1
    /\ seqOf' = [seqOf EXCEPT ![o] = outboxSeq + 1]
    /\ UNCHANGED <<row, lastServerSeq, writer, flight, applyVars, reqVars,
                   logVars, review, envVars>>

InsertRow(t) ==
    LET o == writer[t] IN
    /\ o # NoOp
    /\ seqOf[o] # 0
    /\ row' = [row EXCEPT ![o] = "pending"]
    /\ writer' = [writer EXCEPT ![t] = NoOp]
    /\ UNCHANGED <<outboxSeq, seqOf, lastServerSeq, flight, applyVars, reqVars,
                   logVars, review, envVars>>

-----------------------------------------------------------------------------
(***************************************************************************)
(* Agent: one upload.                                                      *)
(***************************************************************************)

PendingRows == {o \in Ops : row[o] = "pending"}

\* Mutant: ORDER BY seq DESC.
PendingNewestFirst ==
    {o \in PendingRows :
        Cardinality({p \in PendingRows : seqOf[p] > seqOf[o]}) < BatchSize}

\* ORDER BY seq LIMIT BatchSize
Pending ==
    {o \in PendingRows :
        Cardinality({p \in PendingRows : seqOf[p] < seqOf[o]}) < BatchSize}

\* The semaphore of SyncOnceAsync: no other upload is in progress.
SingleFlight == flight = NoReq /\ stage = "idle"

StartUpload(r) ==
    /\ SingleFlight
    /\ batch[r] = {}
    /\ PendingRows # {}
    /\ reqLast' = [reqLast EXCEPT ![r] = lastServerSeq]
    /\ batch' = [batch EXCEPT ![r] = Pending]
    /\ UNCHANGED result
    /\ flight' = r
    /\ UNCHANGED <<dbVars, writer, applyVars, logVars, review, envVars>>

\* The HTTP call times out; the server goes on with the request.
GiveUp ==
    /\ flight # NoReq
    /\ faults < MaxFaults
    /\ faults' = faults + 1
    /\ flight' = NoReq
    /\ UNCHANGED <<dbVars, writer, applyVars, reqVars, logVars, review,
                   crashes>>

\* The server forgets a request.
Free(r) ==
    /\ reqLast' = [reqLast EXCEPT ![r] = 0]
    /\ batch' = [batch EXCEPT ![r] = {}]
    /\ result' = [result EXCEPT ![r] = NoVerdicts]

Unprocessed(r) == {o \in batch[r] : result[r][o] = "none"}
Answered(r) == batch[r] # {} /\ Unprocessed(r) = {}

\* Mutant: the highest number of the answer is acknowledged, gaps or not.
IsHighest(ack, last, seqs) ==
    /\ ack \in seqs \cup {last}
    /\ \A n \in seqs \cup {last} : n <= ack

(***************************************************************************)
(* Folding the results in sequence order, as computeAckSeq does on the     *)
(* server and SyncAck.Advance on the agent, ends at the last number of the *)
(* contiguous run that starts after "last": every verdict is terminal.     *)
(***************************************************************************)
IsAck(ack, last, seqs) ==
    /\ ack \in seqs \cup {last}
    /\ ack >= last
    /\ (last + 1)..ack \subseteq seqs
    /\ ack + 1 \notin seqs

SeqsOf(S) == {seqOf[o] : o \in S}

ReceiveResponse(r) ==
    /\ flight = r
    /\ Answered(r)
    /\ \E ack \in SeqsOf(batch[r]) \cup {reqLast[r]} :
        /\ IsAck(ack, reqLast[r], SeqsOf(batch[r]))
        /\ ackSeq' = ack
    /\ toMark' = {o \in batch[r] : result[r][o] = "conflicted"}
    /\ stage' = "marking"
    /\ flight' = NoReq
    /\ Free(r)
    /\ UNCHANGED <<dbVars, writer, logVars, review, envVars>>

\* Mutant: the row is left with the wrong word for its state.
MarkConflict(o) ==
    /\ stage = "marking"
    /\ o \in toMark
    /\ toMark' = toMark \ {o}
    /\ row' = [row EXCEPT ![o] = IF @ = "pending" THEN "conflict" ELSE @]
    /\ UNCHANGED <<outboxSeq, seqOf, lastServerSeq, writer, flight, stage,
                   ackSeq, reqVars, logVars, review, envVars>>

\* ApplyBatch, first statement: one UPDATE per conflicted result.
MarkConflicted(o) ==
    /\ stage = "marking"
    /\ o \in toMark
    /\ toMark' = toMark \ {o}
    /\ row' = [row EXCEPT ![o] = IF @ = "pending" THEN "conflicted" ELSE @]
    /\ UNCHANGED <<outboxSeq, seqOf, lastServerSeq, writer, flight, stage,
                   ackSeq, reqVars, logVars, review, envVars>>

\* Mutant: DELETE ... WHERE pending AND seq < ack.
PruneBelowAck ==
    /\ stage = "marking"
    /\ toMark = {}
    /\ row' = [o \in Ops |-> IF row[o] = "pending" /\ seqOf[o] < ackSeq
                             THEN "pruned" ELSE row[o]]
    /\ stage' = "advancing"
    /\ UNCHANGED <<outboxSeq, seqOf, lastServerSeq, writer, flight, toMark,
                   ackSeq, reqVars, logVars, review, envVars>>

\* ApplyBatch, second statement: DELETE ... WHERE pending AND seq <= ack.
PruneAcked ==
    /\ stage = "marking"
    /\ toMark = {}
    /\ row' = [o \in Ops |-> IF row[o] = "pending" /\ seqOf[o] <= ackSeq
                             THEN "pruned" ELSE row[o]]
    /\ stage' = "advancing"
    /\ UNCHANGED <<outboxSeq, seqOf, lastServerSeq, writer, flight, toMark,
                   ackSeq, reqVars, logVars, review, envVars>>

\* ApplyBatch, third statement: the cursor only moves forward.
AdvanceCursor ==
    /\ stage = "advancing"
    /\ lastServerSeq' =
        IF ackSeq > lastServerSeq THEN ackSeq ELSE lastServerSeq
    /\ stage' = "idle"
    /\ ackSeq' = 0
    /\ UNCHANGED <<outboxSeq, seqOf, row, writer, flight, toMark,
                   reqVars, logVars, review, envVars>>

\* Crash or restart of the service: memory is lost, what is committed stays.
Crash ==
    /\ crashes < MaxCrashes
    /\ crashes' = crashes + 1
    /\ writer' = [t \in Threads |-> NoOp]
    /\ flight' = NoReq
    /\ stage' = "idle"
    /\ toMark' = {}
    /\ ackSeq' = 0
    /\ UNCHANGED <<dbVars, reqVars, logVars, review, faults>>

-----------------------------------------------------------------------------
(***************************************************************************)
(* Server.                                                                 *)
(***************************************************************************)

Recorded(o) == offlineEvents[o] # "none"

\* Mutant: only another event's number is looked up, not the event's own id.
IsDuplicateNumber(o) ==
    \E p \in Ops \ {o} : Recorded(p) /\ seqOf[p] = seqOf[o]

\* recordOfflineEvent finds the event id, or the sequence number under
\* another id of the same PC.
IsDuplicate(o) ==
    \/ Recorded(o)
    \/ \E p \in Ops : Recorded(p) /\ seqOf[p] = seqOf[o]

(***************************************************************************)
(* processSyncEvent, one transaction.  The verdict of resolveOfflineEvent  *)
(* depends on the PC's active session, which this module leaves open.  Two *)
(* transactions recording one event are serialised by the primary key: the *)
(* second waits for the first and then reports a duplicate.                *)
(***************************************************************************)
ProcessSyncEvent(r) ==
    \E o \in Unprocessed(r) :
        /\ \A p \in Unprocessed(r) : seqOf[o] <= seqOf[p]
        /\ \E v \in Verdicts :
            /\ IsDuplicate(o) => v = "duplicate"
            /\ result' = [result EXCEPT ![r] = [@ EXCEPT ![o] = v]]
            /\ offlineEvents' =
                IF IsDuplicate(o) THEN offlineEvents
                ELSE [offlineEvents EXCEPT ![o] = v]
            /\ disputed' =
                IF v = "conflicted" THEN disputed \cup {o} ELSE disputed
        /\ UNCHANGED <<dbVars, writer, flight, applyVars, reqLast, batch,
                       review, envVars>>

\* The request is lost before it arrives, the server fails in the middle of
\* it, or the answer is lost; events already committed stay.
FailRequest(r) ==
    /\ batch[r] # {}
    /\ faults < MaxFaults
    /\ faults' = faults + 1
    /\ Free(r)
    /\ flight' = IF flight = r THEN NoReq ELSE flight
    /\ UNCHANGED <<dbVars, writer, applyVars, logVars, review, crashes>>

\* Nobody waits for this answer any more.
DropAnswer(r) ==
    /\ flight # r
    /\ Answered(r)
    /\ Free(r)
    /\ UNCHANGED <<dbVars, writer, flight, applyVars, logVars, review,
                   envVars>>

\* handleResolveSyncConflict reads the event and checks that it is in
\* conflict; its write, a statement of its own, checks nothing.
LoadConflict(a, o) ==
    /\ review[a] = NoOp
    /\ offlineEvents[o] = "conflicted"
    /\ review' = [review EXCEPT ![a] = o]
    /\ UNCHANGED <<dbVars, writer, flight, applyVars, reqVars, logVars,
                   envVars>>

\* accept_server leaves "duplicate", accept_offline and manual "accepted".
CloseConflict(a) ==
    LET o == review[a] IN
    /\ o # NoOp
    /\ \E v \in Final : offlineEvents' = [offlineEvents EXCEPT ![o] = v]
    /\ review' = [review EXCEPT ![a] = NoOp]
    /\ UNCHANGED <<dbVars, writer, flight, applyVars, reqVars, disputed,
                   envVars>>

-----------------------------------------------------------------------------

Writing(t) == NextSeq(t) \/ InsertRow(t)
Uploading == \E r \in Reqs : StartUpload(r)
Applying == (\E o \in Ops : MarkConflicted(o)) \/ PruneAcked \/ AdvanceCursor

Next ==
    \/ \E t \in Threads, o \in Ops : BeginOp(t, o)
    \/ \E t \in Threads : NextSeq(t)
    \/ \E t \in Threads : InsertRow(t)
    \/ \E r \in Reqs : StartUpload(r)
    \/ GiveUp
    \/ \E r \in Reqs : ReceiveResponse(r)
    \/ \E o \in Ops : MarkConflicted(o)
    \/ PruneAcked
    \/ AdvanceCursor
    \/ Crash
    \/ \E r \in Reqs : ProcessSyncEvent(r)
    \/ \E r \in Reqs : FailRequest(r)
    \/ \E r \in Reqs : DropAnswer(r)
    \/ \E a \in Admins, o \in Ops : LoadConflict(a, o)
    \/ \E a \in Admins : CloseConflict(a)

Spec == Init /\ [][Next]_vars

(***************************************************************************)
(* Fairness.  A started Enqueue and ApplyBatch run to their end unless the *)
(* agent crashes; the main loop starts an upload every 30 seconds while    *)
(* rows are pending; the server finishes the requests it works on.  None   *)
(* of the faults is fair: MaxFaults and MaxCrashes bound them, which says  *)
(* that the connection is not broken for ever.                             *)
(***************************************************************************)
Fairness ==
    /\ \A t \in Threads : WF_vars(Writing(t))
    /\ WF_vars(Uploading)
    /\ WF_vars(Applying)
    /\ \A r \in Reqs :
        /\ WF_vars(ProcessSyncEvent(r))
        /\ WF_vars(ReceiveResponse(r))
        /\ WF_vars(DropAnswer(r))

FairSpec == Spec /\ Fairness

-----------------------------------------------------------------------------
(***************************************************************************)
(* Properties.                                                             *)
(***************************************************************************)

InOutbox(o) == row[o] \in {"pending", "conflicted"}
Queued(o) == InOutbox(o) \/ row[o] = "pruned"

\* A row leaves the outbox only after the server has recorded its event,
\* whatever was lost, repeated or overtaken on the way (ApplyBatch's DELETE
\* against recordOfflineEvent).
PrunedOnlyIfRecorded == \A o \in Ops : row[o] = "pruned" => Recorded(o)

(***************************************************************************)
(* What makes it safe to prune by number alone: every number up to the     *)
(* cursor belongs to an event the server has, and so does every number up  *)
(* to the one an answer acknowledges or an unfinished request started from *)
(* (computeAckSeq, SyncAck.Advance).                                       *)
(***************************************************************************)
Covered(k) == \A n \in 1..k : \E o \in Ops : seqOf[o] = n /\ Recorded(o)

CursorCovered ==
    /\ Covered(lastServerSeq)
    /\ Covered(ackSeq)
    /\ \A r \in Reqs : Covered(reqLast[r])

\* A number is given to one operation only.
SeqUnique ==
    /\ \A o \in Ops : seqOf[o] <= outboxSeq
    /\ \A o, p \in Ops : seqOf[o] = seqOf[p] /\ seqOf[o] # 0 => o = p

\* An operation in the middle of Enqueue has no row yet and one thread.
WritersApart ==
    /\ \A t \in Threads : writer[t] # NoOp => row[writer[t]] = "unqueued"
    /\ \A t, u \in Threads : writer[t] = writer[u] /\ writer[t] # NoOp => t = u

\* Only queued events are uploaded and recorded, and a verdict in an answer
\* or in the outbox stands for a record on the server.
RecordsAgree ==
    /\ \A o \in Ops : Queued(o) => seqOf[o] # 0
    /\ \A o \in Ops : Recorded(o) => Queued(o)
    /\ \A o \in toMark : Recorded(o)
    /\ \A o \in Ops : row[o] = "conflicted" => Recorded(o)
    /\ \A r \in Reqs, o \in Ops : o \in batch[r] => Queued(o)
    /\ \A r \in Reqs, o \in Ops : result[r][o] # "none" => Recorded(o)

\* Whatever an administrator is resolving was recorded as a conflict.
ReviewsDisputed ==
    /\ \A o \in Ops : offlineEvents[o] = "conflicted" => o \in disputed
    /\ \A o \in disputed : Recorded(o)
    /\ \A a \in Admins : review[a] # NoOp => review[a] \in disputed

\* The inductive invariant of the protocol.
IInv ==
    /\ SeqUnique
    /\ WritersApart
    /\ RecordsAgree
    /\ ReviewsDisputed
    /\ CursorCovered
    /\ PrunedOnlyIfRecorded

\* With one writing thread the server records the events of a PC in the
\* order of their numbers, over retries and overlapping requests.
RecordedInSeqOrder ==
    \A o, p \in Ops :
        Recorded(o) /\ Queued(p) /\ seqOf[p] < seqOf[o] => Recorded(p)

\* Every queued row is eventually pruned or retained as a conflict.
OutboxDrains == \A o \in Ops : row[o] = "pending" ~> row[o] # "pending"

(***************************************************************************)
(* The protocol implements the abstract event log: a row held in the       *)
(* outbox is an operation held, the state column is the verdict.           *)
(***************************************************************************)
Held == {o \in Ops : InOutbox(o)}

Abstract == INSTANCE EventLog WITH held <- Held, verdict <- offlineEvents

ImplementsEventLog == Abstract!Spec
=============================================================================

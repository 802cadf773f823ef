-------------------------- MODULE OutboxSyncProofs --------------------------
(***************************************************************************)
(* Proofs about OutboxSync, for any number of operations, threads and      *)
(* requests, any batch size and any number of crashes and faults.          *)
(***************************************************************************)
EXTENDS OutboxSync, FiniteSetTheorems, TLAPS

(***************************************************************************)
(* Type correctness.                                                       *)
(***************************************************************************)

\* The initial state is well typed.
LEMMA InitType == Init => TypeOK
  BY BoundsAssumption DEF Init, TypeOK, RowState, Stages, NoVerdicts,
                          Verdicts, Final

\* A batch consists of operations.
LEMMA PendingIsOps == Pending \in SUBSET Ops
  BY DEF Pending, PendingRows

\* Every step leads to a well-typed state.
LEMMA StepType == TypeOK /\ [Next]_vars => TypeOK'
<1> SUFFICES ASSUME TypeOK, [Next]_vars PROVE TypeOK'
  OBVIOUS
<1> USE DEF TypeOK, applyVars, envVars, dbVars, reqVars, logVars
<1>1. ASSUME NEW t \in Threads, NEW o \in Ops, BeginOp(t, o) PROVE TypeOK'
  BY <1>1 DEF BeginOp, RowState
<1>2. ASSUME NEW t \in Threads, NextSeq(t) PROVE TypeOK'
  BY <1>2 DEF NextSeq
<1>3. ASSUME NEW t \in Threads, InsertRow(t) PROVE TypeOK'
  BY <1>3 DEF InsertRow, RowState
<1>4. ASSUME NEW r \in Reqs, StartUpload(r) PROVE TypeOK'
  BY <1>4, PendingIsOps DEF StartUpload
<1>5. CASE GiveUp
  BY <1>5 DEF GiveUp
<1>6. ASSUME NEW r \in Reqs, ReceiveResponse(r) PROVE TypeOK'
  <2>1. PICK ack \in SeqsOf(batch[r]) \cup {reqLast[r]} : ackSeq' = ack
    BY <1>6 DEF ReceiveResponse
  <2>2. ack \in Nat
    BY <2>1 DEF SeqsOf
  <2>3. QED
    BY <1>6, <2>1, <2>2 DEF ReceiveResponse, Free, NoVerdicts, Stages
<1>7. ASSUME NEW o \in Ops, MarkConflicted(o) PROVE TypeOK'
  BY <1>7 DEF MarkConflicted, RowState
<1>8. CASE PruneAcked
  BY <1>8 DEF PruneAcked, RowState, Stages
<1>9. CASE AdvanceCursor
  BY <1>9 DEF AdvanceCursor, Stages
<1>10. CASE Crash
  BY <1>10 DEF Crash, Stages
<1>11. ASSUME NEW r \in Reqs, ProcessSyncEvent(r) PROVE TypeOK'
  <2>1. PICK o \in Unprocessed(r), v \in Verdicts :
          /\ result' = [result EXCEPT ![r] = [@ EXCEPT ![o] = v]]
          /\ offlineEvents' = IF IsDuplicate(o) THEN offlineEvents
                              ELSE [offlineEvents EXCEPT ![o] = v]
          /\ disputed' = IF v = "conflicted" THEN disputed \cup {o}
                         ELSE disputed
          /\ UNCHANGED <<dbVars, writer, flight, applyVars, reqLast, batch,
                         review, envVars>>
    BY <1>11 DEF ProcessSyncEvent
  <2>2. o \in Ops
    BY DEF Unprocessed
  <2>3. result' \in [Reqs -> [Ops -> Verdicts \cup {"none"}]]
    BY <2>1, <2>2
  <2>4. offlineEvents' \in [Ops -> Verdicts \cup {"none"}]
    BY <2>1, <2>2
  <2>5. QED
    BY <2>1, <2>3, <2>4
<1>12. ASSUME NEW r \in Reqs, FailRequest(r) PROVE TypeOK'
  BY <1>12 DEF FailRequest, Free, NoVerdicts
<1>13. ASSUME NEW r \in Reqs, DropAnswer(r) PROVE TypeOK'
  BY <1>13 DEF DropAnswer, Free, NoVerdicts
<1>14. ASSUME NEW a \in Admins, NEW o \in Ops, LoadConflict(a, o)
       PROVE  TypeOK'
  BY <1>14 DEF LoadConflict
<1>17. ASSUME NEW a \in Admins, CloseConflict(a) PROVE TypeOK'
  BY <1>17 DEF CloseConflict, Verdicts
<1>15. CASE UNCHANGED vars
  BY <1>15 DEF vars
<1>16. QED
  BY <1>1, <1>2, <1>3, <1>4, <1>5, <1>6, <1>7, <1>8, <1>9, <1>10, <1>11,
     <1>12, <1>13, <1>14, <1>15, <1>17 DEF Next

\* Every reachable state of the outbox protocol is well typed.
THEOREM TypeCorrect == Spec => []TypeOK
  BY InitType, StepType, PTL DEF Spec

-----------------------------------------------------------------------------
(***************************************************************************)
(* The inductive invariant.  Numbers, rows and records only ever gain      *)
(* information: that is what keeps the earlier facts true.                 *)
(***************************************************************************)

\* A number once given stays, and so does a record on the server.
LEMMA Monotone ==
  ASSUME TypeOK, [Next]_vars, NEW o \in Ops
  PROVE  /\ Recorded(o) => Recorded(o)'
         /\ seqOf[o] # 0 => seqOf'[o] = seqOf[o]
         /\ Queued(o) => Queued(o)'
<1> USE DEF TypeOK, applyVars, envVars, dbVars, reqVars, logVars, Recorded,
            Queued, InOutbox
<1>1. ASSUME NEW t \in Threads, NEW p \in Ops, BeginOp(t, p)
      PROVE  row[o] # "none" => row'[o] = row[o]
  BY <1>1 DEF BeginOp
<1>2. ASSUME NEW t \in Threads, NextSeq(t)
      PROVE  seqOf[o] # 0 => seqOf'[o] = seqOf[o]
  BY <1>2 DEF NextSeq
<1>3. ASSUME NEW t \in Threads, InsertRow(t)
      PROVE  Queued(o) => Queued(o)'
  BY <1>3 DEF InsertRow
<1>4. ASSUME NEW p \in Ops, MarkConflicted(p)
      PROVE  Queued(o) => Queued(o)'
  BY <1>4 DEF MarkConflicted
<1>5. ASSUME PruneAcked PROVE Queued(o) => Queued(o)'
  BY <1>5 DEF PruneAcked
<1>6. ASSUME NEW r \in Reqs, ProcessSyncEvent(r)
      PROVE  Recorded(o) => Recorded(o)'
  <2>1. PICK p \in Unprocessed(r), v \in Verdicts :
          offlineEvents' = IF IsDuplicate(p) THEN offlineEvents
                           ELSE [offlineEvents EXCEPT ![p] = v]
    BY <1>6 DEF ProcessSyncEvent
  <2>2. v # "none"
    BY DEF Verdicts, Final
  <2>3. QED
    BY <2>1, <2>2
<1>7. ASSUME NEW a \in Admins, CloseConflict(a)
      PROVE  Recorded(o) => Recorded(o)'
  BY <1>7 DEF CloseConflict, Final
<1>8. QED
  BY <1>1, <1>2, <1>3, <1>4, <1>5, <1>6, <1>7
     DEF Next, vars, BeginOp, NextSeq, InsertRow, StartUpload, GiveUp,
         ReceiveResponse, MarkConflicted, PruneAcked, AdvanceCursor, Crash,
         ProcessSyncEvent, FailRequest, DropAnswer, LoadConflict,
         CloseConflict

\* Numbers the server has once covered stay covered.
LEMMA CoveredStable ==
  ASSUME TypeOK, [Next]_vars, NEW k \in Nat, Covered(k)
  PROVE  \A n \in 1..k : \E o \in Ops : seqOf'[o] = n /\ Recorded(o)'
<1>1. TAKE n \in 1..k
<1>2. PICK o \in Ops : seqOf[o] = n /\ Recorded(o)
  BY DEF Covered
<1>3. seqOf'[o] = n /\ Recorded(o)'
  BY <1>2, Monotone
<1>4. QED
  BY <1>3

\* The invariant holds of an empty outbox and an empty table.
LEMMA InitInv == Init => IInv
<1> SUFFICES ASSUME Init PROVE IInv
  OBVIOUS
<1>1. SeqUnique /\ WritersApart
  BY DEF Init, SeqUnique, WritersApart
<1>2. RecordsAgree
  BY DEF Init, RecordsAgree, Queued, InOutbox, Recorded, NoVerdicts
<1>6. ReviewsDisputed
  BY NoOpAssumption DEF Init, ReviewsDisputed, NoVerdicts
<1>3. CursorCovered
  BY DEF Init, CursorCovered, Covered
<1>4. PrunedOnlyIfRecorded
  BY DEF Init, PrunedOnlyIfRecorded
<1>5. QED
  BY <1>1, <1>2, <1>3, <1>4, <1>6 DEF IInv

\* No step gives a number out twice.
LEMMA StepSeqUnique ==
  TypeOK /\ IInv /\ [Next]_vars => SeqUnique'
<1> SUFFICES ASSUME TypeOK, SeqUnique, [Next]_vars PROVE SeqUnique'
  BY DEF IInv
<1> USE DEF TypeOK, SeqUnique, dbVars
<1>1. ASSUME NEW t \in Threads, NextSeq(t) PROVE SeqUnique'
  BY <1>1 DEF NextSeq
<1>2. ASSUME UNCHANGED <<outboxSeq, seqOf>> PROVE SeqUnique'
  BY <1>2
<1>3. QED
  BY <1>1, <1>2
     DEF Next, vars, BeginOp, InsertRow, StartUpload, GiveUp,
         ReceiveResponse, MarkConflicted, PruneAcked, AdvanceCursor, Crash,
         ProcessSyncEvent, FailRequest, DropAnswer, LoadConflict,
         CloseConflict

\* No step puts two threads on one operation.
LEMMA StepWritersApart ==
  TypeOK /\ IInv /\ [Next]_vars => WritersApart'
<1> SUFFICES ASSUME TypeOK, WritersApart, RecordsAgree, [Next]_vars
             PROVE  WritersApart'
  BY DEF IInv
<1> USE DEF TypeOK, WritersApart, dbVars
<1>1. ASSUME NEW t \in Threads, NEW o \in Ops, BeginOp(t, o)
      PROVE  WritersApart'
  BY <1>1 DEF BeginOp
<1>2. ASSUME NEW t \in Threads, InsertRow(t) PROVE WritersApart'
  BY <1>2 DEF InsertRow
<1>3. ASSUME NEW o \in Ops, MarkConflicted(o) PROVE WritersApart'
  BY <1>3 DEF MarkConflicted
<1>4. ASSUME PruneAcked PROVE WritersApart'
  BY <1>4 DEF PruneAcked
<1>5. ASSUME Crash PROVE WritersApart'
  BY <1>5 DEF Crash
<1>6. ASSUME UNCHANGED <<writer, row>> PROVE WritersApart'
  BY <1>6
<1>7. QED
  BY <1>1, <1>2, <1>3, <1>4, <1>5, <1>6
     DEF Next, vars, NextSeq, StartUpload, GiveUp, ReceiveResponse,
         AdvanceCursor, ProcessSyncEvent, FailRequest, DropAnswer,
         LoadConflict, CloseConflict

\* A duplicate answer for an uploaded event means the server has that event:
\* no other event of this PC carries its number.
LEMMA DuplicateIsRecorded ==
  ASSUME TypeOK, IInv, NEW o \in Ops, Queued(o), IsDuplicate(o)
  PROVE  Recorded(o)
<1>1. CASE Recorded(o)
  BY <1>1
<1>2. CASE \E p \in Ops : Recorded(p) /\ seqOf[p] = seqOf[o]
  <2>1. PICK p \in Ops : Recorded(p) /\ seqOf[p] = seqOf[o]
    BY <1>2
  <2>2. seqOf[o] # 0
    BY DEF IInv, RecordsAgree
  <2>3. p = o
    BY <2>1, <2>2 DEF IInv, SeqUnique
  <2>4. QED
    BY <2>1, <2>3
<1>3. QED
  BY <1>1, <1>2 DEF IsDuplicate

\* What processing one event does, with the guards of its choice spelled out.
LEMMA ProcessedEvent ==
  ASSUME TypeOK, IInv, NEW r \in Reqs, ProcessSyncEvent(r)
  PROVE  \E o \in Ops, v \in Verdicts :
            /\ o \in batch[r]
            /\ Queued(o)
            /\ result' = [result EXCEPT ![r] = [@ EXCEPT ![o] = v]]
            /\ \/ Recorded(o) /\ UNCHANGED logVars
               \/ /\ ~Recorded(o)
                  /\ offlineEvents' = [offlineEvents EXCEPT ![o] = v]
                  /\ disputed' = IF v = "conflicted" THEN disputed \cup {o}
                                 ELSE disputed
            /\ UNCHANGED <<dbVars, writer, flight, applyVars, reqLast, batch,
                           review>>
<1>1. PICK o \in Unprocessed(r), v \in Verdicts :
        /\ IsDuplicate(o) => v = "duplicate"
        /\ result' = [result EXCEPT ![r] = [@ EXCEPT ![o] = v]]
        /\ offlineEvents' = IF IsDuplicate(o) THEN offlineEvents
                            ELSE [offlineEvents EXCEPT ![o] = v]
        /\ disputed' = IF v = "conflicted" THEN disputed \cup {o}
                       ELSE disputed
        /\ UNCHANGED <<dbVars, writer, flight, applyVars, reqLast, batch,
                       review, envVars>>
  BY DEF ProcessSyncEvent
<1>2. o \in Ops /\ o \in batch[r]
  BY DEF Unprocessed, TypeOK
<1>3. Queued(o)
  BY <1>2 DEF IInv, RecordsAgree
<1>4. IsDuplicate(o) <=> Recorded(o)
  BY <1>2, <1>3, DuplicateIsRecorded DEF IsDuplicate
<1>5. QED
  BY <1>1, <1>2, <1>3, <1>4 DEF logVars

\* No step records or answers for an event that was not queued.
LEMMA StepRecordsAgree ==
  TypeOK /\ IInv /\ [Next]_vars => RecordsAgree'
<1> SUFFICES ASSUME TypeOK, IInv, [Next]_vars PROVE RecordsAgree'
  OBVIOUS
<1>a. RecordsAgree /\ SeqUnique /\ WritersApart
  BY DEF IInv
<1>r. ReviewsDisputed
  BY DEF IInv
<1>m. \A o \in Ops : /\ Recorded(o) => Recorded(o)'
                     /\ seqOf[o] # 0 => seqOf'[o] = seqOf[o]
                     /\ Queued(o) => Queued(o)'
  BY Monotone
<1> USE <1>a, <1>m
    DEF TypeOK, dbVars, applyVars, reqVars, logVars, envVars, RecordsAgree
<1>1. ASSUME NEW t \in Threads, NEW p \in Ops, BeginOp(t, p)
      PROVE  RecordsAgree'
  BY <1>1 DEF BeginOp, Queued, InOutbox, Recorded
<1>2. ASSUME NEW t \in Threads, NextSeq(t) PROVE RecordsAgree'
  BY <1>2 DEF NextSeq, Queued, InOutbox, Recorded
<1>3. ASSUME NEW t \in Threads, InsertRow(t) PROVE RecordsAgree'
  BY <1>3 DEF InsertRow, Queued, InOutbox, Recorded
<1>4. ASSUME NEW r \in Reqs, StartUpload(r) PROVE RecordsAgree'
  <2>1. \A o \in Pending : Queued(o)
    BY DEF Pending, PendingRows, Queued, InOutbox
  <2>2. QED
    BY <1>4, <2>1 DEF StartUpload, Queued, InOutbox, Recorded
<1>5. ASSUME NEW r \in Reqs, ReceiveResponse(r) PROVE RecordsAgree'
  <2>1. \A o \in toMark' : Recorded(o)
    BY <1>5 DEF ReceiveResponse
  <2>2. QED
    BY <1>5, <2>1
       DEF ReceiveResponse, Free, NoVerdicts, Queued, InOutbox, Recorded
<1>6. ASSUME NEW p \in Ops, MarkConflicted(p) PROVE RecordsAgree'
  BY <1>6 DEF MarkConflicted, Queued, InOutbox, Recorded
<1>7. ASSUME PruneAcked PROVE RecordsAgree'
  BY <1>7 DEF PruneAcked, Queued, InOutbox, Recorded
<1>8. ASSUME NEW r \in Reqs, ProcessSyncEvent(r) PROVE RecordsAgree'
  <2>1. PICK o \in Ops, v \in Verdicts :
          /\ o \in batch[r]
          /\ Queued(o)
          /\ result' = [result EXCEPT ![r] = [@ EXCEPT ![o] = v]]
          /\ \/ Recorded(o) /\ UNCHANGED logVars
             \/ /\ ~Recorded(o)
                /\ offlineEvents' = [offlineEvents EXCEPT ![o] = v]
          /\ UNCHANGED <<dbVars, writer, flight, applyVars, reqLast, batch>>
    BY <1>8, ProcessedEvent
  <2>2. v # "none"
    BY DEF Verdicts, Final
  <2>3. Recorded(o)'
    BY <2>1, <2>2 DEF Recorded
  <2>4. \A p \in Ops : p # o => offlineEvents'[p] = offlineEvents[p]
    BY <2>1
  <2>5. \A q \in Reqs, p \in Ops :
          result'[q][p] # "none" => result[q][p] # "none" \/ p = o
    BY <2>1
  <2>6. \A p \in Ops : Queued(p)' <=> Queued(p)
    BY <2>1 DEF Queued, InOutbox
  <2>7. \A p \in Ops : Recorded(p)' => Queued(p)'
    BY <2>1, <2>4, <2>6 DEF Recorded
  <2>8. \A q \in Reqs, p \in Ops : result'[q][p] # "none" => Recorded(p)'
    BY <2>3, <2>5
  <2>9. QED
    BY <2>1, <2>3, <2>6, <2>7, <2>8
<1>9. ASSUME NEW a \in Admins, CloseConflict(a) PROVE RecordsAgree'
  <2>1. review[a] \in Ops /\ Recorded(review[a])
    BY <1>9, <1>r DEF CloseConflict, ReviewsDisputed
  <2>2. QED
    BY <1>9, <2>1 DEF CloseConflict, Final, Queued, InOutbox, Recorded
<1>10. ASSUME NEW r \in Reqs, FailRequest(r) \/ DropAnswer(r)
       PROVE  RecordsAgree'
  <2>1. /\ UNCHANGED <<row, seqOf, toMark, offlineEvents>>
        /\ batch' = [batch EXCEPT ![r] = {}]
        /\ result' = [result EXCEPT ![r] = [o \in Ops |-> "none"]]
    BY <1>10 DEF FailRequest, DropAnswer, Free, NoVerdicts
  <2>2. \A q \in Reqs, o \in Ops :
          /\ o \in batch'[q] => o \in batch[q]
          /\ result'[q][o] # "none" => result[q][o] # "none"
    BY <2>1
  <2>3. QED
    BY <2>1, <2>2 DEF Queued, InOutbox, Recorded
<1>11. CASE GiveUp \/ AdvanceCursor \/ Crash \/ UNCHANGED vars
  BY <1>11 DEF GiveUp, AdvanceCursor, Crash, vars, Queued, InOutbox, Recorded
<1>12. ASSUME NEW a \in Admins, NEW p \in Ops, LoadConflict(a, p)
       PROVE  RecordsAgree'
  BY <1>12 DEF LoadConflict, Queued, InOutbox, Recorded
<1>13. QED
  BY <1>1, <1>2, <1>3, <1>4, <1>5, <1>6, <1>7, <1>8, <1>9, <1>10, <1>11,
     <1>12 DEF Next

\* A conflict under review was recorded as one.
LEMMA StepReviewsDisputed ==
  TypeOK /\ IInv /\ [Next]_vars => ReviewsDisputed'
<1> SUFFICES ASSUME TypeOK, IInv, [Next]_vars PROVE ReviewsDisputed'
  OBVIOUS
<1>a. ReviewsDisputed
  BY DEF IInv
<1> USE <1>a, NoOpAssumption
    DEF TypeOK, ReviewsDisputed, logVars, Recorded
<1>1. ASSUME NEW r \in Reqs, ProcessSyncEvent(r) PROVE ReviewsDisputed'
  <2>1. PICK o \in Ops, v \in Verdicts :
          /\ \/ Recorded(o) /\ UNCHANGED logVars
             \/ /\ ~Recorded(o)
                /\ offlineEvents' = [offlineEvents EXCEPT ![o] = v]
                /\ disputed' = IF v = "conflicted" THEN disputed \cup {o}
                               ELSE disputed
          /\ UNCHANGED review
    BY <1>1, ProcessedEvent
  <2>2. CASE UNCHANGED logVars
    BY <2>1, <2>2
  <2>3. CASE ~Recorded(o)
    BY <2>1, <2>3 DEF Verdicts, Final
  <2>4. QED
    BY <2>1, <2>2, <2>3
<1>2. ASSUME NEW a \in Admins, NEW o \in Ops, LoadConflict(a, o)
      PROVE  ReviewsDisputed'
  BY <1>2 DEF LoadConflict
<1>3. ASSUME NEW a \in Admins, CloseConflict(a) PROVE ReviewsDisputed'
  BY <1>3 DEF CloseConflict, Final
<1>4. ASSUME UNCHANGED <<logVars, review>> PROVE ReviewsDisputed'
  BY <1>4
<1>5. QED
  BY <1>1, <1>2, <1>3, <1>4
     DEF Next, vars, BeginOp, NextSeq, InsertRow, StartUpload, GiveUp,
         ReceiveResponse, MarkConflicted, PruneAcked, AdvanceCursor, Crash,
         FailRequest, DropAnswer

\* No step moves a cursor past a number the server lacks.
LEMMA StepCursorCovered ==
  TypeOK /\ IInv /\ [Next]_vars => CursorCovered'
<1> SUFFICES ASSUME TypeOK, IInv, [Next]_vars PROVE CursorCovered'
  OBVIOUS
<1>a. CursorCovered /\ RecordsAgree
  BY DEF IInv
<1> USE DEF TypeOK, dbVars, applyVars, reqVars, logVars, envVars
<1>0. Covered(0)'
  BY DEF Covered
<1>b. ASSUME NEW k \in Nat, Covered(k)
      PROVE  \A n \in 1..k : \E o \in Ops : seqOf'[o] = n /\ Recorded(o)'
  BY <1>b, CoveredStable
<1>c. /\ \A n \in 1..lastServerSeq :
            \E o \in Ops : seqOf'[o] = n /\ Recorded(o)'
      /\ \A n \in 1..ackSeq : \E o \in Ops : seqOf'[o] = n /\ Recorded(o)'
      /\ \A r \in Reqs : \A n \in 1..reqLast[r] :
            \E o \in Ops : seqOf'[o] = n /\ Recorded(o)'
  BY <1>a, <1>b DEF CursorCovered
<1>1. ASSUME NEW r \in Reqs, StartUpload(r) PROVE CursorCovered'
  BY <1>1, <1>c DEF StartUpload, CursorCovered, Covered
<1>2. ASSUME NEW r \in Reqs, ReceiveResponse(r) PROVE CursorCovered'
  <2>1. PICK ack \in SeqsOf(batch[r]) \cup {reqLast[r]} :
          IsAck(ack, reqLast[r], SeqsOf(batch[r])) /\ ackSeq' = ack
    BY <1>2 DEF ReceiveResponse
  <2>2. ack \in Nat
    BY <2>1 DEF SeqsOf
  <2>3. ASSUME NEW n \in 1..ack
        PROVE  \E o \in Ops : seqOf'[o] = n /\ Recorded(o)'
    <3>1. CASE n \in 1..reqLast[r]
      BY <3>1, <1>c
    <3>2. CASE n \notin 1..reqLast[r]
      <4>1. n \in (reqLast[r] + 1)..ack
        BY <2>2, <3>2
      <4>2. n \in SeqsOf(batch[r])
        BY <2>1, <4>1 DEF IsAck
      <4>3. PICK o \in batch[r] : seqOf[o] = n
        BY <4>2 DEF SeqsOf
      <4>4. o \in Ops
        BY <4>3
      <4>5. result[r][o] # "none"
        BY <1>2, <4>3 DEF ReceiveResponse, Answered, Unprocessed
      <4>6. Recorded(o)
        BY <4>4, <4>5, <1>a DEF RecordsAgree
      <4>7. seqOf' = seqOf /\ Recorded(o)'
        BY <1>2, <4>6 DEF ReceiveResponse, Recorded
      <4>8. QED
        BY <4>3, <4>4, <4>7
    <3>3. QED
      BY <3>1, <3>2
  <2>4. QED
    BY <1>2, <1>c, <2>1, <2>3
       DEF ReceiveResponse, Free, CursorCovered, Covered
<1>3. CASE AdvanceCursor
  BY <1>3, <1>c DEF AdvanceCursor, CursorCovered, Covered
<1>4. CASE Crash
  BY <1>4, <1>c DEF Crash, CursorCovered, Covered
<1>5. ASSUME NEW r \in Reqs, FailRequest(r) \/ DropAnswer(r)
      PROVE  CursorCovered'
  <2>1. /\ lastServerSeq' = lastServerSeq
        /\ ackSeq' = ackSeq
        /\ reqLast' = [reqLast EXCEPT ![r] = 0]
    BY <1>5 DEF FailRequest, DropAnswer, Free
  <2>2. QED
    BY <2>1, <1>c DEF CursorCovered, Covered
<1>6. CASE UNCHANGED <<lastServerSeq, ackSeq, reqLast>>
  BY <1>6, <1>c DEF CursorCovered, Covered
<1>7. QED
  BY <1>1, <1>2, <1>3, <1>4, <1>5, <1>6
     DEF Next, vars, BeginOp, NextSeq, InsertRow, GiveUp, MarkConflicted,
         PruneAcked, ProcessSyncEvent, LoadConflict, CloseConflict

\* A row is pruned only below a covered number, which is its own.
LEMMA StepPruned ==
  TypeOK /\ IInv /\ [Next]_vars => PrunedOnlyIfRecorded'
<1> SUFFICES ASSUME TypeOK, IInv, [Next]_vars PROVE PrunedOnlyIfRecorded'
  OBVIOUS
<1>m. \A o \in Ops : Recorded(o) => Recorded(o)'
  BY Monotone
<1>a. PrunedOnlyIfRecorded /\ SeqUnique /\ RecordsAgree
  BY DEF IInv
<1> USE DEF TypeOK, dbVars, PrunedOnlyIfRecorded
<1>1. ASSUME NEW t \in Threads, NEW p \in Ops, BeginOp(t, p)
      PROVE  PrunedOnlyIfRecorded'
  BY <1>1, <1>a, <1>m DEF BeginOp
<1>2. ASSUME NEW t \in Threads, InsertRow(t) PROVE PrunedOnlyIfRecorded'
  BY <1>2, <1>a, <1>m DEF InsertRow
<1>3. ASSUME NEW p \in Ops, MarkConflicted(p) PROVE PrunedOnlyIfRecorded'
  BY <1>3, <1>a, <1>m DEF MarkConflicted
<1>4. CASE PruneAcked
  <2> SUFFICES ASSUME NEW o \in Ops, row'[o] = "pruned" PROVE Recorded(o)'
    OBVIOUS
  <2>1. CASE row[o] = "pruned"
    BY <2>1, <1>a, <1>m
  <2>2. CASE row[o] # "pruned"
    <3>1. row[o] = "pending" /\ seqOf[o] <= ackSeq
      BY <1>4, <2>2 DEF PruneAcked
    <3>2. seqOf[o] # 0
      BY <3>1, <1>a DEF RecordsAgree, Queued, InOutbox
    <3>3. seqOf[o] \in 1..ackSeq
      BY <3>1, <3>2
    <3>4. PICK p \in Ops : seqOf[p] = seqOf[o] /\ Recorded(p)
      BY <3>3 DEF IInv, CursorCovered, Covered
    <3>5. p = o
      BY <3>2, <3>4, <1>a DEF SeqUnique
    <3>6. QED
      BY <3>4, <3>5, <1>m
  <2>3. QED
    BY <2>1, <2>2
<1>5. CASE UNCHANGED row
  BY <1>5, <1>a, <1>m
<1>6. QED
  BY <1>1, <1>2, <1>3, <1>4, <1>5
     DEF Next, vars, NextSeq, StartUpload, GiveUp, ReceiveResponse,
         AdvanceCursor, Crash, ProcessSyncEvent, FailRequest, DropAnswer,
         LoadConflict, CloseConflict

\* The invariant is inductive.
LEMMA StepInv == TypeOK /\ IInv /\ [Next]_vars => IInv'
  BY StepSeqUnique, StepWritersApart, StepRecordsAgree,
     StepReviewsDisputed, StepCursorCovered, StepPruned DEF IInv

\* The inductive invariant holds in every reachable state.
THEOREM InvariantCorrect == Spec => [](TypeOK /\ IInv)
<1>1. Init => TypeOK /\ IInv
  BY InitType, InitInv
<1>2. TypeOK /\ IInv /\ [Next]_vars => (TypeOK /\ IInv)'
  BY StepType, StepInv
<1>3. QED
  BY <1>1, <1>2, PTL DEF Spec

\* No queued event disappears from the agent before the server recorded it:
\* whatever requests and answers are lost, repeated or overtaken, and wherever
\* the agent crashes (ApplyBatch, recordOfflineEvent).
THEOREM NothingLostAfterQueueing == Spec => []PrunedOnlyIfRecorded
<1>1. IInv => PrunedOnlyIfRecorded
  BY DEF IInv
<1>2. QED
  BY <1>1, InvariantCorrect, PTL

-----------------------------------------------------------------------------
(***************************************************************************)
(* OutboxSync implements EventLog.                                         *)
(***************************************************************************)

\* An empty outbox is an empty event log.
LEMMA InitRefines == Init => Abstract!Init
  BY DEF Init, Abstract!Init, Held, InOutbox, NoVerdicts

\* Every step submits, settles, reviews or forgets, or does nothing.
LEMMA StepRefines ==
  TypeOK /\ IInv /\ [Next]_vars => [Abstract!Next]_(Abstract!logVars)
<1> SUFFICES ASSUME TypeOK, IInv, [Next]_vars
             PROVE  \/ Abstract!Next
                    \/ UNCHANGED <<Held, offlineEvents, disputed>>
  BY DEF Abstract!logVars
<1>a. /\ WritersApart /\ RecordsAgree /\ PrunedOnlyIfRecorded
      /\ ReviewsDisputed
  BY DEF IInv
<1> USE DEF TypeOK, dbVars, logVars
<1>1. ASSUME NEW t \in Threads, NEW o \in Ops, BeginOp(t, o)
      PROVE  UNCHANGED <<Held, offlineEvents, disputed>>
  BY <1>1 DEF BeginOp, Held, InOutbox
<1>2. ASSUME NEW t \in Threads, InsertRow(t)
      PROVE  \E o \in Ops : Abstract!Submit(o)
  <2> DEFINE o == writer[t]
  <2>1. o \in Ops /\ row[o] = "unqueued"
    BY <1>2, <1>a DEF InsertRow, WritersApart
  <2>2. ~Recorded(o)
    BY <2>1, <1>a DEF RecordsAgree, Queued, InOutbox
  <2>3. /\ row' = [row EXCEPT ![o] = "pending"]
        /\ UNCHANGED <<offlineEvents, disputed>>
    BY <1>2 DEF InsertRow
  <2>4. Held' = Held \cup {o} /\ o \notin Held
    BY <2>1, <2>3 DEF Held, InOutbox
  <2>5. QED
    BY <2>1, <2>2, <2>3, <2>4 DEF Abstract!Submit, Recorded
<1>3. ASSUME NEW o \in Ops, MarkConflicted(o)
      PROVE  UNCHANGED <<Held, offlineEvents, disputed>>
  BY <1>3 DEF MarkConflicted, Held, InOutbox
<1>4. CASE PruneAcked
  <2> DEFINE S == {o \in Ops : row[o] = "pending" /\ row'[o] = "pruned"}
  <2>1. Held' = Held \ S /\ S \subseteq Held
    BY <1>4 DEF PruneAcked, Held, InOutbox
  <2>2. UNCHANGED <<offlineEvents, disputed>>
    BY <1>4 DEF PruneAcked
  <2>3. \A o \in S : offlineEvents[o] # "none"
    BY <2>2, StepPruned DEF PrunedOnlyIfRecorded, Recorded
  <2>4. S \in SUBSET Ops
    OBVIOUS
  <2>5. Abstract!Forget(S)
    BY <2>1, <2>2, <2>3 DEF Abstract!Forget
  <2>6. QED
    BY <2>4, <2>5 DEF Abstract!Next
<1>5. ASSUME NEW r \in Reqs, ProcessSyncEvent(r)
      PROVE  \/ \E o \in Ops, v \in Verdicts : Abstract!Settle(o, v)
             \/ UNCHANGED <<Held, offlineEvents, disputed>>
  <2>1. PICK o \in Ops, v \in Verdicts :
          /\ Queued(o)
          /\ \/ Recorded(o) /\ UNCHANGED logVars
             \/ /\ ~Recorded(o)
                /\ offlineEvents' = [offlineEvents EXCEPT ![o] = v]
                /\ disputed' = IF v = "conflicted" THEN disputed \cup {o}
                               ELSE disputed
          /\ UNCHANGED <<dbVars, writer, flight, applyVars, reqLast, batch>>
    BY <1>5, ProcessedEvent
  <2>2. Held' = Held
    BY <2>1 DEF Held, InOutbox
  <2>3. CASE Recorded(o)
    BY <2>1, <2>2, <2>3
  <2>4. CASE ~Recorded(o)
    <3>1. o \in Held
      BY <2>1, <2>4, <1>a DEF Queued, PrunedOnlyIfRecorded, Held
    <3>2. Abstract!Settle(o, v)
      BY <2>1, <2>2, <2>4, <3>1 DEF Abstract!Settle, Recorded
    <3>3. QED
      BY <3>2
  <2>5. QED
    BY <2>3, <2>4
<1>6. ASSUME NEW a \in Admins, CloseConflict(a)
      PROVE  \E o \in Ops, v \in Final : Abstract!Review(o, v)
  <2>1. review[a] \in Ops /\ review[a] \in disputed
    BY <1>6, <1>a DEF CloseConflict, ReviewsDisputed
  <2>2. QED
    BY <1>6, <2>1 DEF CloseConflict, Abstract!Review, Held, InOutbox
<1>7. ASSUME UNCHANGED <<row, logVars>>
      PROVE  UNCHANGED <<Held, offlineEvents, disputed>>
  BY <1>7 DEF Held, InOutbox
<1>8. CASE \E t \in Threads : InsertRow(t)
  BY <1>2, <1>8 DEF Abstract!Next
<1>9. CASE \E r \in Reqs : ProcessSyncEvent(r)
  BY <1>5, <1>9 DEF Abstract!Next, Verdicts, Final, Abstract!Verdicts,
                    Abstract!Final
<1>10. CASE \E a \in Admins : CloseConflict(a)
  BY <1>6, <1>10 DEF Abstract!Next, Final, Abstract!Final
<1>11. QED
  BY <1>1, <1>3, <1>4, <1>7, <1>8, <1>9, <1>10
     DEF Next, vars, NextSeq, StartUpload, GiveUp, ReceiveResponse,
         AdvanceCursor, Crash, FailRequest, DropAnswer, LoadConflict

\* The whole protocol, with its retries, overlaps and crashes, behaves like a
\* log that keeps an event on the PC until the server has settled it and
\* settles it exactly once.
THEOREM Refinement == Spec => ImplementsEventLog
<1>1. Spec => Abstract!Init
  BY InitRefines DEF Spec
<1>2. QED
  BY <1>1, StepRefines, InvariantCorrect, PTL
     DEF Spec, ImplementsEventLog, Abstract!Spec

-----------------------------------------------------------------------------
(***************************************************************************)
(* The order in which events are recorded, when one thread writes.         *)
(***************************************************************************)

OneThread == \A t, u \in Threads : t = u

\* A number is reserved for the operation the thread is in the middle of.
WriterIsLast ==
    \A t \in Threads :
        writer[t] # NoOp /\ seqOf[writer[t]] # 0
          => seqOf[writer[t]] = outboxSeq

\* An operation that was not performed has no number.
Unnumbered == \A o \in Ops : row[o] = "none" => seqOf[o] = 0

\* Whatever comes before an event that a request has yet to process is
\* recorded, or the request has yet to process it too.
BatchInOrder ==
    \A r \in Reqs : \A o \in Unprocessed(r) : \A p \in Ops :
        Queued(p) /\ seqOf[p] < seqOf[o] =>
            Recorded(p) \/ p \in Unprocessed(r)

OrderInv ==
    /\ WriterIsLast
    /\ Unnumbered
    /\ BatchInOrder
    /\ RecordedInSeqOrder

\* It holds of an empty outbox.
LEMMA InitOrder == Init => OrderInv
<1> SUFFICES ASSUME Init PROVE OrderInv
  OBVIOUS
<1>1. WriterIsLast /\ Unnumbered
  BY DEF Init, WriterIsLast, Unnumbered
<1>2. BatchInOrder
  BY DEF Init, BatchInOrder, Unprocessed
<1>3. RecordedInSeqOrder
  BY DEF Init, RecordedInSeqOrder, Recorded, NoVerdicts
<1>4. QED
  BY <1>1, <1>2, <1>3 DEF OrderInv

\* A batch takes the pending rows from the lowest number on.
LEMMA BatchFromTheFront ==
  ASSUME TypeOK, NEW o \in Pending, NEW p \in PendingRows,
         seqOf[p] < seqOf[o]
  PROVE  p \in Pending
<1> DEFINE Before(q) == {x \in PendingRows : seqOf[x] < seqOf[q]}
<1>1. PendingRows \in SUBSET Ops /\ o \in Ops /\ p \in Ops
  BY DEF Pending, PendingRows
<1>2. Before(o) \in SUBSET Ops
  BY <1>1
<1>3. IsFiniteSet(Before(o))
  BY <1>2, OpsFinite, FS_Subset
<1>4. \A x \in Ops : seqOf[x] \in Nat
  BY DEF TypeOK
<1>5. Before(p) \in SUBSET Before(o)
  BY <1>1, <1>4
<1>6. Cardinality(Before(p)) <= Cardinality(Before(o))
  BY <1>3, <1>5, FS_Subset
<1>7. Cardinality(Before(o)) < BatchSize
  BY DEF Pending
<1>8. Cardinality(Before(p)) \in Nat /\ Cardinality(Before(o)) \in Nat
  BY <1>3, <1>5, FS_Subset, FS_CardinalityType
<1>9. Cardinality(Before(p)) < BatchSize
  BY <1>6, <1>7, <1>8, BoundsAssumption
<1>10. QED
  BY <1>1, <1>9 DEF Pending

\* A step after which the same operations are queued, numbered and being
\* written, nothing more is recorded, and no request has more to process,
\* leaves the order as it is.
LEMMA NothingNewKeepsOrder ==
  ASSUME TypeOK, IInv, OrderInv,
         UNCHANGED <<outboxSeq, seqOf, offlineEvents>>,
         \A t \in Threads : writer'[t] \in {writer[t], NoOp},
         \A o \in Ops : Queued(o)' => Queued(o),
         \A o \in Ops : row'[o] = "none" => row[o] = "none",
         \A r \in Reqs : Unprocessed(r)' \in {Unprocessed(r), {}}
  PROVE  OrderInv'
<1> USE DEF OrderInv
<1>1. WriterIsLast'
  BY DEF WriterIsLast
<1>2. Unnumbered'
  BY DEF Unnumbered
<1>3. BatchInOrder'
  <2> SUFFICES ASSUME NEW r \in Reqs, NEW o \in Unprocessed(r)',
                      NEW p \in Ops, Queued(p)', seqOf'[p] < seqOf'[o]
               PROVE  Recorded(p)' \/ p \in Unprocessed(r)'
    BY DEF BatchInOrder
  <2>1. Unprocessed(r)' = Unprocessed(r)
    OBVIOUS
  <2>2. Queued(p) /\ seqOf[p] < seqOf[o]
    OBVIOUS
  <2>3. QED
    BY <2>1, <2>2 DEF BatchInOrder, Recorded
<1>4. RecordedInSeqOrder'
  BY DEF RecordedInSeqOrder, Recorded
<1>5. QED
  BY <1>1, <1>2, <1>3, <1>4

\* The thread begins an operation, or reserves the next number for it: the
\* operation is not queued yet.
LEMMA NumberingKeepsOrder ==
  ASSUME OneThread, TypeOK, IInv, OrderInv, NEW t \in Threads,
         (\E o \in Ops : BeginOp(t, o)) \/ NextSeq(t)
  PROVE  OrderInv'
<1> USE DEF OrderInv
<1>0. /\ UNCHANGED <<offlineEvents, batch, result>>
      /\ \A r \in Reqs : Unprocessed(r)' = Unprocessed(r)
  BY DEF BeginOp, NextSeq, reqVars, logVars, Unprocessed
<1>1. PICK x \in Ops :
        /\ ~Queued(x)
        /\ \A p \in Ops \ {x} : /\ seqOf'[p] = seqOf[p]
                                /\ row'[p] = row[p]
        /\ row'[x] = "unqueued"
        /\ writer'[t] = x
        /\ seqOf'[x] # 0 => seqOf'[x] = outboxSeq'
  <2>1. ASSUME NEW o \in Ops, BeginOp(t, o)
        PROVE  /\ ~Queued(o)
               /\ \A p \in Ops \ {o} : /\ seqOf'[p] = seqOf[p]
                                       /\ row'[p] = row[p]
               /\ row'[o] = "unqueued"
               /\ writer'[t] = o
               /\ seqOf'[o] # 0 => seqOf'[o] = outboxSeq'
    BY <2>1 DEF BeginOp, Queued, InOutbox, Unnumbered, TypeOK
  <2>2. CASE NextSeq(t)
    <3>1. PICK o \in Ops : o = writer[t]
      BY <2>2 DEF NextSeq, TypeOK
    <3>2. row[o] = "unqueued"
      BY <2>2, <3>1 DEF NextSeq, IInv, WritersApart
    <3>3. QED
      BY <2>2, <3>1, <3>2 DEF NextSeq, dbVars, Queued, InOutbox, TypeOK
  <2>3. QED
    BY <2>1, <2>2
<1>2. \A p \in Ops : Queued(p)' <=> Queued(p) /\ p # x
  BY <1>1 DEF Queued, InOutbox
<1>3. \A p \in Ops : Recorded(p) => Queued(p)
  BY DEF IInv, RecordsAgree
<1>4. \A r \in Reqs : \A o \in Unprocessed(r) : o \in Ops /\ Queued(o)
  BY DEF IInv, RecordsAgree, Unprocessed, TypeOK
<1>5. WriterIsLast'
  BY <1>1 DEF WriterIsLast, OneThread
<1>6. Unnumbered'
  BY <1>1 DEF Unnumbered
<1>7. BatchInOrder'
  <2> SUFFICES ASSUME NEW r \in Reqs, NEW o \in Unprocessed(r),
                      NEW p \in Ops, Queued(p)', seqOf'[p] < seqOf'[o]
               PROVE  Recorded(p) \/ p \in Unprocessed(r)
    BY <1>0 DEF BatchInOrder, Recorded
  <2>1. o # x /\ p # x /\ Queued(p) /\ o \in Ops
    BY <1>1, <1>2, <1>4
  <2>2. seqOf[p] < seqOf[o]
    BY <1>1, <2>1
  <2>3. QED
    BY <2>1, <2>2 DEF BatchInOrder
<1>8. RecordedInSeqOrder'
  <2> SUFFICES ASSUME NEW o \in Ops, NEW p \in Ops, Recorded(o), Queued(p)',
                      seqOf'[p] < seqOf'[o]
               PROVE  Recorded(p)
    BY <1>0 DEF RecordedInSeqOrder, Recorded
  <2>1. o # x /\ p # x /\ Queued(p)
    BY <1>1, <1>2, <1>3
  <2>2. seqOf[p] < seqOf[o]
    BY <1>1, <2>1
  <2>3. QED
    BY <2>1, <2>2 DEF RecordedInSeqOrder
<1>9. QED
  BY <1>5, <1>6, <1>7, <1>8

\* A row that is inserted has the highest number.
LEMMA InsertKeepsOrder ==
  ASSUME TypeOK, IInv, OrderInv, NEW t \in Threads, InsertRow(t)
  PROVE  OrderInv'
<1> USE DEF OrderInv
<1>1. /\ UNCHANGED <<outboxSeq, seqOf, offlineEvents, batch, result>>
      /\ \A r \in Reqs : Unprocessed(r)' = Unprocessed(r)
  BY DEF InsertRow, reqVars, logVars, Unprocessed
<1>2. PICK x \in Ops : x = writer[t]
  BY DEF InsertRow, TypeOK
<1>3. /\ seqOf[x] = outboxSeq
      /\ \A p \in Ops \ {x} : row'[p] = row[p]
      /\ row'[x] = "pending"
      /\ \A u \in Threads : writer'[u] \in {writer[u], NoOp}
  BY <1>2 DEF InsertRow, WriterIsLast, TypeOK
<1>4. \A p \in Ops \ {x} : Queued(p)' => Queued(p)
  BY <1>3 DEF Queued, InOutbox
<1>5. \A o \in Ops : ~(seqOf[x] < seqOf[o])
  BY <1>3 DEF IInv, SeqUnique, TypeOK
<1>6. WriterIsLast' /\ Unnumbered'
  BY <1>1, <1>3 DEF WriterIsLast, Unnumbered
<1>7. BatchInOrder'
  <2>1. \A r \in Reqs : Unprocessed(r) \subseteq Ops
    BY DEF Unprocessed, TypeOK
  <2>2. QED
    BY <1>1, <1>4, <1>5, <2>1 DEF BatchInOrder, Recorded
<1>8. RecordedInSeqOrder'
  BY <1>1, <1>4, <1>5 DEF RecordedInSeqOrder, Recorded
<1>9. QED
  BY <1>6, <1>7, <1>8

\* An upload takes what is pending from the front.
LEMMA UploadKeepsOrder ==
  ASSUME TypeOK, IInv, OrderInv, NEW r \in Reqs, StartUpload(r)
  PROVE  OrderInv'
<1> USE DEF OrderInv
<1>1. /\ UNCHANGED <<outboxSeq, seqOf, row, writer, offlineEvents, result>>
      /\ batch' = [batch EXCEPT ![r] = Pending]
  BY DEF StartUpload, dbVars, logVars
<1>2. \A p \in Ops : Queued(p)' <=> Queued(p)
  BY <1>1 DEF Queued, InOutbox
<1>3. WriterIsLast' /\ Unnumbered' /\ RecordedInSeqOrder'
  BY <1>1, <1>2 DEF WriterIsLast, Unnumbered, RecordedInSeqOrder, Recorded
<1>4. \A q \in Reqs \ {r} : Unprocessed(q)' = Unprocessed(q)
  BY <1>1 DEF Unprocessed, TypeOK
<1>5. Unprocessed(r)' = {o \in Pending : result[r][o] = "none"}
  BY <1>1 DEF Unprocessed, TypeOK
<1>6. ASSUME NEW o \in Unprocessed(r)', NEW p \in Ops, Queued(p),
             seqOf[p] < seqOf[o]
      PROVE  Recorded(p) \/ p \in Unprocessed(r)'
  <2>1. CASE row[p] = "pending"
    <3>1. p \in Pending
      BY <1>5, <1>6, <2>1, BatchFromTheFront DEF PendingRows
    <3>2. Recorded(p) \/ result[r][p] = "none"
      BY DEF IInv, RecordsAgree
    <3>3. QED
      BY <1>5, <3>1, <3>2
  <2>2. CASE row[p] # "pending"
    BY <1>6, <2>2
       DEF Queued, InOutbox, IInv, RecordsAgree, PrunedOnlyIfRecorded
  <2>3. QED
    BY <2>1, <2>2
<1>7. BatchInOrder'
  <2> SUFFICES ASSUME NEW q \in Reqs, NEW o \in Unprocessed(q)',
                      NEW p \in Ops, Queued(p), seqOf[p] < seqOf[o]
               PROVE  Recorded(p) \/ p \in Unprocessed(q)'
    BY <1>1, <1>2 DEF BatchInOrder, Recorded
  <2>1. CASE q = r
    BY <1>6, <2>1
  <2>2. CASE q # r
    BY <1>4, <2>2 DEF BatchInOrder
  <2>3. QED
    BY <2>1, <2>2
<1>8. QED
  BY <1>3, <1>7

\* The server records the first event it has yet to process.
LEMMA ProcessKeepsOrder ==
  ASSUME TypeOK, IInv, OrderInv, NEW r \in Reqs, ProcessSyncEvent(r)
  PROVE  OrderInv'
<1> USE DEF OrderInv
<1>1. PICK x \in Unprocessed(r), v \in Verdicts :
        /\ \A p \in Unprocessed(r) : seqOf[x] <= seqOf[p]
        /\ result' = [result EXCEPT ![r] = [@ EXCEPT ![x] = v]]
        /\ offlineEvents' = IF IsDuplicate(x) THEN offlineEvents
                            ELSE [offlineEvents EXCEPT ![x] = v]
        /\ UNCHANGED <<dbVars, writer, batch>>
  BY DEF ProcessSyncEvent
<1>2. x \in Ops /\ Queued(x)
  BY DEF Unprocessed, TypeOK, IInv, RecordsAgree
<1>3. v # "none" /\ (IsDuplicate(x) => Recorded(x))
  BY <1>2, DuplicateIsRecorded DEF Verdicts, Final
<1>4. \A p \in Ops : Recorded(p)' <=> Recorded(p) \/ p = x
  BY <1>1, <1>2, <1>3 DEF Recorded, TypeOK
<1>5. \A p \in Ops : Queued(p)' <=> Queued(p)
  BY <1>1 DEF dbVars, Queued, InOutbox
<1>6. \A q \in Reqs : \A p \in Ops :
        p \in Unprocessed(q)' <=> p \in Unprocessed(q) /\ ~(q = r /\ p = x)
  <2>1. result[r] \in [Ops -> Verdicts \cup {"none"}]
    BY DEF TypeOK
  <2>2. \A q \in Reqs : \A p \in Ops :
          result'[q][p] = IF q = r /\ p = x THEN v ELSE result[q][p]
    BY <1>1, <1>2, <2>1 DEF TypeOK
  <2>3. QED
    BY <1>1, <1>3, <2>2 DEF Unprocessed
<1>7. \A q \in Reqs : Unprocessed(q)' \subseteq Ops
  BY <1>1 DEF Unprocessed, TypeOK
<1>8. WriterIsLast' /\ Unnumbered'
  BY <1>1 DEF WriterIsLast, Unnumbered, dbVars
<1>9. BatchInOrder'
  <2> SUFFICES ASSUME NEW q \in Reqs, NEW o \in Ops, o \in Unprocessed(q)',
                      NEW p \in Ops, Queued(p), seqOf[p] < seqOf[o]
               PROVE  Recorded(p)' \/ p \in Unprocessed(q)'
    BY <1>1, <1>5, <1>7 DEF BatchInOrder, dbVars
  <2>1. Recorded(p) \/ p \in Unprocessed(q)
    BY <1>6 DEF BatchInOrder
  <2>2. QED
    BY <1>4, <1>6, <2>1
<1>10. RecordedInSeqOrder'
  <2> SUFFICES ASSUME NEW o \in Ops, NEW p \in Ops, Recorded(o)', Queued(p),
                      seqOf[p] < seqOf[o]
               PROVE  Recorded(p)'
    BY <1>1, <1>5 DEF RecordedInSeqOrder, dbVars
  <2>1. CASE Recorded(o)
    BY <1>4, <2>1 DEF RecordedInSeqOrder
  <2>2. CASE o = x
    <3>1. p \notin Unprocessed(r)
      BY <1>1, <2>2 DEF TypeOK
    <3>2. Recorded(p)
      BY <2>2, <3>1 DEF BatchInOrder
    <3>3. QED
      BY <1>4, <3>2
  <2>3. QED
    BY <1>4, <2>1, <2>2
<1>11. QED
  BY <1>8, <1>9, <1>10

\* Resolving a conflict changes a verdict, not what is recorded.
LEMMA CloseKeepsOrder ==
  ASSUME TypeOK, IInv, OrderInv, NEW a \in Admins, CloseConflict(a)
  PROVE  OrderInv'
<1> USE DEF OrderInv
<1>1. UNCHANGED <<outboxSeq, seqOf, row, writer, batch, result>>
  BY DEF CloseConflict, dbVars, reqVars
<1>2. Recorded(review[a]) /\ review[a] \in Ops
  BY NoOpAssumption DEF CloseConflict, IInv, ReviewsDisputed, TypeOK
<1>3. \A p \in Ops : Recorded(p)' <=> Recorded(p)
  BY <1>2 DEF CloseConflict, Final, Recorded, TypeOK
<1>4. /\ \A p \in Ops : Queued(p)' <=> Queued(p)
      /\ \A r \in Reqs : Unprocessed(r)' = Unprocessed(r)
  BY <1>1 DEF Queued, InOutbox, Unprocessed
<1>5. WriterIsLast' /\ Unnumbered'
  BY <1>1 DEF WriterIsLast, Unnumbered
<1>6. BatchInOrder' /\ RecordedInSeqOrder'
  BY <1>1, <1>3, <1>4 DEF BatchInOrder, RecordedInSeqOrder
<1>7. QED
  BY <1>5, <1>6

\* The order is inductive when one thread writes.
LEMMA StepOrder ==
  ASSUME OneThread, TypeOK, IInv, OrderInv, [Next]_vars
  PROVE  OrderInv'
<1>1. ASSUME NEW t \in Threads, NEW o \in Ops, BeginOp(t, o) \/ NextSeq(t)
      PROVE  OrderInv'
  BY <1>1, NumberingKeepsOrder
<1>2. ASSUME NEW t \in Threads, NextSeq(t) PROVE OrderInv'
  BY <1>2, NumberingKeepsOrder
<1>3. ASSUME NEW t \in Threads, InsertRow(t) PROVE OrderInv'
  BY <1>3, InsertKeepsOrder
<1>4. ASSUME NEW r \in Reqs, StartUpload(r) PROVE OrderInv'
  BY <1>4, UploadKeepsOrder
<1>5. ASSUME NEW r \in Reqs, ProcessSyncEvent(r) PROVE OrderInv'
  BY <1>5, ProcessKeepsOrder
<1>6. ASSUME NEW a \in Admins, CloseConflict(a) PROVE OrderInv'
  BY <1>6, CloseKeepsOrder
<1>7. ASSUME UNCHANGED <<outboxSeq, seqOf, row, offlineEvents, batch, result>>,
             \A t \in Threads : writer'[t] \in {writer[t], NoOp}
      PROVE  OrderInv'
  <2>1. /\ \A o \in Ops : Queued(o)' => Queued(o)
        /\ \A r \in Reqs : Unprocessed(r)' = Unprocessed(r)
    BY <1>7 DEF Queued, InOutbox, Unprocessed
  <2>2. QED
    BY <1>7, <2>1, NothingNewKeepsOrder
<1>8. CASE GiveUp \/ AdvanceCursor \/ Crash \/ UNCHANGED vars
           \/ \E a \in Admins, o \in Ops : LoadConflict(a, o)
  BY <1>7, <1>8
     DEF GiveUp, AdvanceCursor, Crash, LoadConflict, vars, dbVars, reqVars,
         logVars
<1>9. CASE (\E o \in Ops : MarkConflicted(o)) \/ PruneAcked
  <2>1. UNCHANGED <<outboxSeq, seqOf, writer, offlineEvents, batch, result>>
    BY <1>9 DEF MarkConflicted, PruneAcked, reqVars, logVars
  <2>2. \A o \in Ops : /\ Queued(o)' => Queued(o)
                       /\ row'[o] = "none" => row[o] = "none"
    BY <1>9 DEF MarkConflicted, PruneAcked, Queued, InOutbox, TypeOK
  <2>3. \A r \in Reqs : Unprocessed(r)' = Unprocessed(r)
    BY <2>1 DEF Unprocessed
  <2>4. QED
    BY <2>1, <2>2, <2>3, NothingNewKeepsOrder
<1>10. ASSUME NEW r \in Reqs,
              ReceiveResponse(r) \/ FailRequest(r) \/ DropAnswer(r)
       PROVE  OrderInv'
  <2>1. /\ UNCHANGED <<dbVars, writer, offlineEvents>>
        /\ Free(r)
    BY <1>10 DEF ReceiveResponse, FailRequest, DropAnswer, logVars
  <2>2. \A o \in Ops : Queued(o)' => Queued(o)
    BY <2>1 DEF dbVars, Queued, InOutbox
  <2>3. \A q \in Reqs : Unprocessed(q)' \in {Unprocessed(q), {}}
    BY <2>1 DEF Free, Unprocessed, TypeOK
  <2>4. QED
    BY <2>1, <2>2, <2>3, NothingNewKeepsOrder DEF dbVars
<1>11. QED
  BY <1>1, <1>2, <1>3, <1>4, <1>5, <1>6, <1>8, <1>9, <1>10 DEF Next

\* When one thread of the agent writes, the server records the events of a PC
\* in the order of their numbers, over crashes, retries and overlapping
\* requests (SyncEngine.SyncOnceAsync, processSyncEvents).
THEOREM RecordedInOrder ==
  ASSUME OneThread
  PROVE  Spec => []RecordedInSeqOrder
<1>1. Init => TypeOK /\ IInv /\ OrderInv
  BY InitType, InitInv, InitOrder
<1>2. TypeOK /\ IInv /\ OrderInv /\ [Next]_vars => (TypeOK /\ IInv /\ OrderInv)'
  BY StepType, StepInv, StepOrder
<1>3. OrderInv => RecordedInSeqOrder
  BY DEF OrderInv
<1>4. QED
  BY <1>1, <1>2, <1>3, PTL DEF Spec
=============================================================================

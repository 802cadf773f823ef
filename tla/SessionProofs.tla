---------------------------- MODULE SessionProofs ----------------------------
(***************************************************************************)
(* Proofs about the sessions of a PC, for any number of sessions, requests *)
(* keys, offline events and administrators: first the endpoints and the    *)
(* sweep (ServerSessions), then the offline events applied to the same     *)
(* rows (SessionSync).                                                     *)
(***************************************************************************)
EXTENDS SessionSync, TLAPS

\* The initial state is well typed.
LEMMA InitType == Init => TypeOK
  BY NoKeyAssumption
     DEF Init, TypeOK, NoRow, Rows, Statuses, StartStates, StartSteps

\* What the steps of a start request leave in "start" is well typed.
LEMMA AnswerType ==
  ASSUME TypeOK, NEW q \in Starts, NEW s \in Sessions, Answer(q, s)
  PROVE  start' \in [Starts -> StartStates]
<1>1. [start[q] EXCEPT !.step = "answered"] \in StartStates
  BY DEF TypeOK, StartStates, StartSteps
<1>2. [start[q] EXCEPT !.step = "answered", !.session = s] \in StartStates
  BY <1>1 DEF StartStates
<1>3. start' = [start EXCEPT ![q] = [start[q] EXCEPT !.step = "answered", !.session = s]]
  BY DEF Answer
<1> QED
  BY <1>2, <1>3 DEF TypeOK

\* Every step leads to a well-typed state.
LEMMA StepType == TypeOK /\ [Next]_vars => TypeOK'
<1> SUFFICES ASSUME TypeOK, [Next]_vars PROVE TypeOK'
  OBVIOUS
<1> USE DEF TypeOK, tableVars
<1>1. ASSUME NEW q \in Starts, NEW k \in Keys \cup {NoKey},
             FindIdempotent(q, k)
      PROVE  TypeOK'
  <2>1. WithKey(k) # {} => (CHOOSE s \in WithKey(k) : TRUE) \in Sessions
    BY DEF WithKey
  <2>2. start[q] \in StartStates
    OBVIOUS
  <2>3. start'[q] \in StartStates
    <3> DEFINE found == k # NoKey /\ WithKey(k) # {}
               session == IF found THEN CHOOSE s \in WithKey(k) : TRUE
                          ELSE NoSession
               step == IF found THEN "answered" ELSE "validating"
    <3>1. session \in Sessions \cup {NoSession} /\ step \in StartSteps
      BY <2>1 DEF StartSteps
    <3>2. start'[q] = [step |-> step, key |-> k, session |-> session]
      BY <1>1, <2>2 DEF FindIdempotent, StartStates
    <3>3. QED
      BY <3>1, <3>2 DEF StartStates
  <2>4. QED
    BY <1>1, <2>3 DEF FindIdempotent
<1>2. ASSUME NEW q \in Starts, ValidatePc(q) PROVE TypeOK'
  BY <1>2 DEF ValidatePc, StartStates, StartSteps
<1>3. ASSUME NEW q \in Starts, NEW m \in Minutes, InsertSession(q, m)
      PROVE  TypeOK'
  <2>1. m \in Nat /\ start[q].key \in Keys \cup {NoKey}
    BY MinutesAssumption DEF StartStates
  <2>2. CASE (\E s \in WithKey(start[q].key) : Answer(q, s)) /\ UNCHANGED row
    BY <1>3, <2>2, AnswerType DEF InsertSession, WithKey
  <2>3. ASSUME NEW s \in Sessions, Answer(q, s),
               row' = [row EXCEPT ![s] =
                  [status |-> "active", startedAt |-> now,
                   expiresAt |-> now + m, planned |-> m, extended |-> 0,
                   priced |-> m, key |-> start[q].key]]
        PROVE  TypeOK'
    BY <1>3, <2>1, <2>3, AnswerType DEF InsertSession, Rows, Statuses
  <2>4. QED
    BY <1>3, <2>2, <2>3 DEF InsertSession
<1>4. ASSUME NEW s \in Sessions, NEW m \in Minutes, Extend(s, m)
      PROVE  TypeOK'
  <2>1. m \in Nat /\ row[s] \in Rows /\ Granted(s) \in Nat
    BY MinutesAssumption DEF Granted, Rows
  <2>2. row[s].expiresAt + m \in Nat /\ row[s].extended + m \in Nat
    BY <2>1 DEF Rows
  <2>3. ASSUME NEW a \in Nat, NEW b \in Nat, NEW c \in Nat
        PROVE  [row[s] EXCEPT !.expiresAt = a, !.extended = b,
                              !.priced = c] \in Rows
    BY <2>1 DEF Rows
  <2>4. row' = [row EXCEPT ![s] =
                  [row[s] EXCEPT !.expiresAt = row[s].expiresAt + m,
                                 !.extended = row[s].extended + m,
                                 !.priced = Granted(s) + m]]
    BY <1>4 DEF Extend
  <2>5. Granted(s) + m \in Nat
    BY <2>1
  <2>6. row' \in [Sessions -> Rows]
    BY <2>2, <2>3, <2>4, <2>5
  <2>7. QED
    BY <1>4, <2>1, <2>6 DEF Extend
<1>5. ASSUME NEW s \in Sessions, NEW to \in Terminal, Close(s, to)
      PROVE  TypeOK'
  BY <1>5 DEF Close, Rows, Statuses, Terminal
<1>6. ASSUME NEW s \in Sessions, Pause(s) \/ Resume(s) PROVE TypeOK'
  <2>1. /\ [row[s] EXCEPT !.status = "paused"] \in Rows
        /\ [row[s] EXCEPT !.status = "active"] \in Rows
    BY DEF Rows, Statuses
  <2>2. QED
    BY <1>6, <2>1 DEF Pause, Resume
<1>7. CASE ExpireDueSessions
  <2>1. ASSUME NEW s \in Sessions
        PROVE  [row[s] EXCEPT !.status = "expired"] \in Rows
    BY DEF Rows, Statuses, Terminal
  <2>2. Due \subseteq Sessions
    BY DEF Due, Active
  <2>3. QED
    BY <1>7, <2>1, <2>2 DEF ExpireDueSessions
<1>8. ASSUME NEW s \in Sessions, LogExpiry(s) PROVE TypeOK'
  BY <1>8 DEF LogExpiry
<1>9. CASE WorkerCrash \/ Tick
  BY <1>9 DEF WorkerCrash, Tick
<1>10. CASE UNCHANGED vars
  BY <1>10 DEF vars
<1>11. QED
  BY <1>1, <1>2, <1>3, <1>4, <1>5, <1>6, <1>7, <1>8, <1>9, <1>10 DEF Next

\* Every reachable state of the session endpoints is well typed.
THEOREM TypeCorrect == Spec => []TypeOK
  BY InitType, StepType, PTL DEF Spec

-----------------------------------------------------------------------------
(***************************************************************************)
(* What each step does to the rows, field by field.                        *)
(***************************************************************************)

(***************************************************************************)
(* Start request q inserts row s.                                          *)
(***************************************************************************)
Inserts(q, s) ==
  /\ Answer(q, s)
  /\ start[q].key = NoKey \/ WithKey(start[q].key) = {}
  /\ Status(s) = "none"
  /\ \A t \in Sessions \ {s} : row'[t] = row[t]
  /\ row'[s].status = "active"
  /\ row'[s].key = start[q].key
  /\ row'[s].extended = 0
  /\ row'[s].priced = row'[s].planned
  /\ row'[s].planned \in Minutes
  /\ row'[s].expiresAt = row'[s].startedAt + row'[s].planned

\* A start request inserts one blank row, or changes no row and answers with
\* the session of its key.
LEMMA InsertedRow ==
  ASSUME TypeOK, NEW q \in Starts, NEW m \in Minutes, InsertSession(q, m)
  PROVE  /\ UNCHANGED <<extensionLog, closingLog, unlogged, crashes>>
         /\ \/ /\ UNCHANGED row
               /\ \E s \in WithKey(start[q].key) : Answer(q, s)
            \/ \E s \in Sessions : Inserts(q, s)
<1>1. UNCHANGED <<extensionLog, closingLog, unlogged, crashes>>
  BY DEF InsertSession
<1>2. CASE UNCHANGED row /\ \E s \in WithKey(start[q].key) : Answer(q, s)
  BY <1>1, <1>2
<1>3. ASSUME NEW s \in Sessions, Status(s) = "none", Answer(q, s),
             start[q].key = NoKey \/ WithKey(start[q].key) = {},
             row' = [row EXCEPT ![s] =
                [status |-> "active", startedAt |-> now,
                 expiresAt |-> now + m, planned |-> m, extended |-> 0,
                 priced |-> m, key |-> start[q].key]]
      PROVE  Inserts(q, s)
  BY <1>3, MinutesAssumption DEF Inserts, TypeOK
<1>4. QED
  BY <1>1, <1>2, <1>3 DEF InsertSession

\* An extension changes one row.
LEMMA ExtendedRow ==
  ASSUME TypeOK, NEW s \in Sessions, NEW m \in Minutes, Extend(s, m)
  PROVE  /\ Status(s) = "active"
         /\ \A t \in Sessions \ {s} :
                row'[t] = row[t] /\ extensionLog'[t] = extensionLog[t]
         /\ row'[s].status = "active"
         /\ row'[s].startedAt = row[s].startedAt
         /\ row'[s].planned = row[s].planned
         /\ row'[s].key = row[s].key
         /\ row'[s].expiresAt = row[s].expiresAt + m
         /\ row'[s].extended = row[s].extended + m
         /\ row'[s].priced = row[s].planned + row[s].extended + m
         /\ extensionLog'[s] = extensionLog[s] + m
  BY DEF Extend, TypeOK, Rows, Status, Granted

(***************************************************************************)
(* A step that changes nothing in the rows but the status of opened ones.  *)
(***************************************************************************)
StatusOnly ==
  \A s \in Sessions :
    /\ row'[s].startedAt = row[s].startedAt
    /\ row'[s].expiresAt = row[s].expiresAt
    /\ row'[s].planned = row[s].planned
    /\ row'[s].extended = row[s].extended
    /\ row'[s].priced = row[s].priced
    /\ row'[s].key = row[s].key
    /\ Status(s) = "none" => row'[s] = row[s]
    /\ Status(s) # "none" => row'[s].status # "none"
    /\ row'[s].status \in {"active", "paused"} =>
           Status(s) \in {"active", "paused"}

\* The transitions change the status of a session and nothing else.
LEMMA TransitionsChangeStatus ==
  ASSUME TypeOK,
         \/ \E s \in Sessions, to \in Terminal : Close(s, to)
         \/ \E s \in Sessions : Pause(s) \/ Resume(s)
         \/ ExpireDueSessions
         \/ UNCHANGED row
  PROVE  StatusOnly
<1> USE DEF TypeOK, Rows, Status, StatusOnly
<1>1. ASSUME NEW s \in Sessions, NEW to \in Terminal, Close(s, to)
      PROVE  StatusOnly
  BY <1>1 DEF Close, Terminal
<1>2. ASSUME NEW s \in Sessions, Pause(s) \/ Resume(s) PROVE StatusOnly
  BY <1>2 DEF Pause, Resume
<1>3. CASE ExpireDueSessions
  BY <1>3 DEF ExpireDueSessions, Due, Active
<1>4. CASE UNCHANGED row
  BY <1>4
<1>5. QED
  BY <1>1, <1>2, <1>3, <1>4

\* A step inserts a row, extends one, or changes statuses at most.
LEMMA StepKinds ==
  ASSUME TypeOK, [Next]_vars
  PROVE  \/ \E q \in Starts, m \in Minutes : InsertSession(q, m)
         \/ \E s \in Sessions, m \in Minutes : Extend(s, m)
         \/ StatusOnly /\ UNCHANGED extensionLog
<1>1. CASE \/ \E s \in Sessions, to \in Terminal : Close(s, to)
           \/ \E s \in Sessions : Pause(s) \/ Resume(s)
           \/ ExpireDueSessions
  <2>1. StatusOnly
    BY <1>1, TransitionsChangeStatus
  <2>2. UNCHANGED extensionLog
    BY <1>1 DEF Close, Pause, Resume, ExpireDueSessions
  <2>3. QED
    BY <2>1, <2>2
<1>2. CASE \/ \E q \in Starts, k \in Keys \cup {NoKey} : FindIdempotent(q, k)
           \/ \E q \in Starts : ValidatePc(q)
           \/ \E s \in Sessions : LogExpiry(s)
           \/ WorkerCrash \/ Tick \/ UNCHANGED vars
  <2>1. UNCHANGED <<row, extensionLog>>
    BY <1>2 DEF FindIdempotent, ValidatePc, LogExpiry, WorkerCrash, Tick,
                vars, tableVars
  <2>2. QED
    BY <2>1, TransitionsChangeStatus
<1>3. QED
  BY <1>1, <1>2 DEF Next

-----------------------------------------------------------------------------
(***************************************************************************)
(* The parts of the invariant, one at a time.                              *)
(***************************************************************************)

\* The invariant holds of the empty table.
LEMMA InitInv == Init => IInv
<1> SUFFICES ASSUME Init PROVE IInv
  OBVIOUS
<1> USE DEF Init, NoRow, Status
<1>1. BlankUntilStarted /\ OneSessionPerKey /\ AnswersMatchKeys
  BY DEF BlankUntilStarted, OneSessionPerKey, AnswersMatchKeys, WithKey
<1>2. TimeAddsUp /\ PriceCoversTime
  BY DEF TimeAddsUp, PriceCoversTime, Granted
<1>3. ClosedOnce
  BY DEF ClosedOnce, Terminal
<1>4. QED
  BY <1>1, <1>2, <1>3 DEF IInv

\* Only an inserted row stops being blank.
LEMMA StepBlank ==
  ASSUME TypeOK, BlankUntilStarted, [Next]_vars
  PROVE  BlankUntilStarted'
<1> USE DEF BlankUntilStarted, Status
<1>1. ASSUME NEW q \in Starts, NEW m \in Minutes, InsertSession(q, m)
      PROVE  BlankUntilStarted'
  BY <1>1, InsertedRow DEF Inserts
<1>2. ASSUME NEW s \in Sessions, NEW m \in Minutes, Extend(s, m)
      PROVE  BlankUntilStarted'
  BY <1>2, ExtendedRow
<1>3. CASE StatusOnly
  BY <1>3 DEF StatusOnly
<1>4. QED
  BY <1>1, <1>2, <1>3, StepKinds

\* A session keeps its key.
LEMMA KeysKept ==
  ASSUME TypeOK, [Next]_vars, NEW k
  PROVE  WithKey(k) \subseteq WithKey(k)'
<1> USE DEF WithKey, Status
<1>1. ASSUME NEW q \in Starts, NEW m \in Minutes, InsertSession(q, m)
      PROVE  WithKey(k) \subseteq WithKey(k)'
  BY <1>1, InsertedRow DEF Inserts
<1>2. ASSUME NEW s \in Sessions, NEW m \in Minutes, Extend(s, m)
      PROVE  WithKey(k) \subseteq WithKey(k)'
  BY <1>2, ExtendedRow
<1>3. CASE StatusOnly
  BY <1>3 DEF StatusOnly
<1>4. QED
  BY <1>1, <1>2, <1>3, StepKinds

\* A key is only given to a second session by an insert, which looks first.
LEMMA StepOnePerKey ==
  ASSUME TypeOK, OneSessionPerKey, [Next]_vars
  PROVE  OneSessionPerKey'
<1> USE DEF WithKey, Status, OneSessionPerKey
<1>1. ASSUME NEW q \in Starts, NEW m \in Minutes, InsertSession(q, m)
      PROVE  OneSessionPerKey'
  <2>1. CASE UNCHANGED row
    BY <2>1
  <2>2. ASSUME NEW s \in Sessions, Inserts(q, s)
        PROVE  OneSessionPerKey'
    BY <2>2, NoKeyAssumption DEF Inserts
  <2>3. QED
    BY <1>1, <2>1, <2>2, InsertedRow
<1>2. ASSUME NEW s \in Sessions, NEW m \in Minutes, Extend(s, m)
      PROVE  OneSessionPerKey'
  <2>1. \A t \in Sessions : /\ row'[t].key = row[t].key
                            /\ row'[t].status = row[t].status
    BY <1>2, ExtendedRow
  <2>2. QED
    BY <2>1
<1>3. CASE StatusOnly
  BY <1>3 DEF StatusOnly
<1>4. QED
  BY <1>1, <1>2, <1>3, StepKinds

\* A request is answered with the session it found or inserted, and later
\* steps leave both the answer and the session's key alone.
LEMMA StepAnswers ==
  ASSUME TypeOK, AnswersMatchKeys, [Next]_vars
  PROVE  AnswersMatchKeys'
<1> DEFINE Has(s, k) == row'[s].status # "none" /\ row'[s].key = k
<1>a. SUFFICES ASSUME NEW p \in Starts, start'[p].step = "answered"
               PROVE  /\ start'[p].session \in Sessions
                      /\ Has(start'[p].session, start'[p].key)
  BY DEF AnswersMatchKeys, WithKey, Status
<1>b. ASSUME NEW k, NEW s \in WithKey(k) PROVE s \in Sessions /\ Has(s, k)
  BY <1>b, KeysKept DEF WithKey, Status
<1>1. CASE start'[p] = start[p]
  BY <1>a, <1>b, <1>1 DEF AnswersMatchKeys
<1>2. ASSUME NEW k \in Keys \cup {NoKey}, FindIdempotent(p, k)
      PROVE  /\ start'[p].session \in Sessions
             /\ Has(start'[p].session, start'[p].key)
  <2>1. start[p] \in StartStates
    BY DEF TypeOK
  <2>2. start' = [start EXCEPT ![p].key = k,
                    ![p].step = IF k # NoKey /\ WithKey(k) # {}
                                THEN "answered" ELSE "validating",
                    ![p].session = IF k # NoKey /\ WithKey(k) # {}
                                   THEN CHOOSE s \in WithKey(k) : TRUE
                                   ELSE NoSession]
    BY <1>2 DEF FindIdempotent
  <2>3. WithKey(k) # {} /\ k # NoKey
    BY <1>a, <2>1, <2>2 DEF TypeOK, StartStates
  <2>4. (CHOOSE s \in WithKey(k) : TRUE) \in WithKey(k)
    BY <2>3
  <2>5. /\ start'[p].key = k
        /\ start'[p].session = CHOOSE s \in WithKey(k) : TRUE
    BY <2>1, <2>2, <2>3 DEF TypeOK, StartStates
  <2>6. QED
    BY <1>b, <2>4, <2>5
<1>3. CASE ValidatePc(p)
  BY <1>a, <1>3 DEF ValidatePc, TypeOK, StartStates
<1>4. ASSUME NEW m \in Minutes, InsertSession(p, m)
      PROVE  /\ start'[p].session \in Sessions
             /\ Has(start'[p].session, start'[p].key)
  <2>1. PICK s \in Sessions : Answer(p, s) /\ Has(s, start[p].key)
    <3>1. ASSUME NEW s \in WithKey(start[p].key), Answer(p, s)
          PROVE  s \in Sessions /\ Has(s, start[p].key)
      BY <1>b
    <3>2. ASSUME NEW s \in Sessions, Inserts(p, s)
          PROVE  Answer(p, s) /\ Has(s, start[p].key)
      BY <3>2 DEF Inserts
    <3>3. QED
      BY <1>4, <3>1, <3>2, InsertedRow
  <2>2. start'[p].key = start[p].key /\ start'[p].session = s
    BY <2>1 DEF Answer, TypeOK, StartStates
  <2>3. QED
    BY <2>1, <2>2
<1>5. ASSUME NEW q \in Starts \ {p},
             \/ \E k \in Keys \cup {NoKey} : FindIdempotent(q, k)
             \/ ValidatePc(q)
             \/ \E s \in Sessions : Answer(q, s)
      PROVE  start'[p] = start[p]
  BY <1>5 DEF FindIdempotent, ValidatePc, Answer, TypeOK
<1>6. ASSUME NEW q \in Starts \ {p}, NEW m \in Minutes, InsertSession(q, m)
      PROVE  start'[p] = start[p]
  <2>1. \E s \in Sessions : Answer(q, s)
    BY <1>6 DEF InsertSession, WithKey
  <2>2. QED
    BY <1>5, <2>1
<1>7. CASE UNCHANGED start
  BY <1>1, <1>7
<1>8. QED
  BY <1>1, <1>2, <1>3, <1>4, <1>5, <1>6, <1>7
     DEF Next, vars, Extend, Close, Pause, Resume, ExpireDueSessions,
         LogExpiry, WorkerCrash, Tick

\* A row that is inserted was blank, so nothing was logged for it; extending
\* adds the same minutes to the row, to its expiry and to the log.
LEMMA StepTimeAddsUp ==
  ASSUME TypeOK, BlankUntilStarted, TimeAddsUp, [Next]_vars
  PROVE  TimeAddsUp'
<1> DEFINE Adds(s) ==
             /\ row'[s].extended = extensionLog'[s]
             /\ row'[s].status \in {"active", "paused"} =>
                  row'[s].expiresAt =
                    row'[s].startedAt + (row'[s].planned + row'[s].extended)
<1> SUFFICES ASSUME NEW s \in Sessions PROVE Adds(s)
  BY DEF TimeAddsUp, Status, Granted
<1> USE DEF TimeAddsUp, Status, Granted
<1>0. row[s] \in Rows
  BY DEF TypeOK
<1>1. ASSUME NEW q \in Starts, NEW m \in Minutes, InsertSession(q, m)
      PROVE  Adds(s)
  <2>1. CASE UNCHANGED row
    BY <1>1, <2>1, InsertedRow
  <2>2. ASSUME NEW t \in Sessions, Inserts(q, t), t # s
        PROVE  Adds(s)
    BY <1>1, <2>2, InsertedRow DEF Inserts
  <2>3. CASE Inserts(q, s)
    <3>1. row[s] = NoRow
      BY <2>3 DEF Inserts, BlankUntilStarted
    <3>2. extensionLog'[s] = 0
      BY <1>1, <3>1, InsertedRow DEF NoRow
    <3>3. /\ row'[s].extended = 0 /\ row'[s].planned \in Nat
          /\ row'[s].expiresAt = row'[s].startedAt + row'[s].planned
      BY <2>3, MinutesAssumption DEF Inserts
    <3>4. QED
      BY <3>2, <3>3
  <2>4. QED
    BY <1>1, <2>1, <2>2, <2>3, InsertedRow
<1>2. ASSUME NEW t \in Sessions, NEW m \in Minutes, Extend(t, m)
      PROVE  Adds(s)
  <2>1. CASE t # s
    BY <1>2, <2>1, ExtendedRow
  <2>2. CASE t = s
    <3>1. m \in Nat /\ row[s].expiresAt \in Nat /\ row[s].startedAt \in Nat
          /\ row[s].planned \in Nat /\ row[s].extended \in Nat
      BY <1>0, MinutesAssumption DEF Rows
    <3>2. QED
      BY <1>2, <2>2, <3>1, ExtendedRow
  <2>3. QED
    BY <2>1, <2>2
<1>3. CASE StatusOnly /\ UNCHANGED extensionLog
  BY <1>3 DEF StatusOnly
<1>4. QED
  BY <1>1, <1>2, <1>3, StepKinds

\* Every step prices exactly the minutes it grants.
LEMMA StepPrice ==
  ASSUME TypeOK, PriceCoversTime, [Next]_vars
  PROVE  PriceCoversTime'
<1> USE DEF PriceCoversTime, Granted
<1>1. ASSUME NEW q \in Starts, NEW m \in Minutes, InsertSession(q, m)
      PROVE  PriceCoversTime'
  <2>1. CASE UNCHANGED row
    BY <2>1
  <2>2. ASSUME NEW s \in Sessions, Inserts(q, s)
        PROVE  PriceCoversTime'
    <3>1. /\ row'[s].extended = 0 /\ row'[s].planned \in Minutes
          /\ row'[s].priced = row'[s].planned
      BY <2>2 DEF Inserts
    <3>2. row'[s].planned \in Nat
      BY <3>1, MinutesAssumption
    <3>3. row'[s].priced = row'[s].planned + row'[s].extended
      BY <3>1, <3>2
    <3>4. \A t \in Sessions \ {s} : row'[t] = row[t]
      BY <2>2 DEF Inserts
    <3>5. QED
      BY <3>3, <3>4
  <2>3. QED
    BY <1>1, <2>1, <2>2, InsertedRow
<1>2. ASSUME NEW s \in Sessions, NEW m \in Minutes, Extend(s, m)
      PROVE  PriceCoversTime'
  <2>1. m \in Nat /\ row[s].planned \in Nat /\ row[s].extended \in Nat
    BY MinutesAssumption DEF TypeOK, Rows
  <2>2. row'[s].priced = row'[s].planned + row'[s].extended
    BY <1>2, <2>1, ExtendedRow
  <2>3. QED
    BY <1>2, <2>2, ExtendedRow
<1>3. CASE StatusOnly
  BY <1>3 DEF StatusOnly
<1>4. QED
  BY <1>1, <1>2, <1>3, StepKinds

\* A step that closes a session writes its event or leaves it to the loop of
\* the sweep, and only an open session, which has no such event, is closed.
LEMMA StepClosedOnce ==
  ASSUME TypeOK, ClosedOnce, [Next]_vars
  PROVE  ClosedOnce'
<1> DEFINE Closings(s) == closingLog[s] + (IF s \in unlogged THEN 1 ELSE 0)
           Later(s) == closingLog'[s] + (IF s \in unlogged' THEN 1 ELSE 0)
           Once(s) == /\ Later(s) <= 1
                      /\ Later(s) = 1 => row'[s].status \in Terminal
                      /\ row'[s].status \in Terminal /\ crashes' = 0
                           => Later(s) = 1
<1> SUFFICES ASSUME NEW s \in Sessions PROVE Once(s)
  BY DEF ClosedOnce, Status
<1>0. /\ Closings(s) <= 1
      /\ Closings(s) = 1 => row[s].status \in Terminal
      /\ row[s].status \in Terminal /\ crashes = 0 => Closings(s) = 1
      /\ closingLog[s] \in Nat /\ crashes \in Nat /\ row[s] \in Rows
  BY DEF ClosedOnce, Status, TypeOK
<1>1. ASSUME UNCHANGED <<closingLog, unlogged, crashes>>,
             row'[s].status \in Terminal <=> row[s].status \in Terminal
      PROVE  Once(s)
  BY <1>0, <1>1
<1>2. ASSUME NEW q \in Starts, NEW m \in Minutes, InsertSession(q, m)
      PROVE  Once(s)
  <2>1. row'[s].status \in Terminal <=> row[s].status \in Terminal
    BY <1>2, InsertedRow DEF Inserts, Terminal, Status
  <2>2. QED
    BY <1>1, <1>2, <2>1, InsertedRow
<1>3. ASSUME NEW t \in Sessions, NEW m \in Minutes, Extend(t, m)
      PROVE  Once(s)
  <2>1. row'[s].status = row[s].status
    BY <1>3, ExtendedRow DEF Status
  <2>2. QED
    BY <1>1, <1>3, <2>1 DEF Extend
<1>4. ASSUME NEW t \in Sessions, NEW to \in Terminal, Close(t, to)
      PROVE  Once(s)
  <2>1. CASE t # s
    BY <1>0, <1>4, <2>1 DEF Close, TypeOK
  <2>2. CASE t = s
    <3>1. row[s].status \notin Terminal
      BY <1>4, <2>2 DEF Close, Status
    <3>2. Closings(s) = 0
      BY <1>0, <3>1
    <3>3. row'[s].status = to
      BY <1>0, <1>4, <2>2 DEF Close, TypeOK, Rows
    <3>4. Later(s) = 1
      BY <1>0, <1>4, <2>2, <3>2 DEF Close, TypeOK
    <3>5. QED
      BY <3>3, <3>4
  <2>3. QED
    BY <2>1, <2>2
<1>5. ASSUME NEW t \in Sessions, Pause(t) \/ Resume(t) PROVE Once(s)
  <2>1. row'[s].status \in Terminal <=> row[s].status \in Terminal
    BY <1>0, <1>5 DEF Pause, Resume, Status, TypeOK, Rows, Terminal
  <2>2. QED
    BY <1>1, <1>5, <2>1 DEF Pause, Resume
<1>6. CASE ExpireDueSessions
  <2>1. CASE s \notin Due
    BY <1>0, <1>6, <2>1 DEF ExpireDueSessions
  <2>2. CASE s \in Due
    <3>1. row[s].status = "active"
      BY <2>2 DEF Due, Active, Status
    <3>2. Closings(s) = 0
      BY <1>0, <3>1 DEF Terminal
    <3>3. row'[s].status = "expired"
      BY <1>0, <1>6, <2>2 DEF ExpireDueSessions, TypeOK, Rows
    <3>4. Later(s) = 1
      BY <1>0, <1>6, <2>2, <3>2 DEF ExpireDueSessions
    <3>5. QED
      BY <3>3, <3>4 DEF Terminal
  <2>3. QED
    BY <2>1, <2>2
<1>7. ASSUME NEW t \in Sessions, LogExpiry(t) PROVE Once(s)
  <2>1. Later(s) = Closings(s)
    BY <1>0, <1>7 DEF LogExpiry, TypeOK
  <2>2. QED
    BY <1>0, <1>7, <2>1 DEF LogExpiry
<1>8. CASE WorkerCrash
  BY <1>0, <1>8 DEF WorkerCrash, tableVars
<1>9. CASE \/ \E q \in Starts, k \in Keys \cup {NoKey} : FindIdempotent(q, k)
           \/ \E q \in Starts : ValidatePc(q)
           \/ Tick \/ UNCHANGED vars
  BY <1>1, <1>9 DEF FindIdempotent, ValidatePc, Tick, vars, tableVars
<1>10. QED
  BY <1>2, <1>3, <1>4, <1>5, <1>6, <1>7, <1>8, <1>9 DEF Next

\* The invariant is inductive.
LEMMA StepInv == TypeOK /\ IInv /\ [Next]_vars => IInv'
  BY StepBlank, StepOnePerKey, StepAnswers, StepTimeAddsUp, StepPrice,
     StepClosedOnce DEF IInv

\* The inductive invariant holds in every reachable state.
THEOREM InvariantCorrect == Spec => []IInv
  BY InitType, StepType, InitInv, StepInv, PTL DEF Spec

\* However start requests with the same key interleave, retries included,
\* one session holds the key (insertSessionRecord).
THEOREM OneSessionPerKeyCorrect == Spec => []OneSessionPerKey
<1>1. IInv => OneSessionPerKey
  BY DEF IInv
<1>2. QED
  BY <1>1, InvariantCorrect, PTL

\* Row, log and expiry of every session are the same amount of time: no
\* extension is lost or granted twice (handleExtendSession).
THEOREM TimeAccounted == Spec => []TimeAddsUp
<1>1. IInv => TimeAddsUp
  BY DEF IInv
<1>2. QED
  BY <1>1, InvariantCorrect, PTL

\* What was priced is that time, extensions included (handleExtendSession
\* prices the whole session again).
THEOREM PriceCorrect == Spec => []PriceCoversTime
<1>1. IInv => PriceCoversTime
  BY DEF IInv
<1>2. QED
  BY <1>1, InvariantCorrect, PTL

\* A session has at most one terminal event, and exactly one if it is closed
\* and the worker never crashed.
THEOREM ClosedOnceCorrect == Spec => []ClosedOnce
<1>1. IInv => ClosedOnce
  BY DEF IInv
<1>2. QED
  BY <1>1, InvariantCorrect, PTL

-----------------------------------------------------------------------------
(***************************************************************************)
(* Refinement of the life cycle.                                           *)
(***************************************************************************)

\* Nothing is open at the start.
LEMMA InitRefines == Init => Lifecycle!Init
  BY DEF Init, NoRow, Status, Granted, Lifecycle!Init

\* Every step of the endpoints and the sweep starts, grants, switches or
\* lets lapse, or is none of the life cycle's business.
LEMMA StepRefines ==
  ASSUME TypeOK, BlankUntilStarted, [Next]_vars
  PROVE  [Lifecycle!Next]_(Lifecycle!lifeVars)
<1> DEFINE phase == [s \in Sessions |-> row[s].status]
           granted == [s \in Sessions |-> row[s].planned + row[s].extended]
<1> USE DEF Status, Granted
<1>0. \A s \in Sessions : row[s] \in Rows
  BY DEF TypeOK
<1>1. ASSUME NEW q \in Starts, NEW m \in Minutes, InsertSession(q, m)
      PROVE  Lifecycle!Next \/ UNCHANGED Lifecycle!lifeVars
  <2>1. CASE UNCHANGED row
    BY <2>1 DEF Lifecycle!lifeVars
  <2>2. ASSUME NEW s \in Sessions, Inserts(q, s)
        PROVE  Lifecycle!Next
    <3>1. /\ row[s].status = "none" /\ row'[s].status = "active"
          /\ row'[s].planned \in Minutes /\ row'[s].extended = 0
          /\ \A t \in Sessions \ {s} : row'[t] = row[t]
      BY <2>2 DEF Inserts
    <3>2. PICK n \in Minutes : row'[s].planned = n
      BY <3>1
    <3>3. row'[s].planned + row'[s].extended = n
      <4>1. n \in Nat /\ n + 0 = n
        BY MinutesAssumption
      <4>2. QED
        BY <3>1, <3>2, <4>1
    <3>4. phase' = [phase EXCEPT ![s] = "active"]
      BY <3>1
    <3>5. granted' = [granted EXCEPT ![s] = n]
      BY <3>1, <3>3
    <3>6. Lifecycle!Start(s, n)
      BY <3>1, <3>4, <3>5 DEF Lifecycle!Start
    <3>7. QED
      BY <3>6 DEF Lifecycle!Next
  <2>3. QED
    BY <1>1, <2>1, <2>2, InsertedRow
<1>2. ASSUME NEW s \in Sessions, NEW m \in Minutes, Extend(s, m)
      PROVE  Lifecycle!Next
  <2>1. /\ row[s].status = "active" /\ row'[s].status = "active"
        /\ \A t \in Sessions \ {s} : row'[t] = row[t]
        /\ row'[s].planned = row[s].planned
        /\ row'[s].extended = row[s].extended + m
    BY <1>2, ExtendedRow
  <2>2. row'[s].planned + row'[s].extended
          = (row[s].planned + row[s].extended) + m
    BY <1>0, <2>1, MinutesAssumption DEF Rows
  <2>3. phase' = phase
    BY <2>1
  <2>4. granted' = [granted EXCEPT ![s] = granted[s] + m]
    BY <2>1, <2>2
  <2>5. Lifecycle!Grant(s, m)
    BY <2>1, <2>3, <2>4 DEF Lifecycle!Grant
  <2>6. QED
    BY <2>5 DEF Lifecycle!Next
<1>3. ASSUME NEW s \in Sessions, NEW to,
             to \in Lifecycle!Open \cup {"ended", "cancelled"},
             row[s].status \in Lifecycle!Open,
             row' = [row EXCEPT ![s].status = to]
      PROVE  Lifecycle!Next
  <2>1. /\ \A t \in Sessions \ {s} : row'[t] = row[t]
        /\ row'[s].status = to
        /\ row'[s].planned = row[s].planned
        /\ row'[s].extended = row[s].extended
    BY <1>0, <1>3 DEF Rows, TypeOK
  <2>2. phase' = [phase EXCEPT ![s] = to] /\ granted' = granted
    BY <2>1
  <2>3. Lifecycle!Switch(s, to)
    BY <1>3, <2>2 DEF Lifecycle!Switch
  <2>4. QED
    BY <1>3, <2>3 DEF Lifecycle!Next, Lifecycle!Closed
<1>4. ASSUME NEW s \in Sessions, NEW to \in Terminal, Close(s, to)
      PROVE  Lifecycle!Next
  <2>1. row[s].status \in Lifecycle!Open
    BY <1>0, <1>4 DEF Close, Rows, Statuses, Lifecycle!Open
  <2>2. QED
    BY <1>3, <1>4, <2>1 DEF Close
<1>5. ASSUME NEW s \in Sessions, Pause(s) \/ Resume(s)
      PROVE  Lifecycle!Next
  BY <1>3, <1>5 DEF Pause, Resume, Lifecycle!Open
<1>6. CASE ExpireDueSessions
  <2>1. Due \in SUBSET Sessions /\ \A s \in Due : row[s].status = "active"
    BY DEF Due, Active
  <2>2. \A s \in Sessions :
          /\ row'[s].status = IF s \in Due THEN "expired" ELSE row[s].status
          /\ row'[s].planned = row[s].planned
          /\ row'[s].extended = row[s].extended
    BY <1>0, <1>6 DEF ExpireDueSessions, Rows
  <2>3. /\ phase' = [s \in Sessions |->
                       IF s \in Due THEN "expired" ELSE phase[s]]
        /\ granted' = granted
    BY <2>2
  <2>4. PICK S \in SUBSET Sessions : S = Due
    BY <2>1
  <2>5. Lifecycle!Lapse(S)
    BY <2>1, <2>3, <2>4 DEF Lifecycle!Lapse
  <2>6. QED
    BY <2>5 DEF Lifecycle!Next
<1>7. CASE UNCHANGED row
  BY <1>7 DEF Lifecycle!lifeVars
<1>8. QED
  BY <1>1, <1>2, <1>4, <1>5, <1>6, <1>7
     DEF Next, FindIdempotent, ValidatePc, LogExpiry, WorkerCrash, Tick, vars,
         tableVars

\* The endpoints and the sweep, in any interleaving, implement the life
\* cycle: a session opens once, gains time only while active, closes once.
THEOREM Refinement == Spec => ImplementsLifecycle
<1>1. IInv => BlankUntilStarted
  BY DEF IInv
<1>2. QED
  BY <1>1, InitRefines, StepRefines, TypeCorrect, InvariantCorrect, PTL
     DEF Spec, ImplementsLifecycle, Lifecycle!Spec

-----------------------------------------------------------------------------

\* No endpoint and no sweep changes a closed session's status.
LEMMA StepKeepsClosed ==
  ASSUME TypeOK, [Next]_vars, NEW s \in Sessions, Status(s) \in Terminal
  PROVE  row'[s].status = row[s].status
<1> USE DEF Status, Terminal
<1>1. ASSUME NEW q \in Starts, NEW m \in Minutes, InsertSession(q, m)
      PROVE  row'[s].status = row[s].status
  BY <1>1, InsertedRow DEF Inserts
<1>2. ASSUME NEW t \in Sessions, NEW m \in Minutes, Extend(t, m)
      PROVE  row'[s].status = row[s].status
  BY <1>2, ExtendedRow
<1>3. ASSUME NEW t \in Sessions, NEW to \in Terminal,
             Close(t, to) \/ Pause(t) \/ Resume(t)
      PROVE  row'[s].status = row[s].status
  <2>1. t # s
    BY <1>3 DEF Close, Pause, Resume
  <2>2. QED
    BY <1>3, <2>1 DEF Close, Pause, Resume, TypeOK
<1>4. CASE ExpireDueSessions
  BY <1>4 DEF ExpireDueSessions, Due, Active, TypeOK
<1>5. CASE UNCHANGED row
  BY <1>5
<1>6. QED
  BY <1>1, <1>2, <1>3, <1>4, <1>5
     DEF Next, FindIdempotent, ValidatePc, LogExpiry, WorkerCrash, Tick, vars,
         tableVars

-----------------------------------------------------------------------------
(***************************************************************************)
(* Offline events.  The invariant of everything at once: endpoints, sweep, *)
(* replayed events and the review of conflicts.                            *)
(***************************************************************************)

Queued(e) == event[e].state = "queued"
StartOf(e, s) ==
    event[e].type = "SESSION_STARTED" /\ event[e].about = s
EndOf(e, s) ==
    event[e].type \in {"SESSION_ENDED", "SESSION_CANCELLED"}
      /\ event[e].about = s

\* Numbers are used up in order; an event names the session it was recorded
\* in, and only a session that begins on the PC has a start event.
EventsFilled ==
    \A e \in Events :
        /\ event[e].state = "none" =>
              /\ event[e].type = "none"
              /\ event[e].about = NoSession
              /\ applied[e] = NoSession
              /\ \A d \in Events : d > e => event[d].state = "none"
        /\ event[e].state # "none" =>
              event[e].type \in EventTypes /\ event[e].about \in Sessions
        /\ event[e].type = "SESSION_STARTED" =>
              event[e].about \in OfflineSessions

\* A session is started once.
StartedOnce ==
    \A d, e \in Events : \A s \in Sessions :
        StartOf(d, s) /\ StartOf(e, s) => d = e

\* An offline session has a row only after its start event was processed.
RowsFromStarts ==
    \A s \in OfflineSessions :
        Status(s) # "none" => \E e \in Events : StartOf(e, s) /\ ~Queued(e)

\* The event being applied is the first in the queue, one under review has
\* left it, and the row a handler looked up exists.
InHand ==
    /\ applying.step \in {"idle", "loaded"}
    /\ applying.step = "loaded" =>
          /\ applying.event \in Events
          /\ Queued(applying.event)
          /\ \A d \in Events : d < applying.event => ~Queued(d)
    /\ applying.session # NoSession => Status(applying.session) # "none"
    /\ \A a \in Admins :
          /\ review[a].step # "idle" =>
                /\ review[a].event \in Events
                /\ event[review[a].event].state \notin {"none", "queued"}
          /\ review[a].session # NoSession =>
                Status(review[a].session) # "none"

SyncInv ==
    /\ SyncTypeOK
    /\ EventsFilled
    /\ StartedOnce
    /\ RowsFromStarts
    /\ InHand

\* The invariant holds before anything happened.
LEMMA SyncInitInv == SyncInit => SyncInv
<1> SUFFICES ASSUME SyncInit PROVE SyncInv
  OBVIOUS
<1>1. TypeOK
  BY InitType DEF SyncInit
<1>2. Idle \in Lookups
  BY DEF Idle, Lookups
<1>3. event \in [Events -> EventRows]
  BY DEF SyncInit, EventRows, EventStates
<1>4. SyncTypeOK
  BY <1>1, <1>2, <1>3 DEF SyncInit, SyncTypeOK, News
<1>5. EventsFilled /\ StartedOnce
  BY DEF SyncInit, EventsFilled, StartedOnce, StartOf
<1>6. RowsFromStarts
  BY OfflineAssumption
     DEF SyncInit, Init, NoRow, RowsFromStarts, Status
<1>7. InHand
  BY DEF SyncInit, Idle, InHand
<1>8. QED
  BY <1>4, <1>5, <1>6, <1>7 DEF SyncInv

(***************************************************************************)
(* No row is removed, and no offline session gets one but by its start.    *)
(***************************************************************************)
RowsStay ==
    \A s \in Sessions : Status(s) # "none" => row'[s].status # "none"
NoneOpened ==
    \A s \in OfflineSessions :
        Status(s) = "none" => row'[s].status = "none"

\* What the endpoints and the sweep do to the rows of the offline sessions.
LEMMA ServerKeepsRows ==
  ASSUME TypeOK, [Next]_vars
  PROVE  RowsStay /\ NoneOpened
<1> USE DEF RowsStay, NoneOpened, Status
<1>1. ASSUME NEW q \in Starts, NEW m \in Minutes, InsertSession(q, m)
      PROVE  RowsStay /\ NoneOpened
  <2>1. RowsStay
    BY <1>1, InsertedRow DEF Inserts
  <2>2. CASE UNCHANGED row
    BY <2>2
  <2>3. ASSUME NEW s \in Sessions \ OfflineSessions, NEW r,
               row' = [row EXCEPT ![s] = r]
        PROVE  NoneOpened
    BY <2>3, OfflineAssumption DEF TypeOK
  <2>4. QED
    BY <1>1, <2>1, <2>2, <2>3 DEF InsertSession
<1>2. ASSUME NEW s \in Sessions, NEW m \in Minutes, Extend(s, m)
      PROVE  RowsStay /\ NoneOpened
  BY <1>2, ExtendedRow, OfflineAssumption
<1>3. CASE StatusOnly
  BY <1>3, OfflineAssumption DEF StatusOnly
<1>4. QED
  BY <1>1, <1>2, <1>3, StepKinds

\* What is published is a message about a session.
LEMMA AnnouncedIsNews ==
  ASSUME NEW s \in Sessions, NEW status
  PROVE  Announced(s, status) \subseteq News
  BY DEF Announced, News

LEMMA ChangesAreNews ==
  ASSUME SyncTypeOK, PublishChanges
  PROVE  published' \in SUBSET News
  BY AnnouncedIsNews DEF PublishChanges, SyncTypeOK

LEMMA DecisionsAreNews ==
  ASSUME SyncInv, applying.step = "loaded"
  PROVE  DecisionNews \subseteq News
<1>1. PICK e \in Events : e = applying.event /\ Queued(e)
  BY DEF SyncInv, InHand
<1>2. event[e].type \in EventTypes /\ event[e].about \in Sessions
  BY <1>1 DEF Queued, SyncInv, EventsFilled
<1>3. applying.session \in Sessions \cup {NoSession}
  BY DEF SyncInv, SyncTypeOK, Lookups
<1>4. CASE event[e].type = "SESSION_STARTED"
  BY <1>1, <1>2, <1>4, AnnouncedIsNews DEF DecisionNews, Decision
<1>5. CASE event[e].type # "SESSION_STARTED" /\ applying.session = NoSession
  BY <1>1, <1>5 DEF DecisionNews, Decision
<1>6. CASE event[e].type # "SESSION_STARTED" /\ applying.session # NoSession
  <2>1. PICK s \in Sessions : s = applying.session /\ s # NoSession
    BY <1>3, <1>6
  <2>2. {<<s, "closed">>} \subseteq News
    BY DEF News
  <2>3. QED
    BY <1>1, <1>2, <1>6, <2>1, <2>2, AnnouncedIsNews
       DEF DecisionNews, Decision
<1>7. QED
  BY <1>4, <1>5, <1>6

\* A step of the endpoints or the sweep keeps the invariant.
LEMMA ServerKeepsSync ==
  ASSUME SyncInv, TypeOK', RowsStay, NoneOpened, published' \in SUBSET News,
         UNCHANGED <<event, applying, review, applied, local, answers, dropped>>
  PROVE  SyncInv'
<1> USE DEF SyncInv
<1>1. SyncTypeOK'
  BY DEF SyncTypeOK
<1>2. EventsFilled' /\ StartedOnce'
  BY DEF EventsFilled, StartedOnce, StartOf
<1>3. RowsFromStarts'
  BY DEF RowsFromStarts, StartOf, Queued, NoneOpened, Status
<1>4. InHand'
  <2>1. /\ applying.session \in Sessions \cup {NoSession}
        /\ \A a \in Admins : review[a].session \in Sessions \cup {NoSession}
    BY DEF SyncTypeOK, Lookups
  <2>2. QED
    BY <2>1 DEF InHand, Queued, RowsStay, Status
<1>5. QED
  BY <1>1, <1>2, <1>3, <1>4

\* Recording an event puts it at the end of the queue.
LEMMA RecordKeepsSync ==
  ASSUME SyncInv, NEW e \in Events, NEW type \in EventTypes,
         NEW s \in Sessions, NEW m \in Nat, Record(e, type, s, m),
         type = "SESSION_STARTED" =>
            s \in OfflineSessions /\ \A d \in Events : event[d].about # s,
         local' \in Sessions \cup {NoSession}
  PROVE  SyncInv'
<1> DEFINE new == [state |-> "queued", type |-> type, about |-> s,
                   occurredAt |-> now, minutes |-> m]
<1> USE DEF SyncInv
<1>1. /\ event \in [Events -> EventRows] /\ event[e].state = "none"
      /\ event' = [event EXCEPT ![e] = new]
      /\ UNCHANGED <<vars, applying, review, applied, newsVars>>
      /\ \A d \in Events : d < e => event[d].state # "none"
  BY DEF SyncTypeOK, Record, Events
<1>2. event'[e] = new /\ \A d \in Events \ {e} : event'[d] = event[d]
  BY <1>1
<1>3. SyncTypeOK'
  <2>1. TypeOK'
    BY <1>1 DEF SyncTypeOK, TypeOK, vars, tableVars
  <2>2. new \in EventRows
    BY DEF EventRows, EventStates, SyncTypeOK, TypeOK
  <2>3. QED
    BY <1>1, <2>1, <2>2 DEF SyncTypeOK, newsVars
<1>4. EventsFilled'
  <2>1. \A d \in Events : d < e \/ d = e \/ d > e
    BY DEF Events
  <2>2. ASSUME NEW d \in Events, d # e, event[d].state = "none"
        PROVE  d > e
    BY <1>1, <2>1, <2>2
  <2>3. s # NoSession /\ type # "none"
    BY NoSessionAssumption DEF EventTypes
  <2>4. \A d, c \in Events : d > e /\ c > d => c # e
    BY DEF Events
  <2>5. QED
    BY <1>1, <1>2, <2>2, <2>3, <2>4 DEF EventsFilled
<1>5. StartedOnce'
  BY <1>2 DEF StartedOnce, StartOf
<1>6. RowsFromStarts'
  <2>1. ASSUME NEW d \in Events, NEW t \in Sessions, StartOf(d, t)
        PROVE  d # e
    BY <1>1, <2>1 DEF StartOf, EventsFilled
  <2>2. QED
    BY <1>1, <1>2, <2>1, OfflineAssumption
       DEF RowsFromStarts, StartOf, Queued, Status, vars, tableVars
<1>7. InHand'
  <2>1. applying.step = "loaded" => applying.event \in Events /\ applying.event < e
    <3> SUFFICES ASSUME applying.step = "loaded"
                 PROVE  applying.event \in Events /\ applying.event < e
      OBVIOUS
    <3>1. PICK c \in Events : c = applying.event
      BY DEF InHand
    <3>2. event[c].state # "none" /\ c # e
      BY <1>1, <3>1 DEF InHand, Queued
    <3>3. ~(c > e)
      BY <1>1, <3>2 DEF EventsFilled
    <3>4. QED
      BY <3>1, <3>2, <3>3 DEF Events
  <2>2. \A d \in Events : applying.step = "loaded" /\ d < applying.event => d # e
    BY <2>1 DEF Events
  <2>3. \A a \in Admins : review[a].step # "idle" => review[a].event # e
    BY <1>1 DEF InHand
  <2>4. applying.step = "loaded" => applying.event # e
    BY <1>1 DEF InHand, Queued
  <2>5. QED
    BY <1>1, <1>2, <2>2, <2>3, <2>4 DEF InHand, Queued, Status, vars, tableVars
<1>8. QED
  BY <1>3, <1>4, <1>5, <1>6, <1>7

(***************************************************************************)
(* What the agent hears changes where it is: it takes a session over while *)
(* it is in none, leaves the one it is in, or only asks.                   *)
(***************************************************************************)
Hears ==
    /\ Heard
    /\ UNCHANGED published
    /\ answers' \in SUBSET (Sessions \cup {NoSession})
    /\ \/ \E s \in Sessions : Adopt(s)
       \/ Leave
       \/ UNCHANGED <<local, dropped>>

LEMMA HearingCases ==
  ASSUME SyncInv,
         \/ \E s \in Sessions : HearActive(s)
         \/ \E s \in Sessions : HearClosed(s)
         \/ HearEndElsewhere
         \/ \E s \in Sessions \cup {NoSession} : AskBootstrap(s)
         \/ \E s \in Sessions \cup {NoSession} : TakeBootstrap(s)
  PROVE  Hears
<1>1. answers \in SUBSET (Sessions \cup {NoSession})
  BY DEF SyncInv, SyncTypeOK
<1>2. CASE \E s \in Sessions : HearActive(s)
  BY <1>1, <1>2 DEF HearActive, Hears
<1>3. CASE (\E s \in Sessions : HearClosed(s)) \/ HearEndElsewhere
  BY <1>1, <1>3 DEF HearClosed, HearEndElsewhere, Hears
<1>4. ASSUME NEW s \in Sessions \cup {NoSession}, AskBootstrap(s)
      PROVE  Hears
  BY <1>1, <1>4 DEF AskBootstrap, Hears
<1>5. ASSUME NEW s \in Sessions \cup {NoSession}, TakeBootstrap(s)
      PROVE  Hears
  BY <1>1, <1>5 DEF TakeBootstrap, Hears
<1>6. QED
  BY <1>2, <1>3, <1>4, <1>5

\* Hearing keeps the invariant.
LEMMA HearKeepsSync ==
  ASSUME SyncInv, Hears
  PROVE  SyncInv'
<1> USE DEF SyncInv
<1>1. UNCHANGED <<vars, event, applying, review, applied>>
  BY DEF Hears, Heard
<1>2. /\ local' \in Sessions \cup {NoSession}
      /\ dropped' \in SUBSET Sessions
  BY DEF Hears, Adopt, Leave, SyncTypeOK
<1>3. SyncTypeOK'
  BY <1>1, <1>2 DEF SyncTypeOK, TypeOK, vars, tableVars, Hears
<1>4. EventsFilled' /\ StartedOnce'
  BY <1>1 DEF EventsFilled, StartedOnce, StartOf
<1>5. RowsFromStarts' /\ InHand'
  BY <1>1 DEF RowsFromStarts, InHand, StartOf, Queued, Status, vars, tableVars
<1>6. QED
  BY <1>3, <1>4, <1>5

\* A lookup finds a session that exists, or none.
LEMMA LookupSound ==
  ASSUME SyncTypeOK, NEW e \in Events, NEW s \in Active \cup {NoSession}
  PROVE  /\ Lookup(e, s) \in Lookups
         /\ Lookup(e, s).event = e
         /\ Lookup(e, s).step = "loaded"
         /\ Lookup(e, s).session = s
         /\ s # NoSession =>
               /\ s \in Sessions /\ Status(s) # "none"
               /\ Lookup(e, s).expiresAt = row[s].expiresAt
               /\ Lookup(e, s).extended = row[s].extended
<1>1. CASE s = NoSession
  BY <1>1 DEF Lookup, Idle, Lookups
<1>2. CASE s \in Active /\ s # NoSession
  <2>1. s \in Sessions /\ row[s] \in Rows /\ Status(s) = "active"
    BY <1>2 DEF Active, SyncTypeOK, TypeOK
  <2>2. row[s].expiresAt \in Nat /\ row[s].extended \in Nat
    BY <2>1 DEF Rows
  <2>3. QED
    BY <1>2, <2>1, <2>2 DEF Lookup, Lookups
<1>3. QED
  BY <1>1, <1>2

\* Loading takes the first queued event in hand; a roll-back drops it.
LEMMA LoadKeepsSync ==
  ASSUME SyncInv, \/ \E e \in Events : LoadActiveSession(e)
                  \/ RollBack
  PROVE  SyncInv'
<1> USE DEF SyncInv
<1>1. /\ UNCHANGED <<vars, event, review, applied, local, answers, dropped>>
      /\ published' \in SUBSET News
  BY DecisionsAreNews DEF LoadActiveSession, RollBack, newsVars, SyncTypeOK
<1> DEFINE Sound(l) ==
             /\ l \in Lookups
             /\ l.step \in {"idle", "loaded"}
             /\ l.step = "loaded" =>
                   /\ l.event \in Events
                   /\ Queued(l.event)
                   /\ \A d \in Events : d < l.event => ~Queued(d)
             /\ l.session # NoSession => Status(l.session) # "none"
<1>2. Sound(applying')
  <2>1. CASE RollBack
    BY <2>1 DEF RollBack, Idle, Lookups
  <2>2. ASSUME NEW e \in Events, LoadActiveSession(e)
        PROVE  Sound(applying')
    <3>1. PICK s \in Active \cup {NoSession} : applying' = Lookup(e, s)
      BY <2>2 DEF LoadActiveSession, Latest
    <3>2. Queued(e) /\ \A d \in Events : d < e => ~Queued(d)
      BY <2>2 DEF LoadActiveSession, Queued, Events
    <3>3. QED
      BY <3>1, <3>2, LookupSound
  <2>3. QED
    BY <2>1, <2>2
<1>3. SyncTypeOK'
  BY <1>1, <1>2 DEF SyncTypeOK, TypeOK, vars, tableVars
<1>4. EventsFilled' /\ StartedOnce'
  BY <1>1 DEF EventsFilled, StartedOnce, StartOf
<1>5. RowsFromStarts'
  BY <1>1 DEF RowsFromStarts, StartOf, Queued, Status, vars, tableVars
<1>6. InHand'
  BY <1>1, <1>2 DEF InHand, Queued, Status, vars, tableVars
<1>7. QED
  BY <1>3, <1>4, <1>5, <1>6

(***************************************************************************)
(* Event e gets its verdict.                                               *)
(***************************************************************************)
Settles(e, v) ==
    /\ event' = [event EXCEPT ![e].state = v]
    /\ v \in {"accepted", "duplicate", "conflicted"}
    /\ \A d \in Events \ {e} : applied'[d] = applied[d]
    /\ applied' \in [Events -> Sessions \cup {NoSession}]
    /\ published' \in SUBSET News
    /\ UNCHANGED <<local, answers, dropped>>

\* A verdict changes the state of one event.
LEMMA SettledEvent ==
  ASSUME SyncTypeOK, NEW e \in Events, NEW v, Settles(e, v)
  PROVE  /\ event' \in [Events -> EventRows]
         /\ event'[e].state = v
         /\ event'[e].type = event[e].type
         /\ event'[e].about = event[e].about
         /\ \A d \in Events \ {e} : event'[d] = event[d]
<1>1. event[e] \in EventRows /\ event \in [Events -> EventRows]
  BY DEF SyncTypeOK
<1>2. PICK r : r = [event[e] EXCEPT !.state = v]
  OBVIOUS
<1>3. /\ r \in EventRows /\ r.state = v /\ r.type = event[e].type
      /\ r.about = event[e].about
  BY <1>1, <1>2 DEF EventRows, EventStates, Settles
<1>4. event' = [event EXCEPT ![e] = r]
  BY <1>2 DEF Settles
<1>5. QED
  BY <1>1, <1>3, <1>4

\* It keeps what is known of the events.
LEMMA SettlingKeepsEvents ==
  ASSUME SyncInv, NEW e \in Events, event[e].state # "none", NEW v,
         Settles(e, v)
  PROVE  EventsFilled' /\ StartedOnce'
<1>1. /\ event'[e].state # "none"
      /\ event'[e].type = event[e].type
      /\ event'[e].about = event[e].about
      /\ \A d \in Events \ {e} :
            event'[d] = event[d] /\ applied'[d] = applied[d]
  BY SettledEvent DEF SyncInv, Settles
<1>2. EventsFilled'
  BY <1>1 DEF SyncInv, EventsFilled
<1>3. StartedOnce'
  BY <1>1 DEF SyncInv, StartedOnce, StartOf
<1>4. QED
  BY <1>2, <1>3

\* Giving the event in hand its verdict keeps the invariant, if no row is
\* removed and no offline session but that of a start event gets one.
LEMMA SettlingKeepsSync ==
  ASSUME SyncInv, applying.step = "loaded", NEW e \in Events,
         e = applying.event, NEW v, Settles(e, v), applying' = Idle,
         UNCHANGED review, TypeOK', RowsStay,
         \A s \in OfflineSessions :
            Status(s) = "none" /\ row'[s].status # "none" => StartOf(e, s)
  PROVE  SyncInv'
<1> USE DEF SyncInv
<1>0. Queued(e)
  BY DEF InHand
<1>1. /\ event' \in [Events -> EventRows]
      /\ event'[e].state \notin {"none", "queued"}
      /\ event'[e].type = event[e].type
      /\ event'[e].about = event[e].about
      /\ \A d \in Events \ {e} : event'[d] = event[d]
  BY SettledEvent DEF Settles
<1>2. SyncTypeOK'
  BY <1>1 DEF SyncTypeOK, Settles, Idle, Lookups
<1>3. EventsFilled' /\ StartedOnce'
  BY <1>0, SettlingKeepsEvents DEF Queued
<1>4. RowsFromStarts'
  <2> SUFFICES ASSUME NEW s \in OfflineSessions, row'[s].status # "none"
               PROVE  \E d \in Events : (StartOf(d, s) /\ ~Queued(d))'
    BY DEF RowsFromStarts, Status
  <2>1. CASE Status(s) = "none"
    BY <1>1, <2>1 DEF StartOf, Queued
  <2>2. CASE Status(s) # "none"
    <3>1. PICK d \in Events : StartOf(d, s) /\ ~Queued(d)
      BY <2>2 DEF RowsFromStarts
    <3>2. d # e
      BY <1>0, <3>1
    <3>3. QED
      BY <1>1, <3>1, <3>2 DEF StartOf, Queued
  <2>3. QED
    BY <2>1, <2>2
<1>5. InHand'
  <2>1. \A a \in Admins : review[a].session \in Sessions \cup {NoSession}
    BY DEF SyncTypeOK, Lookups
  <2>2. \A a \in Admins :
          review[a].session # NoSession => row'[review[a].session].status # "none"
    BY <2>1 DEF InHand, RowsStay
  <2>3. \A a \in Admins : review[a].step # "idle" =>
          /\ review[a].event \in Events
          /\ event'[review[a].event].state \notin {"none", "queued"}
    BY <1>1 DEF InHand
  <2>4. QED
    BY <2>2, <2>3 DEF InHand, Idle, Status
<1>6. QED
  BY <1>2, <1>3, <1>4, <1>5

\* The session of a start event that still waits has no row.
LEMMA WaitingStartIsBlank ==
  ASSUME SyncInv, NEW e \in Events, Queued(e), NEW s, StartOf(e, s)
  PROVE  s \in OfflineSessions /\ s \in Sessions /\ Status(s) = "none"
<1>1. s \in OfflineSessions /\ s \in Sessions
  BY OfflineAssumption DEF SyncInv, EventsFilled, StartOf
<1>2. \A d \in Events : StartOf(d, s) => d = e
  BY <1>1 DEF SyncInv, StartedOnce
<1>3. QED
  BY <1>1, <1>2 DEF SyncInv, RowsFromStarts

\* A start enters the row of its session, running or expired.
LEMMA EnteredRow ==
  ASSUME SyncInv, NEW e \in Events, NEW s, StartOf(e, s), ApplyStart(e)
  PROVE  /\ row' \in [Sessions -> Rows]
         /\ s \in Sessions
         /\ \A t \in Sessions \ {s} : row'[t] = row[t]
         /\ row'[s].status \in {"active", "expired"}
         /\ row'[s].extended = 0
         /\ row'[s].status = "active" =>
               row'[s].expiresAt = row'[s].startedAt + row'[s].planned
         /\ row'[s].planned \in Nat
         /\ applied' = [applied EXCEPT ![e] = s]
         /\ UNCHANGED <<extensionLog, closingLog>>
<1>1. s \in Sessions /\ event[e].about = s
  BY OfflineAssumption DEF SyncInv, EventsFilled, StartOf
<1>2. /\ event[e].occurredAt \in Nat /\ event[e].minutes \in Nat /\ now \in Nat
      /\ row \in [Sessions -> Rows]
  BY DEF SyncInv, SyncTypeOK, EventRows, TypeOK
<1> DEFINE end == event[e].occurredAt + event[e].minutes
           new == [status |-> IF end <= now THEN "expired" ELSE "active",
                   startedAt |-> event[e].occurredAt,
                   expiresAt |-> IF end <= now THEN now ELSE end,
                   planned |-> event[e].minutes, extended |-> 0,
                   priced |-> event[e].minutes, key |-> NoKey]
<1>3. end \in Nat
  BY <1>2
<1>4. new \in Rows
  <2>1. (IF end <= now THEN now ELSE end) \in Nat
    BY <1>2, <1>3
  <2>2. (IF end <= now THEN "expired" ELSE "active") \in Statuses
    BY DEF Statuses, Terminal
  <2>3. QED
    BY <1>2, <2>1, <2>2 DEF Rows
<1>5. row' = [row EXCEPT ![s] = new]
  BY <1>1 DEF ApplyStart, StartStatus
<1>6. row'[s] = new /\ \A t \in Sessions \ {s} : row'[t] = row[t]
  BY <1>1, <1>2, <1>5
<1>7. row'[s].status = "active" =>
          row'[s].expiresAt = row'[s].startedAt + row'[s].planned
  BY <1>6
<1>8. QED
  BY <1>1, <1>2, <1>4, <1>5, <1>6, <1>7 DEF ApplyStart

\* An extension is written to the row that was looked up; its status stays.
LEMMA WrittenExtension ==
  ASSUME SyncTypeOK, NEW l \in Lookups, l.session # NoSession, NEW m \in Nat,
         WriteExtension(l, m)
  PROVE  /\ row' \in [Sessions -> Rows]
         /\ \A t \in Sessions \ {l.session} : row'[t] = row[t]
         /\ row'[l.session].status = row[l.session].status
         /\ row'[l.session].startedAt = row[l.session].startedAt
         /\ row'[l.session].planned = row[l.session].planned
         /\ row'[l.session].expiresAt = l.expiresAt + m
         /\ row'[l.session].extended = l.extended + m
<1>1. PICK s \in Sessions, x \in Nat, y \in Nat :
          s = l.session /\ x = l.expiresAt + m /\ y = l.extended + m
  BY DEF Lookups
<1>2. row \in [Sessions -> Rows] /\ row[s] \in Rows
  BY DEF SyncTypeOK, TypeOK
<1>3. row' = [row EXCEPT ![s] =
                 [row[s] EXCEPT !.expiresAt = x, !.extended = y]]
  BY <1>1, <1>2 DEF WriteExtension
<1>4. PICK r : r = [row[s] EXCEPT !.expiresAt = x, !.extended = y]
  OBVIOUS
<1>5. /\ r \in Rows /\ r.status = row[s].status
      /\ r.startedAt = row[s].startedAt /\ r.planned = row[s].planned
      /\ r.expiresAt = x /\ r.extended = y
  BY <1>2, <1>4 DEF Rows
<1>6. row' = [row EXCEPT ![s] = r]
  BY <1>3, <1>4
<1>7. QED
  BY <1>1, <1>2, <1>5, <1>6

\* The end of a session is written to the row that was looked up.
LEMMA WrittenEnd ==
  ASSUME SyncTypeOK, NEW e \in Events, applying.session # NoSession,
         ApplyEnd(e)
  PROVE  /\ row' \in [Sessions -> Rows]
         /\ \A t \in Sessions \ {applying.session} : row'[t] = row[t]
         /\ row'[applying.session].status \in {"ended", "cancelled"}
         /\ row'[applying.session].extended = row[applying.session].extended
<1>1. PICK s \in Sessions : s = applying.session
  BY DEF SyncTypeOK, Lookups
<1>2. row \in [Sessions -> Rows] /\ row[s] \in Rows
  BY DEF SyncTypeOK, TypeOK
<1>3. PICK to \in {"ended", "cancelled"} :
          row' = [row EXCEPT ![s] = [row[s] EXCEPT !.status = to]]
  BY <1>1 DEF ApplyEnd
<1>4. PICK r : r = [row[s] EXCEPT !.status = to]
  OBVIOUS
<1>5. r \in Rows /\ r.status = to /\ r.extended = row[s].extended
  BY <1>2, <1>4 DEF Rows, Statuses, Terminal
<1>6. row' = [row EXCEPT ![s] = r]
  BY <1>3, <1>4
<1>7. QED
  BY <1>1, <1>2, <1>5, <1>6

(***************************************************************************)
(* The four ways to apply the event in hand, one per decision.             *)
(***************************************************************************)
Starting(e) ==
    /\ event[e].type = "SESSION_STARTED"
    /\ applying.session = NoSession
    /\ ApplyStart(e)
    /\ Settles(e, "accepted")
Extending(e) ==
    /\ event[e].type = "SESSION_EXTENDED"
    /\ applying.session # NoSession
    /\ ApplyExtend(e)
    /\ Settles(e, "accepted")
Ending(e) ==
    /\ event[e].type \in {"SESSION_ENDED", "SESSION_CANCELLED"}
    /\ applying.session # NoSession
    /\ ApplyEnd(e)
    /\ Settles(e, "accepted")
Refusing(e) ==
    /\ \/ /\ event[e].type = "SESSION_STARTED"
          /\ applying.session # NoSession
          /\ Settles(e, "conflicted")
       \/ /\ event[e].type = "SESSION_EXTENDED"
          /\ applying.session = NoSession
          /\ Settles(e, "conflicted")
       \/ /\ event[e].type \in {"SESSION_ENDED", "SESSION_CANCELLED"}
          /\ applying.session = NoSession
          /\ Settles(e, "duplicate")
    /\ UNCHANGED <<tableVars, applied>>

\* resolveOfflineEvent and what follows from it.
LEMMA DecisionCases ==
  ASSUME SyncInv, ApplyOfflineDecision, NEW e \in Events, e = applying.event
  PROVE  Starting(e) \/ Extending(e) \/ Ending(e) \/ Refusing(e)
<1>1. /\ event[e].type \in EventTypes
      /\ applying.step = "loaded"
      /\ applied \in [Events -> Sessions \cup {NoSession}]
      /\ applying.session \in Sessions \cup {NoSession}
      /\ event[e].about \in Sessions
  BY DEF SyncInv, InHand, Queued, EventsFilled, ApplyOfflineDecision,
         SyncTypeOK, Lookups
<1>2. event' = [event EXCEPT ![e].state =
                  Verdict(Decision(event[e].type, applying.session))]
      /\ UNCHANGED <<local, answers, dropped>>
      /\ published' \in SUBSET News
  BY <1>1, DecisionsAreNews
     DEF ApplyOfflineDecision, Finalize, SyncInv, SyncTypeOK
<1>3. CASE event[e].type = "SESSION_STARTED" /\ applying.session = NoSession
  <2>1. Decision(event[e].type, applying.session) = "accept_start"
    BY <1>3 DEF Decision
  <2>2. ApplyStart(e)
    BY <2>1 DEF ApplyOfflineDecision
  <2>3. Settles(e, "accepted")
    BY <1>1, <1>2, <2>1, <2>2 DEF Settles, Verdict, ApplyStart
  <2>4. QED
    BY <1>3, <2>2, <2>3 DEF Starting
<1>4. CASE event[e].type = "SESSION_EXTENDED" /\ applying.session # NoSession
  <2>1. Decision(event[e].type, applying.session) = "accept_extend"
    BY <1>4 DEF Decision
  <2>2. ApplyExtend(e)
    BY <2>1 DEF ApplyOfflineDecision
  <2>3. Settles(e, "accepted")
    BY <1>1, <1>2, <1>4, <2>1, <2>2 DEF Settles, Verdict, ApplyExtend
  <2>4. QED
    BY <1>4, <2>2, <2>3 DEF Extending
<1>5. CASE /\ event[e].type \in {"SESSION_ENDED", "SESSION_CANCELLED"}
           /\ applying.session # NoSession
  <2>1. Decision(event[e].type, applying.session) = "accept_end"
    BY <1>5 DEF Decision
  <2>2. ApplyEnd(e)
    BY <2>1 DEF ApplyOfflineDecision
  <2>3. Settles(e, "accepted")
    BY <1>1, <1>2, <1>5, <2>1, <2>2 DEF Settles, Verdict, ApplyEnd
  <2>4. QED
    BY <1>5, <2>2, <2>3 DEF Ending
<1>6. CASE event[e].type = "SESSION_STARTED" /\ applying.session # NoSession
  <2>1. Decision(event[e].type, applying.session) = "conflict"
    BY <1>6 DEF Decision
  <2>2. UNCHANGED <<tableVars, applied>>
    BY <2>1 DEF ApplyOfflineDecision
  <2>3. QED
    BY <1>1, <1>2, <1>6, <2>1, <2>2 DEF Refusing, Settles, Verdict
<1>7. CASE event[e].type = "SESSION_EXTENDED" /\ applying.session = NoSession
  <2>1. Decision(event[e].type, applying.session) = "conflict"
    BY <1>7 DEF Decision
  <2>2. UNCHANGED <<tableVars, applied>>
    BY <2>1 DEF ApplyOfflineDecision
  <2>3. QED
    BY <1>1, <1>2, <1>7, <2>1, <2>2 DEF Refusing, Settles, Verdict
<1>8. CASE /\ event[e].type \in {"SESSION_ENDED", "SESSION_CANCELLED"}
           /\ applying.session = NoSession
  <2>1. Decision(event[e].type, applying.session) = "duplicate"
    BY <1>8 DEF Decision
  <2>2. UNCHANGED <<tableVars, applied>>
    BY <2>1 DEF ApplyOfflineDecision
  <2>3. QED
    BY <1>1, <1>2, <1>8, <2>1, <2>2 DEF Refusing, Settles, Verdict
<1>9. QED
  BY <1>1, <1>3, <1>4, <1>5, <1>6, <1>7, <1>8 DEF EventTypes

\* Applying the event in hand keeps the invariant.
LEMMA DecisionKeepsSync ==
  ASSUME SyncInv, ApplyOfflineDecision
  PROVE  SyncInv'
<1>1. PICK e \in Events : e = applying.event
  BY DEF SyncInv, InHand, ApplyOfflineDecision
<1>2. /\ applying.step = "loaded" /\ applying' = Idle /\ UNCHANGED review
      /\ UNCHANGED <<unlogged, start, now, crashes>>
  BY DEF ApplyOfflineDecision
<1>3. Queued(e) /\ event[e].minutes \in Nat
  BY <1>1, <1>2 DEF SyncInv, InHand, SyncTypeOK, EventRows
<1>4. SyncTypeOK /\ TypeOK /\ row \in [Sessions -> Rows]
  BY DEF SyncInv, SyncTypeOK, TypeOK
<1>5. ASSUME NEW t \in Sessions, row' \in [Sessions -> Rows],
             \A s \in Sessions \ {t} : row'[s] = row[s],
             row'[t].status # "none", Status(t) # "none" \/ StartOf(e, t),
             extensionLog' \in [Sessions -> Nat],
             closingLog' \in [Sessions -> Nat],
             NEW v, Settles(e, v)
      PROVE  SyncInv'
  <2>1. TypeOK'
    BY <1>2, <1>4, <1>5 DEF TypeOK
  <2>2. RowsStay
    BY <1>5 DEF RowsStay, Status
  <2>3. \A s \in OfflineSessions :
            Status(s) = "none" /\ row'[s].status # "none" => StartOf(e, s)
    BY <1>5, OfflineAssumption DEF Status
  <2>4. QED
    BY <1>1, <1>2, <1>5, <2>1, <2>2, <2>3, SettlingKeepsSync
<1>6. CASE Starting(e)
  <2>1. PICK s : StartOf(e, s)
    BY <1>6 DEF Starting, StartOf
  <2>2. /\ s \in Sessions /\ row' \in [Sessions -> Rows]
        /\ \A t \in Sessions \ {s} : row'[t] = row[t]
        /\ row'[s].status # "none"
        /\ UNCHANGED <<extensionLog, closingLog>>
    BY <1>6, <2>1, EnteredRow DEF Starting
  <2>3. QED
    BY <1>4, <1>5, <1>6, <2>1, <2>2 DEF Starting, TypeOK
<1>7. CASE Extending(e) \/ Ending(e)
  <2>1. PICK s \in Sessions : s = applying.session /\ s # NoSession
    BY <1>4, <1>7 DEF Extending, Ending, SyncTypeOK, Lookups
  <2>2. Status(s) # "none" /\ applying \in Lookups
    BY <1>4, <2>1 DEF SyncInv, InHand, SyncTypeOK
  <2>3. /\ row' \in [Sessions -> Rows]
        /\ \A t \in Sessions \ {s} : row'[t] = row[t]
        /\ row'[s].status # "none"
    <3>1. CASE Extending(e)
      <4>1. WriteExtension(applying, event[e].minutes)
        BY <3>1 DEF Extending, ApplyExtend
      <4>2. row'[s].status = row[s].status
        BY <1>3, <1>4, <2>1, <2>2, <4>1, WrittenExtension
      <4>3. QED
        BY <1>3, <1>4, <2>1, <2>2, <4>1, <4>2, WrittenExtension DEF Status
    <3>2. CASE Ending(e)
      <4>1. ApplyEnd(e)
        BY <3>2 DEF Ending
      <4>2. row'[s].status \in {"ended", "cancelled"}
        BY <1>4, <2>1, <4>1, WrittenEnd
      <4>3. QED
        BY <1>4, <2>1, <4>1, <4>2, WrittenEnd
    <3>3. QED
      BY <1>7, <3>1, <3>2
  <2>4. /\ extensionLog' \in [Sessions -> Nat]
        /\ closingLog' \in [Sessions -> Nat]
    BY <1>3, <1>4, <1>7
       DEF Extending, Ending, ApplyExtend, ApplyEnd, TypeOK
  <2>5. QED
    BY <1>5, <1>7, <2>1, <2>2, <2>3, <2>4 DEF Extending, Ending
<1>8. CASE Refusing(e)
  <2>1. UNCHANGED tableVars
    BY <1>8 DEF Refusing
  <2>2. TypeOK' /\ RowsStay
    BY <1>2, <1>4, <2>1 DEF TypeOK, tableVars, RowsStay, Status
  <2>3. \A s \in OfflineSessions :
            Status(s) = "none" /\ row'[s].status # "none" => StartOf(e, s)
    BY <2>1 DEF tableVars, Status
  <2>4. \E v : Settles(e, v)
    BY <1>8 DEF Refusing
  <2>5. QED
    BY <1>1, <1>2, <2>2, <2>3, <2>4, SettlingKeepsSync
<1>9. QED
  BY <1>1, <1>6, <1>7, <1>8, DecisionCases

(***************************************************************************)
(* The review of conflicts.                                                *)
(***************************************************************************)

\* Taking up a conflict and looking up a session change one administrator's
\* memory.
LEMMA LookIntoKeepsSync ==
  ASSUME SyncInv, NEW a \in Admins, NEW l \in Lookups,
         review' = [review EXCEPT ![a] = l],
         l.event \in Events,
         event[l.event].state \notin {"none", "queued"},
         l.session # NoSession => Status(l.session) # "none",
         UNCHANGED <<vars, event, applying, applied, local, newsVars>>
  PROVE  SyncInv'
<1> USE DEF SyncInv
<1>1. SyncTypeOK'
  BY DEF SyncTypeOK, TypeOK, vars, tableVars, newsVars
<1>2. EventsFilled' /\ StartedOnce'
  BY DEF EventsFilled, StartedOnce, StartOf
<1>3. RowsFromStarts'
  BY DEF RowsFromStarts, StartOf, Queued, Status, vars, tableVars
<1>4. InHand'
  <2>1. \A b \in Admins : review'[b] = IF b = a THEN l ELSE review[b]
    BY DEF SyncTypeOK
  <2>2. QED
    BY <2>1 DEF InHand, Queued, Status, vars, tableVars
<1>5. QED
  BY <1>1, <1>2, <1>3, <1>4

\* Resolving a conflict gives an event that has left the queue another
\* state, and takes no row away nor adds one.
LEMMA ResolveKeepsSync ==
  ASSUME SyncInv, NEW a \in Admins, review[a].step # "idle", NEW e \in Events,
         e = review[a].event, NEW v, Settles(e, v), v # "conflicted",
         review' = [review EXCEPT ![a] = Idle], UNCHANGED applying, TypeOK',
         \A s \in Sessions : row'[s].status = row[s].status
  PROVE  SyncInv'
<1> USE DEF SyncInv
<1>0. event[e].state \notin {"none", "queued"}
  BY DEF InHand
<1>1. /\ event' \in [Events -> EventRows]
      /\ event'[e].state \notin {"none", "queued"}
      /\ event'[e].type = event[e].type
      /\ event'[e].about = event[e].about
      /\ \A d \in Events \ {e} : event'[d] = event[d]
  BY SettledEvent DEF Settles
<1>2. SyncTypeOK'
  BY <1>1 DEF SyncTypeOK, Settles, Idle, Lookups
<1>3. EventsFilled' /\ StartedOnce'
  BY <1>0, SettlingKeepsEvents
<1>4. \A d \in Events :
        /\ event'[d].state = "queued" <=> event[d].state = "queued"
        /\ event'[d].state = "none" <=> event[d].state = "none"
        /\ event'[d].type = event[d].type
        /\ event'[d].about = event[d].about
  BY <1>0, <1>1
<1>5. RowsFromStarts'
  BY <1>4, OfflineAssumption DEF RowsFromStarts, StartOf, Queued, Status
<1>6. InHand'
  <2>1. \A b \in Admins : review'[b] = IF b = a THEN Idle ELSE review[b]
    BY DEF SyncTypeOK
  <2>2. /\ applying.session \in Sessions \cup {NoSession}
        /\ \A b \in Admins : review[b].session \in Sessions \cup {NoSession}
    BY DEF SyncTypeOK, Lookups
  <2>3. QED
    BY <1>4, <2>1, <2>2 DEF InHand, Queued, Status, Idle
<1>7. QED
  BY <1>2, <1>3, <1>5, <1>6

\* What accept_offline writes: an extension of the session that was looked
\* up, or nothing; no status.
LEMMA AcceptedRow ==
  ASSUME SyncInv, NEW a \in Admins, AcceptOffline(a)
  PROVE  /\ row' \in [Sessions -> Rows]
         /\ \A s \in Sessions : row'[s].status = row[s].status
<1>1. row \in [Sessions -> Rows] /\ SyncTypeOK
  BY DEF SyncInv, SyncTypeOK, TypeOK
<1>2. CASE UNCHANGED row
  BY <1>1, <1>2
<1>3. CASE /\ review[a].session # NoSession
           /\ WriteExtension(review[a], event[review[a].event].minutes)
  <2>1. PICK e \in Events, l \in Lookups : e = review[a].event /\ l = review[a]
    BY <1>1 DEF SyncInv, InHand, AcceptOffline, SyncTypeOK
  <2>2. PICK m \in Nat : m = event[e].minutes
    BY <1>1 DEF SyncTypeOK, EventRows
  <2>3. l.session # NoSession /\ WriteExtension(l, m)
    BY <1>3, <2>1, <2>2
  <2>4. l.session \in Sessions
    BY <2>3 DEF Lookups
  <2>5. QED
    BY <1>1, <2>3, <2>4, WrittenExtension
<1>4. QED
  BY <1>2, <1>3 DEF AcceptOffline

\* Every step of an administrator keeps the invariant.
LEMMA ReviewKeepsSync ==
  ASSUME SyncInv, Review
  PROVE  SyncInv'
<1>0. SyncTypeOK /\ TypeOK
  BY DEF SyncInv, SyncTypeOK
<1>1. ASSUME NEW a \in Admins, NEW e \in Events, OpenConflict(a, e)
      PROVE  SyncInv'
  <2>1. PICK l : l = [Idle EXCEPT !.event = e, !.step = "checked"]
    OBVIOUS
  <2>2. l \in Lookups /\ l.event = e /\ l.session = NoSession
    BY <2>1 DEF Idle, Lookups
  <2>3. event[e].state = "conflicted" /\ review' = [review EXCEPT ![a] = l]
    BY <1>1, <2>1 DEF OpenConflict, Conflicts
  <2>4. QED
    BY <1>1, <2>2, <2>3, LookIntoKeepsSync DEF OpenConflict
<1>2. ASSUME NEW a \in Admins, LookupForReview(a)
      PROVE  SyncInv'
  <2>1. PICK e \in Events : /\ e = review[a].event
                            /\ event[e].state \notin {"none", "queued"}
    BY <1>2 DEF LookupForReview, SyncInv, InHand
  <2>2. PICK s \in Active \cup {NoSession} :
            review' = [review EXCEPT ![a] = Lookup(e, s)]
    BY <1>2, <2>1 DEF LookupForReview
  <2>3. PICK l : l = Lookup(e, s)
    OBVIOUS
  <2>4. /\ l \in Lookups /\ l.event = e
        /\ l.session # NoSession => Status(l.session) # "none"
    BY <1>0, <2>3, LookupSound
  <2>5. QED
    BY <1>2, <2>1, <2>2, <2>3, <2>4, LookIntoKeepsSync DEF LookupForReview
<1>3. ASSUME NEW a \in Admins, CloseWithoutSession(a)
      PROVE  SyncInv'
  <2>1. PICK e \in Events : e = review[a].event
    BY <1>3 DEF CloseWithoutSession, SyncInv, InHand
  <2>2. PICK v \in {"accepted", "duplicate"} :
            event' = [event EXCEPT ![e].state = v]
    BY <1>3, <2>1 DEF CloseWithoutSession
  <2>3. Settles(e, v)
    BY <1>0, <1>3, <2>2 DEF Settles, CloseWithoutSession, SyncTypeOK, newsVars
  <2>4. TypeOK' /\ \A s \in Sessions : row'[s].status = row[s].status
    BY <1>0, <1>3 DEF CloseWithoutSession, TypeOK, vars, tableVars
  <2>5. QED
    BY <1>3, <2>1, <2>2, <2>3, <2>4, ResolveKeepsSync
       DEF CloseWithoutSession
<1>4. ASSUME NEW a \in Admins, AcceptOffline(a)
      PROVE  SyncInv'
  <2>1. PICK e \in Events : e = review[a].event
    BY <1>4 DEF AcceptOffline, SyncInv, InHand
  <2>2. review[a].session \in Sessions \cup {NoSession}
    BY <1>0 DEF SyncTypeOK, Lookups
  <2>3. Settles(e, "accepted")
    BY <1>0, <1>4, <2>1, <2>2 DEF Settles, AcceptOffline, SyncTypeOK, newsVars
  <2>4. TypeOK' /\ \A s \in Sessions : row'[s].status = row[s].status
    BY <1>0, <1>4, AcceptedRow DEF AcceptOffline, TypeOK
  <2>5. QED
    BY <1>4, <2>1, <2>3, <2>4, ResolveKeepsSync DEF AcceptOffline
<1>5. QED
  BY <1>1, <1>2, <1>3, <1>4 DEF Review

\* Every step of the agent and of the upload keeps the invariant.
LEMMA ReplayKeepsSync ==
  ASSUME SyncInv, Replay
  PROVE  SyncInv'
<1>0. Minutes \subseteq Nat /\ local \in Sessions \cup {NoSession}
  BY MinutesAssumption DEF SyncInv, SyncTypeOK
<1>1. ASSUME NEW e \in Events, NEW s \in Sessions, NEW m \in Minutes,
             StartOffline(e, s, m)
      PROVE  SyncInv'
  BY <1>0, <1>1, RecordKeepsSync DEF StartOffline, EventTypes
<1>2. ASSUME NEW e \in Events, NEW m \in Minutes, ExtendOffline(e, m)
      PROVE  SyncInv'
  <2>1. PICK s \in Sessions : s = local
    BY <1>0, <1>2 DEF ExtendOffline
  <2>2. Record(e, "SESSION_EXTENDED", s, m) /\ UNCHANGED local
    BY <1>2, <2>1 DEF ExtendOffline
  <2>3. QED
    BY <1>0, <2>2, RecordKeepsSync DEF EventTypes
<1>3. ASSUME NEW e \in Events, NEW type \in EventTypes, EndOffline(e, type)
      PROVE  SyncInv'
  <2>1. PICK s \in Sessions : s = local
    BY <1>0, <1>3 DEF EndOffline
  <2>2. /\ Record(e, type, s, 0) /\ local' = NoSession
        /\ type # "SESSION_STARTED"
    BY <1>3, <2>1 DEF EndOffline
  <2>3. QED
    BY <2>2, RecordKeepsSync
<1>4. CASE \/ \E s \in Sessions : HearActive(s)
           \/ \E s \in Sessions : HearClosed(s)
           \/ HearEndElsewhere
           \/ \E s \in Sessions \cup {NoSession} : AskBootstrap(s)
           \/ \E s \in Sessions \cup {NoSession} : TakeBootstrap(s)
  BY <1>4, HearingCases, HearKeepsSync
<1>5. CASE (\E e \in Events : LoadActiveSession(e)) \/ RollBack
  BY <1>5, LoadKeepsSync
<1>6. CASE ApplyOfflineDecision
  BY <1>6, DecisionKeepsSync
<1>7. QED
  BY <1>1, <1>2, <1>3, <1>4, <1>5, <1>6 DEF Replay

\* The invariant is inductive.
LEMMA SyncStepInv == SyncInv /\ [SyncNext]_allVars => SyncInv'
<1> SUFFICES ASSUME SyncInv, [SyncNext]_allVars PROVE SyncInv'
  OBVIOUS
<1>1. TypeOK
  BY DEF SyncInv, SyncTypeOK
<1>2. CASE Next /\ PublishChanges
  <2>1. /\ published' \in SUBSET News
        /\ UNCHANGED <<event, applying, review, applied, local, answers, dropped>>
    BY <1>2, ChangesAreNews DEF PublishChanges, SyncInv
  <2>2. QED
    BY <1>1, <1>2, <2>1, StepType, ServerKeepsRows, ServerKeepsSync
<1>3. CASE Replay \/ Review
  BY <1>3, ReplayKeepsSync, ReviewKeepsSync
<1>4. CASE UNCHANGED allVars
  <2>1. /\ UNCHANGED vars
        /\ published' \in SUBSET News
        /\ UNCHANGED <<event, applying, review, applied, local, answers, dropped>>
    BY <1>4 DEF allVars, syncVars, newsVars, SyncInv, SyncTypeOK
  <2>2. QED
    BY <1>1, <2>1, StepType, ServerKeepsRows, ServerKeepsSync
<1>5. QED
  BY <1>2, <1>3, <1>4 DEF SyncNext

\* With everything going on at once, offline events and their review
\* included, every reachable state is well typed and every event, lookup and
\* offline row has a history.
THEOREM SyncInvariantCorrect == SyncSpec => []SyncInv
  BY SyncInitInv, SyncStepInv, PTL DEF SyncSpec

\* No step, of whoever, leads from a closed session to an open one.
LEMMA StaysClosed ==
  ASSUME SyncInv, [SyncNext]_allVars, NEW s \in Sessions,
         Status(s) \in Terminal
  PROVE  row'[s].status \in Terminal
<1>0. SyncTypeOK /\ TypeOK
  BY DEF SyncInv, SyncTypeOK
<1>1. CASE Next \/ UNCHANGED vars
  BY <1>0, <1>1, StepKeepsClosed DEF Status
<1>2. CASE UNCHANGED row
  BY <1>2 DEF Status
<1>3. CASE ApplyOfflineDecision
  <2>1. PICK e \in Events : e = applying.event /\ Queued(e)
    BY <1>3 DEF SyncInv, InHand, ApplyOfflineDecision
  <2>2. CASE Starting(e)
    <3>1. PICK t : StartOf(e, t)
      BY <2>2 DEF Starting, StartOf
    <3>2. t # s
      BY <2>1, <3>1, WaitingStartIsBlank DEF Terminal
    <3>3. QED
      BY <2>2, <3>1, <3>2, EnteredRow DEF Starting, Status
  <2>3. CASE Extending(e)
    <3>1. WriteExtension(applying, event[e].minutes)
      BY <2>3 DEF Extending, ApplyExtend
    <3>2. event[e].minutes \in Nat /\ applying \in Lookups
      BY <1>0 DEF SyncTypeOK, EventRows
    <3>3. row'[s].status = row[s].status
      BY <1>0, <2>3, <3>1, <3>2, WrittenExtension DEF Extending
    <3>4. QED
      BY <3>3 DEF Status
  <2>4. CASE Ending(e)
    BY <1>0, <2>4, WrittenEnd DEF Ending, Status, Terminal
  <2>5. CASE Refusing(e)
    BY <2>5 DEF Refusing, tableVars, Status
  <2>6. QED
    BY <1>3, <2>1, <2>2, <2>3, <2>4, <2>5, DecisionCases
<1>4. ASSUME NEW a \in Admins, AcceptOffline(a)
      PROVE  row'[s].status \in Terminal
  BY <1>4, AcceptedRow DEF Status
<1>5. CASE Replay
  BY <1>2, <1>3, <1>5
     DEF Replay, StartOffline, ExtendOffline, EndOffline, Record, Heard,
         HearActive, HearClosed, HearEndElsewhere, AskBootstrap, TakeBootstrap,
         LoadActiveSession, RollBack, vars, tableVars
<1>6. CASE Review
  BY <1>2, <1>4, <1>6
     DEF Review, OpenConflict, CloseWithoutSession, LookupForReview, vars,
         tableVars
<1>7. QED
  BY <1>1, <1>5, <1>6 DEF SyncNext, allVars

\* Not even a late offline event, applied to a row that was looked up before
\* it was closed, or the acceptance of a conflict, makes a closed session
\* run again (applyAcceptStart, applyAcceptExtend, applyAcceptEnd and the
\* accept_offline resolution).
THEOREM NeverRevived == SyncSpec => NoRevival
<1>1. SyncInv /\ [SyncNext]_allVars
        => [\A s \in Sessions :
              Status(s) \in Terminal => Status(s)' \in Terminal]_vars
  BY StaysClosed DEF Status
<1>2. QED
  BY <1>1, SyncInvariantCorrect, PTL DEF SyncSpec, NoRevival

-----------------------------------------------------------------------------
(***************************************************************************)
(* A PC whose sessions nobody touches at the desk while its events arrive. *)
(*                                                                         *)
(* The agent is in one session at a time, so the queue tells the sessions  *)
(* apart: between the point where a session is open (now, or at a start    *)
(* event that waits) and an event of another session there is an event     *)
(* that leaves it, unless the agent has left it without one because of a   *)
(* message of the server.                                                  *)
(***************************************************************************)

\* Session s is open from place d of the queue on; 0 stands for now.
OpenFrom(d, s) ==
    /\ s \notin dropped
    /\ \/ d = 0 /\ Status(s) = "active"
       \/ d \in Events /\ Queued(d) /\ StartOf(d, s)

Leaves(c, s) == c \in Events /\ Queued(c) /\ EndOf(c, s)

LeftBeforeOthers ==
    \A s \in Sessions : \A d \in Nat : OpenFrom(d, s) =>
        \A e \in Events :
            d < e /\ Queued(e) /\ event[e].about # s =>
                \E c \in Events : d < c /\ c < e /\ Leaves(c, s)

AgentStaysOrLeaves ==
    \A s \in Sessions : \A d \in Nat : OpenFrom(d, s) =>
        local = s \/ \E c \in Events : d < c /\ Leaves(c, s)

\* What was looked up for the event in hand is still true, but for a session
\* that the sweep has closed meanwhile.
LookupCurrent ==
    applying.step = "loaded" =>
        /\ Active \subseteq {applying.session}
        /\ applying.session # NoSession =>
              /\ applying.session \in {event[applying.event].about} \cup dropped
              /\ applying.expiresAt = row[applying.session].expiresAt
              /\ applying.extended = row[applying.session].extended

\* The PC never has two active sessions.
OneActive ==
    \A s, t \in Sessions :
        Status(s) = "active" /\ Status(t) = "active" => s = t

UnattendedInv ==
    /\ LeftBeforeOthers
    /\ AgentStaysOrLeaves
    /\ LookupCurrent
    /\ OneActive
    /\ StartsAccepted
    /\ EventsStayInTheirSession
    /\ BlankUntilStarted
    /\ TimeAddsUp

\* It holds before anything happened.
LEMMA UnattendedInit == SyncInit => UnattendedInv
<1> SUFFICES ASSUME SyncInit PROVE UnattendedInv
  OBVIOUS
<1> USE DEF SyncInit
<1>1. \A s \in Sessions : Status(s) = "none"
  BY DEF Init, NoRow, Status
<1>2. \A e \in Events : event[e].state = "none" /\ event[e].type = "none"
  OBVIOUS
<1>3. LeftBeforeOthers /\ AgentStaysOrLeaves
  BY <1>1, <1>2
     DEF LeftBeforeOthers, AgentStaysOrLeaves, OpenFrom, Queued
<1>4. LookupCurrent
  BY DEF LookupCurrent, Idle
<1>5. OneActive /\ StartsAccepted
  BY <1>1, <1>2 DEF OneActive, StartsAccepted
<1>6. EventsStayInTheirSession
  BY DEF EventsStayInTheirSession
<1>7. BlankUntilStarted /\ TimeAddsUp
  BY InitInv DEF IInv
<1>8. QED
  BY <1>3, <1>4, <1>5, <1>6, <1>7 DEF UnattendedInv

\* The first event of the queue is about the session that is active, unless
\* the agent has dropped that one.
LEMMA FirstIsAboutActive ==
  ASSUME LeftBeforeOthers, NEW e \in Events, Queued(e),
         \A d \in Events : d < e => ~Queued(d),
         NEW s \in Sessions, Status(s) = "active", s \notin dropped
  PROVE  event[e].about = s
<1> SUFFICES ASSUME event[e].about # s PROVE FALSE
  OBVIOUS
<1>1. 0 < e
  BY DEF Events
<1>2. PICK c \in Events : c < e /\ Leaves(c, s)
  BY <1>1 DEF LeftBeforeOthers, OpenFrom
<1>3. QED
  BY <1>2 DEF Leaves

(***************************************************************************)
(* A step of the sweep: statuses change, and nothing becomes active.       *)
(***************************************************************************)
Quiet ==
    /\ StatusOnly
    /\ \A s \in Sessions : row'[s].status = "active" => Status(s) = "active"
    /\ UNCHANGED extensionLog
    /\ UNCHANGED <<event, applying, review, applied, local, dropped>>

\* The sweep and the clock are quiet.
LEMMA SweepIsQuiet ==
  ASSUME SyncInv,
         UNCHANGED <<event, applying, review, applied, local, dropped>>,
         \/ ExpireDueSessions
         \/ \E s \in Sessions : LogExpiry(s)
         \/ Tick
         \/ UNCHANGED vars
  PROVE  Quiet /\ [Next]_vars
<1>1. [Next]_vars
  BY DEF Next
<1>2. TypeOK
  BY DEF SyncInv, SyncTypeOK
<1>3. UNCHANGED row \/ ExpireDueSessions
  BY DEF LogExpiry, Tick, vars, tableVars
<1>4. StatusOnly
  BY <1>2, <1>3, TransitionsChangeStatus
<1>5. \A s \in Sessions : row'[s].status = "active" => Status(s) = "active"
  BY <1>2, <1>3 DEF ExpireDueSessions, Due, Active, Status, TypeOK, Rows
<1>6. UNCHANGED extensionLog
  BY DEF ExpireDueSessions, LogExpiry, Tick, vars, tableVars
<1>7. QED
  BY <1>1, <1>4, <1>5, <1>6 DEF Quiet

\* It keeps the invariant.
LEMMA QuietKeepsUnattended ==
  ASSUME SyncInv, UnattendedInv, Quiet
  PROVE  UnattendedInv'
<1> USE DEF UnattendedInv
<1>0. dropped' = dropped
  BY DEF Quiet
<1>1. \A d \in Nat : \A s \in Sessions : OpenFrom(d, s)' => OpenFrom(d, s)
  BY <1>0 DEF Quiet, OpenFrom, Queued, StartOf, Status
<1>2. \A c : \A s \in Sessions : Leaves(c, s)' <=> Leaves(c, s)
  BY DEF Quiet, Leaves, Queued, EndOf
<1>3. LeftBeforeOthers'
  BY <1>1, <1>2 DEF LeftBeforeOthers, Quiet, Queued
<1>4. AgentStaysOrLeaves'
  BY <1>1, <1>2 DEF AgentStaysOrLeaves, Quiet
<1>5. LookupCurrent'
  <2>1. applying.session \in Sessions \cup {NoSession}
    BY DEF SyncInv, SyncTypeOK, Lookups
  <2>2. Active' \subseteq Active
    BY DEF Quiet, Active, Status
  <2>3. QED
    BY <1>0, <2>1, <2>2 DEF LookupCurrent, Quiet, StatusOnly
<1>6. OneActive'
  BY DEF OneActive, Quiet, Status
<1>7. StartsAccepted' /\ EventsStayInTheirSession'
  BY <1>0 DEF StartsAccepted, EventsStayInTheirSession, Quiet
<1>8. BlankUntilStarted'
  BY DEF BlankUntilStarted, Quiet, StatusOnly, Status
<1>9. TimeAddsUp'
  BY DEF TimeAddsUp, Quiet, StatusOnly, Status, Granted
<1>10. QED
  BY <1>3, <1>4, <1>5, <1>6, <1>7, <1>8, <1>9

\* What recording an event does to the queue.
LEMMA RecordedEvent ==
  ASSUME SyncInv, NEW e \in Events, NEW type \in EventTypes,
         NEW s \in Sessions, NEW m, Record(e, type, s, m)
  PROVE  /\ event[e].state = "none"
         /\ applied[e] = NoSession
         /\ event'[e].state = "queued"
         /\ event'[e].type = type
         /\ event'[e].about = s
         /\ \A d \in Events \ {e} : event'[d] = event[d]
         /\ \A d \in Events : event[d].state # "none" => d < e
         /\ UNCHANGED <<vars, applying, review, applied, dropped>>
<1>1. event[e].state = "none"
  BY DEF Record
<1>2. \A d \in Events : d > e => event[d].state = "none"
  BY <1>1 DEF SyncInv, EventsFilled
<1>3. \A d \in Events : event[d].state # "none" => d < e
  BY <1>1, <1>2 DEF Events
<1>4. event \in [Events -> EventRows]
  BY DEF SyncInv, SyncTypeOK
<1>5. applied[e] = NoSession
  BY <1>1 DEF SyncInv, EventsFilled
<1>6. QED
  BY <1>1, <1>3, <1>4, <1>5 DEF Record, newsVars

(***************************************************************************)
(* The agent records an event of the session it is in, or of one it        *)
(* starts while it is in none.                                             *)
(***************************************************************************)
InOwnSession(type, s) ==
    \/ /\ type = "SESSION_STARTED"
       /\ local = NoSession
       /\ local' = s
       /\ \A d \in Events : event[d].about # s
       /\ s \in OfflineSessions
    \/ /\ type = "SESSION_EXTENDED"
       /\ local = s
       /\ local' = s
    \/ /\ type \in {"SESSION_ENDED", "SESSION_CANCELLED"}
       /\ local = s
       /\ local' = NoSession

\* The queue stays in the order in which sessions were left.
LEMMA RecordKeepsOrder ==
  ASSUME SyncInv, LeftBeforeOthers, AgentStaysOrLeaves,
         NEW e \in Events, NEW type \in EventTypes,
         NEW x \in Sessions, NEW m, Record(e, type, x, m),
         InOwnSession(type, x)
  PROVE  LeftBeforeOthers' /\ AgentStaysOrLeaves'
<1>1. /\ event[e].state = "none"
      /\ event'[e].state = "queued"
      /\ event'[e].type = type
      /\ event'[e].about = x
      /\ \A d \in Events \ {e} : event'[d] = event[d]
      /\ \A d \in Events : event[d].state # "none" => d < e
      /\ UNCHANGED row
      /\ dropped' = dropped
  BY RecordedEvent DEF vars, tableVars
<1>2. e \in Nat /\ 0 < e
  BY DEF Events
\* Sessions other than the new event's have been left before.
<1>3. ASSUME NEW s \in Sessions, NEW d \in Nat, OpenFrom(d, s), s # x
      PROVE  \E c \in Events : d < c /\ c < e /\ Leaves(c, s)
  <2>1. local # s
    BY <1>3, NoSessionAssumption DEF InOwnSession
  <2>2. PICK c \in Events : d < c /\ Leaves(c, s)
    BY <1>3, <2>1 DEF AgentStaysOrLeaves
  <2>3. c < e
    BY <1>1, <2>2 DEF Leaves, Queued
  <2>4. QED
    BY <2>2, <2>3
\* Those who leave stay in the queue.
<1>4. \A c \in Events : \A s \in Sessions : Leaves(c, s) => Leaves(c, s)'
  BY <1>1 DEF Leaves, Queued, EndOf
\* A place where a session is open is an old one or the new start.
<1>5. ASSUME NEW s \in Sessions, NEW d \in Nat, OpenFrom(d, s)'
      PROVE  \/ d = e /\ s = x /\ local' = x
             \/ d < e /\ OpenFrom(d, s)
  <2>1. CASE d = 0
    BY <1>1, <1>2, <1>5, <2>1 DEF OpenFrom, Status, Events
  <2>2. CASE d # 0 /\ d # e
    BY <1>1, <1>5, <2>2 DEF OpenFrom, Queued, StartOf
  <2>3. CASE d = e
    BY <1>1, <1>2, <1>5, <2>3 DEF OpenFrom, StartOf, InOwnSession
  <2>4. QED
    BY <2>1, <2>2, <2>3
<1>6. LeftBeforeOthers'
  <2> SUFFICES ASSUME NEW s \in Sessions, NEW d \in Nat, OpenFrom(d, s)',
                      NEW f \in Events, d < f, Queued(f)',
                      event'[f].about # s
               PROVE  \E c \in Events : d < c /\ c < f /\ Leaves(c, s)'
    BY DEF LeftBeforeOthers
  <2>1. f = e \/ (Queued(f) /\ f < e /\ event[f].about # s)
    BY <1>1 DEF Queued
  <2>2. f \in Nat
    BY DEF Events
  <2>3. d < e /\ OpenFrom(d, s)
    BY <1>1, <1>2, <1>5, <2>1, <2>2
  <2>4. CASE f = e
    BY <1>1, <1>3, <1>4, <2>3, <2>4
  <2>5. CASE Queued(f) /\ event[f].about # s
    BY <1>4, <2>3, <2>5 DEF LeftBeforeOthers
  <2>6. QED
    BY <2>1, <2>4, <2>5
<1>7. AgentStaysOrLeaves'
  <2> SUFFICES ASSUME NEW s \in Sessions, NEW d \in Nat, OpenFrom(d, s)',
                      local' # s
               PROVE  \E c \in Events : d < c /\ Leaves(c, s)'
    BY DEF AgentStaysOrLeaves
  <2>1. CASE s # x
    BY <1>3, <1>4, <1>5, <2>1
  <2>2. CASE s = x
    <3>1. type \in {"SESSION_ENDED", "SESSION_CANCELLED"}
      BY <2>2 DEF InOwnSession
    <3>2. Leaves(e, s)'
      BY <1>1, <2>2, <3>1 DEF Leaves, Queued, EndOf
    <3>3. d < e
      BY <1>5, <2>2
    <3>4. QED
      BY <3>2, <3>3
  <2>3. QED
    BY <2>1, <2>2
<1>8. QED
  BY <1>6, <1>7

\* Recording an event keeps the invariant.
LEMMA RecordKeepsUnattended ==
  ASSUME SyncInv, UnattendedInv, NEW e \in Events, NEW type \in EventTypes,
         NEW x \in Sessions, NEW m, Record(e, type, x, m),
         InOwnSession(type, x)
  PROVE  UnattendedInv'
<1> USE DEF UnattendedInv
<1>1. /\ event[e].state = "none" /\ applied[e] = NoSession
      /\ event'[e].state = "queued"
      /\ \A d \in Events \ {e} : event'[d] = event[d]
      /\ UNCHANGED <<row, extensionLog, applying, applied>>
      /\ dropped' = dropped
  BY RecordedEvent DEF vars, tableVars
<1>2. LeftBeforeOthers' /\ AgentStaysOrLeaves'
  BY RecordKeepsOrder
<1>3. LookupCurrent'
  <2>1. applying.step = "loaded" =>
            applying.event \in Events /\ applying.event # e
    BY <1>1 DEF SyncInv, InHand, Queued
  <2>2. QED
    BY <1>1, <2>1 DEF LookupCurrent, Active, Status
<1>4. OneActive' /\ BlankUntilStarted'
  BY <1>1 DEF OneActive, BlankUntilStarted, Status
<1>5. TimeAddsUp'
  BY <1>1 DEF TimeAddsUp, Status, Granted
<1>6. StartsAccepted' /\ EventsStayInTheirSession'
  BY <1>1 DEF StartsAccepted, EventsStayInTheirSession
<1>7. QED
  BY <1>2, <1>3, <1>4, <1>5, <1>6

\* A session is only taken over when none other is open, and one that is left
\* is closed or dropped.
LEMMA HearKeepsUnattended ==
  ASSUME SyncInv, UnattendedInv, Hears
  PROVE  UnattendedInv'
<1> USE DEF UnattendedInv
<1>1. UNCHANGED <<row, extensionLog, event, applying, applied>>
  BY DEF Hears, Heard, vars, tableVars
<1>2. dropped \subseteq dropped'
  BY <1>1 DEF Hears, Adopt, Leave
<1>3. \A d \in Nat : \A s \in Sessions : OpenFrom(d, s)' => OpenFrom(d, s)
  BY <1>1, <1>2 DEF OpenFrom, Queued, StartOf, Status
<1>4. \A c : \A s \in Sessions : Leaves(c, s)' <=> Leaves(c, s)
  BY <1>1 DEF Leaves, Queued, EndOf
<1>5. LeftBeforeOthers'
  BY <1>1, <1>3, <1>4 DEF LeftBeforeOthers, Queued
<1>6. AgentStaysOrLeaves'
  <2> SUFFICES ASSUME NEW s \in Sessions, NEW d \in Nat, OpenFrom(d, s)'
               PROVE  local' = s \/ \E c \in Events : d < c /\ Leaves(c, s)
    BY <1>4 DEF AgentStaysOrLeaves
  <2>1. CASE local # s
    BY <1>3, <2>1 DEF AgentStaysOrLeaves
  <2>2. CASE local = s /\ local' # s
    <3>1. Leave
      BY <2>2, NoSessionAssumption DEF Hears, Adopt
    <3>2. CASE Status(s) \in Terminal
      <4>1. d \in Events /\ Queued(d) /\ StartOf(d, s)
        BY <1>3, <3>2 DEF OpenFrom, Terminal
      <4>2. Status(s) = "none"
        BY <4>1, WaitingStartIsBlank
      <4>3. QED
        BY <3>2, <4>2 DEF Terminal
    <3>3. CASE Status(s) \notin Terminal
      <4>1. s \in dropped'
        BY <2>2, <3>1, <3>3 DEF Leave
      <4>2. QED
        BY <4>1 DEF OpenFrom
    <3>4. QED
      BY <3>2, <3>3
  <2>3. QED
    BY <2>1, <2>2
<1>7. LookupCurrent' /\ OneActive' /\ BlankUntilStarted'
  BY <1>1, <1>2
     DEF LookupCurrent, Active, OneActive, BlankUntilStarted, Status
<1>8. TimeAddsUp'
  BY <1>1 DEF TimeAddsUp, Status, Granted
<1>9. StartsAccepted' /\ EventsStayInTheirSession'
  BY <1>1, <1>2 DEF StartsAccepted, EventsStayInTheirSession
<1>10. QED
  BY <1>5, <1>6, <1>7, <1>8, <1>9

\* Loading looks up the session the event is about, or one that was dropped.
LEMMA LoadKeepsUnattended ==
  ASSUME SyncInv, UnattendedInv,
         \/ \E e \in Events : LoadActiveSession(e)
         \/ RollBack
  PROVE  UnattendedInv'
<1> USE DEF UnattendedInv
<1>1. /\ UNCHANGED <<row, extensionLog, event, applied, local>>
      /\ dropped' = dropped
  BY DEF LoadActiveSession, RollBack, vars, tableVars, newsVars
<1>2. \A d \in Nat : \A s \in Sessions : OpenFrom(d, s)' <=> OpenFrom(d, s)
  BY <1>1 DEF OpenFrom, Queued, StartOf, Status
<1>3. \A c : \A s \in Sessions : Leaves(c, s)' <=> Leaves(c, s)
  BY <1>1 DEF Leaves, Queued, EndOf
<1>4. LeftBeforeOthers' /\ AgentStaysOrLeaves'
  BY <1>1, <1>2, <1>3 DEF LeftBeforeOthers, AgentStaysOrLeaves, Queued
<1>5. LookupCurrent'
  <2>1. CASE RollBack
    BY <2>1 DEF RollBack, Idle, LookupCurrent
  <2>2. ASSUME NEW e \in Events, LoadActiveSession(e)
        PROVE  LookupCurrent'
    <3>1. PICK s \in Active \cup {NoSession} :
              /\ applying' = Lookup(e, s)
              /\ s = NoSession => Active = {}
      BY <2>2, NoSessionAssumption DEF LoadActiveSession, Latest, Active
    <3>2. Queued(e) /\ \A d \in Events : d < e => ~Queued(d)
      BY <2>2 DEF LoadActiveSession, Queued, Events
    <3>3. s # NoSession => s \in Sessions /\ Status(s) = "active"
      BY DEF Active
    <3>4. /\ s # NoSession => event[e].about = s \/ s \in dropped
          /\ Active \subseteq {s}
      BY <3>1, <3>2, <3>3, FirstIsAboutActive DEF OneActive, Active
    <3>5. /\ applying'.event = e /\ applying'.session = s
          /\ s # NoSession => /\ applying'.expiresAt = row[s].expiresAt
                              /\ applying'.extended = row[s].extended
      BY <3>1, LookupSound DEF SyncInv
    <3>6. QED
      BY <1>1, <3>1, <3>4, <3>5 DEF LookupCurrent, Active, Status
  <2>3. QED
    BY <2>1, <2>2
<1>6. OneActive' /\ BlankUntilStarted'
  BY <1>1 DEF OneActive, BlankUntilStarted, Status
<1>7. TimeAddsUp'
  BY <1>1 DEF TimeAddsUp, Status, Granted
<1>8. StartsAccepted' /\ EventsStayInTheirSession'
  BY <1>1 DEF StartsAccepted, EventsStayInTheirSession
<1>9. QED
  BY <1>4, <1>5, <1>6, <1>7, <1>8

\* Taking the first event out of the queue keeps its order, if it ended no
\* session that stays active, and nothing becomes active but what it starts.
LEMMA SettlingKeepsOrder ==
  ASSUME SyncInv, LeftBeforeOthers, AgentStaysOrLeaves,
         NEW e \in Events, Queued(e), \A d \in Events : d < e => ~Queued(d),
         NEW v, Settles(e, v),
         \A s \in Sessions :
            row'[s].status = "active" =>
                \/ Status(s) = "active" /\ ~EndOf(e, s)
                \/ StartOf(e, s)
  PROVE  LeftBeforeOthers' /\ AgentStaysOrLeaves'
<1>1. /\ event'[e].state \notin {"none", "queued"}
      /\ event'[e].type = event[e].type
      /\ event'[e].about = event[e].about
      /\ \A d \in Events \ {e} : event'[d] = event[d]
      /\ local' = local
      /\ dropped' = dropped
  BY SettledEvent DEF SyncInv, Settles
<1>2. e \in Nat /\ 0 < e /\ \A d \in Events : d \in Nat
  BY DEF Events
\* Who leaves goes on to, unless it is the event that is taken out.
<1>3. ASSUME NEW c \in Events, NEW s \in Sessions, Leaves(c, s), c # e
      PROVE  Leaves(c, s)'
  BY <1>1, <1>3 DEF Leaves, Queued, EndOf
\* A session is open from where it was, or from its start taken out.
<1>4. ASSUME NEW s \in Sessions, NEW d \in Nat, OpenFrom(d, s)'
      PROVE  \E b \in Nat : /\ OpenFrom(b, s)
                            /\ d <= b
                            /\ \A c \in Events :
                                  Queued(c) /\ c > d /\ c # e => c > b
                            /\ ~(b < e /\ EndOf(e, s))
  <2>1. CASE d # 0
    <3>1. d \in Events /\ d # e /\ OpenFrom(d, s)
      BY <1>1, <1>4, <2>1 DEF OpenFrom, Queued, StartOf
    <3>2. ~(d < e)
      BY <2>1, <3>1 DEF OpenFrom
    <3>3. QED
      BY <3>1, <3>2
  <2>2. CASE d = 0 /\ Status(s) = "active" /\ ~EndOf(e, s)
    BY <1>1, <1>4, <2>2 DEF OpenFrom
  <2>3. CASE d = 0 /\ StartOf(e, s)
    <3>1. OpenFrom(e, s)
      BY <1>1, <1>4, <2>3 DEF OpenFrom
    <3>2. \A c \in Events : Queued(c) /\ c # e => c > e
      BY <1>2
    <3>3. e \in Nat /\ d <= e /\ ~(e < e)
      BY <2>3 DEF Events
    <3>4. QED
      BY <3>1, <3>2, <3>3
  <2>4. QED
    <3>1. d = 0 => row'[s].status = "active"
      BY <1>4 DEF OpenFrom, Status, Events
    <3>2. QED
      BY <2>1, <2>2, <2>3, <3>1
<1>5. LeftBeforeOthers'
  <2> SUFFICES ASSUME NEW s \in Sessions, NEW d \in Nat, OpenFrom(d, s)',
                      NEW f \in Events, d < f, Queued(f)',
                      event'[f].about # s
               PROVE  \E c \in Events : d < c /\ c < f /\ Leaves(c, s)'
    BY DEF LeftBeforeOthers
  <2>1. f # e /\ Queued(f) /\ event[f].about # s
    BY <1>1 DEF Queued
  <2>2. PICK b \in Nat : /\ OpenFrom(b, s) /\ d <= b /\ f > b
                         /\ ~(b < e /\ EndOf(e, s))
    BY <1>4, <2>1
  <2>3. PICK c \in Events : b < c /\ c < f /\ Leaves(c, s)
    BY <2>1, <2>2 DEF LeftBeforeOthers
  <2>4. c # e
    BY <2>2, <2>3 DEF Leaves
  <2>5. d < c
    BY <1>2, <2>2, <2>3
  <2>6. QED
    BY <1>3, <2>3, <2>4, <2>5
<1>6. AgentStaysOrLeaves'
  <2> SUFFICES ASSUME NEW s \in Sessions, NEW d \in Nat, OpenFrom(d, s)',
                      local # s
               PROVE  \E c \in Events : d < c /\ Leaves(c, s)'
    BY <1>1 DEF AgentStaysOrLeaves
  <2>1. PICK b \in Nat : /\ OpenFrom(b, s) /\ d <= b
                         /\ ~(b < e /\ EndOf(e, s))
    BY <1>4
  <2>2. PICK c \in Events : b < c /\ Leaves(c, s)
    BY <2>1 DEF AgentStaysOrLeaves
  <2>3. c # e
    BY <2>1, <2>2 DEF Leaves
  <2>4. d < c
    BY <1>2, <2>1, <2>2
  <2>5. QED
    BY <1>3, <2>2, <2>3, <2>4
<1>7. QED
  BY <1>5, <1>6

\* The verdict and the session the event in hand is applied to.
LEMMA DecisionKeepsHistory ==
  ASSUME SyncInv, UnattendedInv, NEW e \in Events, e = applying.event,
         Queued(e), applying.step = "loaded",
         Starting(e) \/ Extending(e) \/ Ending(e) \/ Refusing(e)
  PROVE  StartsAccepted' /\ EventsStayInTheirSession'
<1> USE DEF UnattendedInv
<1>1. PICK v : Settles(e, v)
  BY DEF Starting, Extending, Ending, Refusing
<1>2. /\ event'[e].state = v
      /\ event'[e].type = event[e].type
      /\ event'[e].about = event[e].about
      /\ \A d \in Events \ {e} :
            event'[d] = event[d] /\ applied'[d] = applied[d]
      /\ dropped' = dropped
  BY <1>1, SettledEvent DEF SyncInv, Settles
<1>3. applied \in [Events -> Sessions \cup {NoSession}]
  BY DEF SyncInv, SyncTypeOK
<1>4. /\ applied'[e] \in {NoSession, event[e].about} \cup dropped
      /\ event[e].type = "SESSION_STARTED" /\ dropped = {} => v = "accepted"
  <2>1. CASE Starting(e)
    <3>1. applied'[e] = event[e].about
      BY <1>3, <2>1 DEF Starting, ApplyStart
    <3>2. event'[e].state = "accepted"
      BY <2>1, SettledEvent DEF Starting, SyncInv
    <3>3. QED
      BY <1>2, <3>1, <3>2
  <2>2. CASE Extending(e) \/ Ending(e)
    <3>1. applied'[e] = applying.session
      BY <1>3, <2>2 DEF Extending, Ending, ApplyExtend, ApplyEnd
    <3>2. applying.session \in {event[e].about} \cup dropped
      BY <2>2 DEF Extending, Ending, LookupCurrent
    <3>3. event[e].type # "SESSION_STARTED"
      BY <2>2 DEF Extending, Ending
    <3>4. QED
      BY <3>1, <3>2, <3>3
  <2>3. CASE Refusing(e)
    <3>1. ~(event[e].type = "SESSION_STARTED" /\ dropped = {})
      <4> SUFFICES ASSUME event[e].type = "SESSION_STARTED", dropped = {}
                   PROVE  FALSE
        OBVIOUS
      <4>1. applying.session # NoSession
        BY <2>3 DEF Refusing
      <4>2. StartOf(e, applying.session)
        BY <4>1 DEF LookupCurrent, StartOf
      <4>3. Status(applying.session) = "none"
        BY <4>2, WaitingStartIsBlank
      <4>4. QED
        BY <4>1, <4>3 DEF SyncInv, InHand
    <3>2. applied'[e] = applied[e]
      BY <2>3 DEF Refusing
    <3>3. QED
      BY <3>1, <3>2 DEF EventsStayInTheirSession
  <2>4. QED
    BY <2>1, <2>2, <2>3
<1>5. StartsAccepted'
  BY <1>2, <1>4 DEF StartsAccepted
<1>6. EventsStayInTheirSession'
  BY <1>2, <1>4 DEF EventsStayInTheirSession
<1>7. QED
  BY <1>5, <1>6

\* The amounts of time after the event in hand was applied.
LEMMA DecisionKeepsTime ==
  ASSUME SyncInv, UnattendedInv, NEW e \in Events, e = applying.event,
         Queued(e), applying.step = "loaded",
         Starting(e) \/ Extending(e) \/ Ending(e) \/ Refusing(e)
  PROVE  BlankUntilStarted' /\ TimeAddsUp'
<1> USE DEF UnattendedInv
<1> DEFINE Adds(s) ==
             /\ row'[s].status # "none"
             /\ row'[s].extended = extensionLog'[s]
             /\ row'[s].status \in {"active", "paused"} =>
                  row'[s].expiresAt =
                    row'[s].startedAt + (row'[s].planned + row'[s].extended)
<1>0. /\ SyncTypeOK /\ row \in [Sessions -> Rows]
      /\ extensionLog \in [Sessions -> Nat]
      /\ event[e].minutes \in Nat
  BY DEF SyncInv, SyncTypeOK, TypeOK, EventRows
<1>1. ASSUME NEW s \in Sessions,
             \A t \in Sessions \ {s} :
                row'[t] = row[t] /\ extensionLog'[t] = extensionLog[t],
             Adds(s)
      PROVE  BlankUntilStarted' /\ TimeAddsUp'
  <2>1. BlankUntilStarted'
    BY <1>1 DEF BlankUntilStarted, Status
  <2>2. TimeAddsUp'
    BY <1>1 DEF TimeAddsUp, Status, Granted
  <2>3. QED
    BY <2>1, <2>2
<1>2. CASE Starting(e)
  <2>1. PICK s : StartOf(e, s)
    BY <1>2 DEF Starting, StartOf
  <2>2. /\ s \in Sessions /\ UNCHANGED extensionLog
        /\ \A t \in Sessions \ {s} : row'[t] = row[t]
        /\ row'[s].status \in {"active", "expired"}
        /\ row'[s].extended = 0 /\ row'[s].planned \in Nat
        /\ row'[s].status = "active" =>
               row'[s].expiresAt = row'[s].startedAt + row'[s].planned
    BY <1>2, <2>1, EnteredRow DEF Starting
  <2>3. row[s] = NoRow
    BY <2>1, <2>2, WaitingStartIsBlank DEF BlankUntilStarted
  <2>4. extensionLog[s] = 0
    BY <2>2, <2>3 DEF TimeAddsUp, NoRow
  <2>5. row'[s].planned + row'[s].extended = row'[s].planned
    BY <2>2
  <2>6. Adds(s)
    BY <2>2, <2>4, <2>5
  <2>7. QED
    BY <1>1, <2>2, <2>6
<1>3. CASE Extending(e)
  <2>1. PICK s \in Sessions : s = applying.session /\ s # NoSession
    BY <1>0, <1>3 DEF Extending, SyncTypeOK, Lookups
  <2>2. /\ applying.expiresAt = row[s].expiresAt
        /\ applying.extended = row[s].extended
        /\ Status(s) # "none" /\ applying \in Lookups
    BY <1>0, <2>1 DEF LookupCurrent, SyncInv, InHand, SyncTypeOK
  <2>3. PICK m \in Nat : m = event[e].minutes
    BY <1>0
  <2>4. WriteExtension(applying, m)
    BY <1>3, <2>3 DEF Extending, ApplyExtend
  <2>5. /\ \A t \in Sessions \ {s} : row'[t] = row[t]
        /\ row'[s].status = row[s].status
        /\ row'[s].startedAt = row[s].startedAt
        /\ row'[s].planned = row[s].planned
        /\ row'[s].expiresAt = row[s].expiresAt + m
        /\ row'[s].extended = row[s].extended + m
    BY <1>0, <2>1, <2>2, <2>4, WrittenExtension
  <2>6. /\ extensionLog'[s] = extensionLog[s] + m
        /\ \A t \in Sessions \ {s} : extensionLog'[t] = extensionLog[t]
    BY <1>0, <1>3, <2>1, <2>3 DEF Extending, ApplyExtend
  <2>7. /\ row[s].expiresAt \in Nat /\ row[s].startedAt \in Nat
        /\ row[s].planned \in Nat /\ row[s].extended \in Nat
    BY <1>0 DEF Rows
  <2>8. Adds(s)
    <3>1. row'[s].extended = extensionLog'[s]
      BY <2>5, <2>6 DEF TimeAddsUp
    <3>2. row[s].status \in {"active", "paused"} =>
              row[s].expiresAt =
                  row[s].startedAt + (row[s].planned + row[s].extended)
      BY DEF TimeAddsUp, Status, Granted
    <3>3. QED
      BY <2>2, <2>5, <2>7, <3>1, <3>2 DEF Status
  <2>9. QED
    BY <1>1, <2>5, <2>6, <2>8
<1>4. CASE Ending(e)
  <2>1. PICK s \in Sessions : s = applying.session /\ s # NoSession
    BY <1>0, <1>4 DEF Ending, SyncTypeOK, Lookups
  <2>2. ApplyEnd(e) /\ UNCHANGED extensionLog
    BY <1>4 DEF Ending, ApplyEnd
  <2>3. /\ \A t \in Sessions \ {s} : row'[t] = row[t]
        /\ row'[s].status \in {"ended", "cancelled"}
        /\ row'[s].extended = row[s].extended
    BY <1>0, <2>1, <2>2, WrittenEnd
  <2>4. Adds(s)
    BY <2>2, <2>3 DEF TimeAddsUp
  <2>5. QED
    BY <1>1, <2>2, <2>3, <2>4
<1>5. CASE Refusing(e)
  <2>1. UNCHANGED <<row, extensionLog>>
    BY <1>5 DEF Refusing, tableVars
  <2>2. QED
    BY <2>1 DEF BlankUntilStarted, TimeAddsUp, Status, Granted
<1>6. QED
  BY <1>2, <1>3, <1>4, <1>5

\* What is active after the event in hand was applied was active before and
\* has not been ended, or has just been started.
LEMMA DecisionActivates ==
  ASSUME SyncInv, UnattendedInv, NEW e \in Events, e = applying.event,
         Queued(e), applying.step = "loaded",
         Starting(e) \/ Extending(e) \/ Ending(e) \/ Refusing(e),
         NEW s \in Sessions, row'[s].status = "active"
  PROVE  \/ Status(s) = "active" /\ ~EndOf(e, s) /\ ~Starting(e)
         \/ Starting(e) /\ StartOf(e, s)
<1> USE DEF UnattendedInv
<1>0. SyncTypeOK /\ applying \in Lookups /\ event[e].minutes \in Nat
  BY DEF SyncInv, SyncTypeOK, EventRows
<1>1. CASE Starting(e)
  <2>1. PICK t : StartOf(e, t)
    BY <1>1 DEF Starting, StartOf
  <2>2. \A u \in Sessions : Status(u) # "active"
    BY <1>1, NoSessionAssumption DEF Starting, LookupCurrent, Active
  <2>3. \A u \in Sessions \ {t} : row'[u] = row[u]
    BY <1>1, <2>1, EnteredRow DEF Starting
  <2>4. s = t
    BY <2>2, <2>3 DEF Status
  <2>5. QED
    BY <1>1, <2>1, <2>4
<1>2. CASE Extending(e)
  <2>1. WriteExtension(applying, event[e].minutes)
    BY <1>2 DEF Extending, ApplyExtend
  <2>2. row'[s].status = row[s].status
    BY <1>0, <1>2, <2>1, WrittenExtension DEF Extending
  <2>3. ~EndOf(e, s) /\ ~Starting(e)
    BY <1>2 DEF Extending, Starting, EndOf
  <2>4. QED
    BY <2>2, <2>3 DEF Status
<1>3. CASE Ending(e)
  <2>1. /\ applying.session # NoSession /\ ApplyEnd(e)
        /\ Active \subseteq {applying.session}
    BY <1>3 DEF Ending, LookupCurrent
  <2>2. s # applying.session
    BY <1>0, <2>1, WrittenEnd
  <2>3. row'[s] = row[s]
    BY <1>0, <2>1, <2>2, WrittenEnd
  <2>4. s \in Active
    BY <2>3 DEF Active, Status
  <2>5. QED
    BY <2>1, <2>2, <2>4
<1>4. CASE Refusing(e)
  <2>1. Status(s) = "active"
    BY <1>4 DEF Refusing, tableVars, Status
  <2>2. applying.session # NoSession
    BY <2>1, NoSessionAssumption DEF LookupCurrent, Active
  <2>3. event[e].type = "SESSION_STARTED"
    BY <1>4, <2>2 DEF Refusing
  <2>4. ~EndOf(e, s) /\ ~Starting(e)
    BY <2>2, <2>3 DEF EndOf, Starting
  <2>5. QED
    BY <2>1, <2>4
<1>5. QED
  BY <1>1, <1>2, <1>3, <1>4

\* Applying the event in hand keeps the invariant.
LEMMA DecisionKeepsUnattended ==
  ASSUME SyncInv, UnattendedInv, ApplyOfflineDecision
  PROVE  UnattendedInv'
<1> USE DEF UnattendedInv
<1>1. PICK e \in Events : /\ e = applying.event /\ Queued(e)
                          /\ \A d \in Events : d < e => ~Queued(d)
  BY DEF SyncInv, InHand, ApplyOfflineDecision
<1>2. applying.step = "loaded" /\ applying' = Idle
  BY DEF ApplyOfflineDecision
<1>3. Starting(e) \/ Extending(e) \/ Ending(e) \/ Refusing(e)
  BY <1>1, DecisionCases
<1>4. PICK v : Settles(e, v)
  BY <1>3 DEF Starting, Extending, Ending, Refusing
<1>5. \A s \in Sessions : row'[s].status = "active" =>
          \/ Status(s) = "active" /\ ~EndOf(e, s) /\ ~Starting(e)
          \/ Starting(e) /\ StartOf(e, s)
  BY <1>1, <1>2, <1>3, DecisionActivates
<1>6. LeftBeforeOthers' /\ AgentStaysOrLeaves'
  BY <1>1, <1>4, <1>5, SettlingKeepsOrder
<1>7. LookupCurrent'
  BY <1>2 DEF LookupCurrent, Idle
<1>8. OneActive'
  BY <1>5 DEF OneActive, StartOf, Status
<1>9. StartsAccepted' /\ EventsStayInTheirSession'
  BY <1>1, <1>2, <1>3, DecisionKeepsHistory
<1>10. BlankUntilStarted' /\ TimeAddsUp'
  BY <1>1, <1>2, <1>3, DecisionKeepsTime
<1>11. QED
  BY <1>6, <1>7, <1>8, <1>9, <1>10

\* The invariant is inductive.
LEMMA UnattendedStepInv ==
  SyncInv /\ UnattendedInv /\ [UnattendedNext]_allVars
    => SyncInv' /\ UnattendedInv'
<1> SUFFICES ASSUME SyncInv, UnattendedInv, [UnattendedNext]_allVars
             PROVE  SyncInv' /\ UnattendedInv'
  OBVIOUS
<1>1. CASE /\ \/ ExpireDueSessions
              \/ \E s \in Sessions : LogExpiry(s)
              \/ Tick
              \/ UNCHANGED vars
           /\ PublishChanges \/ UNCHANGED syncVars
  <2>1. Quiet /\ [Next]_vars
    BY <1>1, SweepIsQuiet DEF PublishChanges, syncVars, newsVars
  <2>2. SyncInv'
    <3>1. /\ published' \in SUBSET News
          /\ UNCHANGED <<event, applying, review, applied, local, answers, dropped>>
      BY <1>1, ChangesAreNews
         DEF PublishChanges, SyncInv, SyncTypeOK, syncVars, newsVars
    <3>2. TypeOK
      BY DEF SyncInv, SyncTypeOK
    <3>3. QED
      BY <2>1, <3>1, <3>2, StepType, ServerKeepsRows, ServerKeepsSync
  <2>3. QED
    BY <2>1, <2>2, QuietKeepsUnattended
<1>2. CASE Replay
  <2>1. SyncInv'
    BY <1>2, ReplayKeepsSync
  <2>2. ASSUME NEW e \in Events, NEW s \in Sessions, NEW m \in Minutes,
               StartOffline(e, s, m)
        PROVE  UnattendedInv'
    <3>1. InOwnSession("SESSION_STARTED", s)
      BY <2>2 DEF StartOffline, InOwnSession
    <3>2. QED
      BY <2>2, <3>1, RecordKeepsUnattended DEF StartOffline, EventTypes
  <2>3. ASSUME NEW e \in Events, NEW m \in Minutes, ExtendOffline(e, m)
        PROVE  UnattendedInv'
    <3>1. PICK s \in Sessions : s = local
      BY <2>3 DEF ExtendOffline, SyncInv, SyncTypeOK
    <3>2. /\ Record(e, "SESSION_EXTENDED", s, m)
          /\ InOwnSession("SESSION_EXTENDED", s)
      BY <2>3, <3>1 DEF ExtendOffline, InOwnSession
    <3>3. QED
      BY <3>2, RecordKeepsUnattended DEF EventTypes
  <2>4. ASSUME NEW e \in Events, NEW type \in EventTypes, EndOffline(e, type)
        PROVE  UnattendedInv'
    <3>1. PICK s \in Sessions : s = local
      BY <2>4 DEF EndOffline, SyncInv, SyncTypeOK
    <3>2. Record(e, type, s, 0) /\ InOwnSession(type, s)
      BY <2>4, <3>1 DEF EndOffline, InOwnSession
    <3>3. QED
      BY <3>2, RecordKeepsUnattended
  <2>5. QED
    BY <1>2, <2>1, <2>2, <2>3, <2>4, HearingCases, HearKeepsUnattended,
       LoadKeepsUnattended, DecisionKeepsUnattended DEF Replay
<1>3. CASE UNCHANGED allVars
  BY <1>1, <1>3 DEF allVars
<1>4. QED
  BY <1>1, <1>2, <1>3 DEF UnattendedNext

\* While nobody touches the PC's sessions at the desk, the queue of offline
\* events stays in the order of the sessions they are about, and what a
\* handler looks up for one of them is its session or one that the agent has
\* left because of a message of the server.
THEOREM UnattendedInvariantCorrect ==
  UnattendedSpec => [](SyncInv /\ UnattendedInv)
<1>1. SyncInit => SyncInv /\ UnattendedInv
  BY SyncInitInv, UnattendedInit
<1>2. QED
  BY <1>1, UnattendedStepInv, PTL DEF UnattendedSpec

\* Then an event changes only the session it was recorded in or one that the
\* agent dropped, although the server never compares the two
\* (loadActiveSession), and no message to the agent names a session that it
\* compares (AdoptServerSessionState, SyncFromBootstrapAsync).
THEOREM EventsStayCorrect == UnattendedSpec => []EventsStayInTheirSession
<1>1. UnattendedInv => EventsStayInTheirSession
  BY DEF UnattendedInv
<1>2. QED
  BY <1>1, UnattendedInvariantCorrect, PTL

\* While no session was dropped no start ends in conflict; and whatever is
\* dropped, the PC never has two active sessions (resolveOfflineEvent on
\* SESSION_STARTED).
THEOREM NoStartIsRefused == UnattendedSpec => [](StartsAccepted /\ OneActive)
<1>1. UnattendedInv => StartsAccepted /\ OneActive
  BY DEF UnattendedInv
<1>2. QED
  BY <1>1, UnattendedInvariantCorrect, PTL

\* No offline extension is lost or granted twice, although it is computed
\* from a row read without a lock, with the sweep in between
\* (applyAcceptExtend).
THEOREM OfflineTimeAccounted == UnattendedSpec => []TimeAddsUp
<1>1. UnattendedInv => TimeAddsUp
  BY DEF UnattendedInv
<1>2. QED
  BY <1>1, UnattendedInvariantCorrect, PTL
=============================================================================

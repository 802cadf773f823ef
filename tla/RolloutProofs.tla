--------------------------- MODULE RolloutProofs ---------------------------
(***************************************************************************)
(* Proofs about Rollout, for any number of PCs, jobs, versions and         *)
(* administrators.                                                         *)
(*                                                                         *)
(* Neither of the two properties is inductive.  What the PC, its reports   *)
(* and an administrator hold in their hands was read from rows that have   *)
(* changed since: JobsKnown says that the target is there still,           *)
(* TargetsOfJobs that only an answered job has targets (so that writing    *)
(* the targets of a job takes nothing back), ReadOpen that whoever is      *)
(* about to write a target has read it as open, and MarkedIsLast that      *)
(* between its two updates a completion is the last one of its PC.         *)
(***************************************************************************)
EXTENDS Rollout, TLAPS

Answered(j) == job[j] # None /\ job[j].step = "answered"

\* Only a job that was answered has targets.
TargetsOfJobs ==
    \A j \in Jobs, p \in PCs : target[<<j, p>>] # None => Answered(j)

\* Requests, reports, programs and history are about what exists.
JobsKnown ==
    /\ \A a \in Admins : admin[a] # None =>
           target[<<admin[a].job, admin[a].pc>>] # None
    /\ \A p \in PCs :
           /\ worker[p] # None => target[<<worker[p].job, p>>] # None
           /\ progress[p] # None => target[<<progress[p].job, p>>] # None
           /\ finish[p] # None => target[<<finish[p].job, p>>] # None
           /\ last[p] # None => job[last[p]] # None

\* Whoever is about to write a target had read it as open.
ReadOpen ==
    /\ \A a \in Admins : admin[a] # None => admin[a].open
    /\ \A p \in PCs : worker[p] # None => worker[p].open
    /\ \A p \in PCs : progress[p] # None => progress[p].open

\* Between its two updates a completion is the last one of its PC.
MarkedIsLast ==
    \A p \in PCs : finish[p] # None /\ finish[p].step = "marked" =>
        last[p] = finish[p].job

RolloutInv ==
    /\ RolloutTypeOK
    /\ TargetsOfJobs
    /\ JobsKnown
    /\ ReadOpen
    /\ MarkedIsLast
    /\ InstallationKeepsUp

-----------------------------------------------------------------------------

\* Before the first game there is nothing to agree on.
LEMMA RolloutInvInitially == Init => RolloutInv
<1> SUFFICES ASSUME Init PROVE RolloutInv
  OBVIOUS
<1>1. RolloutTypeOK
  BY DEF Init, RolloutTypeOK
<1>2. /\ \A jp \in Jobs \X PCs : target[jp] = None
      /\ \A a \in Admins : admin[a] = None
      /\ \A p \in PCs : /\ worker[p] = None /\ progress[p] = None
                        /\ finish[p] = None /\ last[p] = None
      /\ \A p \in PCs : installed[p] \in {NoVersion, None}
  BY DEF Init
<1> QED
  BY <1>1, <1>2 DEF RolloutInv, TargetsOfJobs, JobsKnown, ReadOpen,
                    MarkedIsLast, InstallationKeepsUp

\* Changes of the catalogue touch nothing else the invariant speaks of.
LEMMA CatalogueKeepsInv ==
  ASSUME RolloutInv,
         \/ UNCHANGED vars
         \/ CreateGame
         \/ PatchGame
         \/ \E v \in Versions : CreateGameVersion(v)
  PROVE  RolloutInv'
<1>1. /\ game' \in {"none", "enabled", "disabled"}
      /\ published' \in SUBSET Versions
  BY DEF RolloutInv, RolloutTypeOK, vars, catalogue, CreateGame, PatchGame,
         CreateGameVersion
<1>2. UNCHANGED <<tables, admin, worker, reports, history>>
  BY DEF vars, CreateGame, PatchGame, CreateGameVersion
<1> QED
  BY <1>1, <1>2 DEF RolloutInv, RolloutTypeOK, tables, reports, history,
     TargetsOfJobs, Answered, JobsKnown, ReadOpen, MarkedIsLast,
     InstallationKeepsUp

\* A new job, of which nothing is known before.
LEMMA InsertJobKeepsInv ==
  ASSUME RolloutInv, NEW j \in Jobs, NEW v \in Versions, NEW pcs \in SUBSET PCs,
         InsertJob(j, v, pcs)
  PROVE  RolloutInv'
<1> DEFINE new == [version |-> v, asked |-> pcs, step |-> "inserted"]
<1>1. /\ job[j] = None /\ job' = [job EXCEPT ![j] = new]
      /\ UNCHANGED <<game, published, target, installed, admin, worker, progress,
                     finish, last, lag>>
  BY DEF InsertJob, catalogue, reports, history
<1>2. new \in Job /\ new # None
  BY NoneAssumption DEF Job
<1>3. RolloutTypeOK'
  BY <1>1, <1>2 DEF RolloutInv, RolloutTypeOK
<1>4. /\ \A i \in Jobs : i # j => job'[i] = job[i]
      /\ job'[j] = new
  BY <1>1 DEF RolloutInv, RolloutTypeOK
<1>5. TargetsOfJobs'
  <2>1. \A p \in PCs : target[<<j, p>>] = None
    BY <1>1 DEF RolloutInv, TargetsOfJobs, Answered
  <2> QED
    BY <1>1, <1>4, <2>1 DEF RolloutInv, TargetsOfJobs, Answered
<1>6. \A p \in PCs : last[p] # None => last[p] \in Jobs /\ last[p] # j
  BY <1>1 DEF RolloutInv, RolloutTypeOK, JobsKnown
<1>7. JobsKnown'
  BY <1>1, <1>4, <1>6 DEF RolloutInv, JobsKnown
<1>8. InstallationKeepsUp'
  BY <1>1, <1>4, <1>6 DEF RolloutInv, InstallationKeepsUp
<1> QED
  BY <1>1, <1>3, <1>5, <1>7, <1>8 DEF RolloutInv, ReadOpen, MarkedIsLast

\* The targets of a job that had none, or none at all.
LEMMA CreationKeepsInv ==
  ASSUME RolloutInv, NEW j \in Jobs, InsertTargets(j) \/ BreakCreation(j)
  PROVE  RolloutInv'
<1>1. /\ job[j] # None /\ job[j].step = "inserted" /\ job[j] \in Job
      /\ UNCHANGED <<game, published, installed, admin, worker, progress,
                     finish, last, lag>>
  BY DEF InsertTargets, BreakCreation, catalogue, reports, history, RolloutInv,
         RolloutTypeOK
<1>2. \A p \in PCs : target[<<j, p>>] = None
  BY <1>1 DEF RolloutInv, TargetsOfJobs, Answered
<1>3. CASE InsertTargets(j)
  <2>1. /\ target' = [jp \in Jobs \X PCs |->
                        IF jp[1] = j /\ jp[2] \in job[j].asked
                        THEN "queued" ELSE target[jp]]
        /\ job' = [job EXCEPT ![j].step = "answered"]
    BY <1>3 DEF InsertTargets
  <2>2. /\ [job[j] EXCEPT !.step = "answered"] \in Job
        /\ job'[j] = [job[j] EXCEPT !.step = "answered"]
        /\ \A i \in Jobs : i # j => job'[i] = job[i]
    BY <1>1, <2>1 DEF RolloutInv, RolloutTypeOK, Job
  <2>3. /\ job'[j] # None /\ job'[j].step = "answered"
        /\ job'[j].asked = job[j].asked /\ job'[j].version = job[j].version
    BY <1>1, <2>2, NoneAssumption DEF Job
  <2>4. \A i \in Jobs, p \in PCs :
            target'[<<i, p>>] = IF i = j /\ p \in job[j].asked THEN "queued"
                            ELSE target[<<i, p>>]
    BY <2>1
  <2>5. RolloutTypeOK'
    <3>1. job' \in [Jobs -> Job \cup {None}]
      BY <2>1, <2>2 DEF RolloutInv, RolloutTypeOK
    <3>2. target' \in [Jobs \X PCs -> TargetState \cup {None}]
      BY <2>1 DEF RolloutInv, RolloutTypeOK, TargetState
    <3> QED
      BY <1>1, <3>1, <3>2 DEF RolloutInv, RolloutTypeOK
  <2>6. "queued" # None
    BY NoneAssumption DEF TargetState
  <2>7. TargetsOfJobs'
    <3> SUFFICES ASSUME NEW i \in Jobs, NEW p \in PCs, target'[<<i, p>>] # None
                 PROVE  Answered(i)'
      BY DEF TargetsOfJobs
    <3>1. CASE i = j
      BY <2>3, <3>1 DEF Answered
    <3>2. CASE i # j
      BY <2>2, <2>4, <3>2 DEF RolloutInv, TargetsOfJobs, Answered
    <3> QED
      BY <3>1, <3>2
  <2>8. /\ \A a \in Admins : admin[a] # None =>
               admin[a].job \in Jobs /\ admin[a].pc \in PCs
        /\ \A p \in PCs : /\ worker[p] # None => worker[p].job \in Jobs
                          /\ progress[p] # None => progress[p].job \in Jobs
                          /\ finish[p] # None => finish[p].job \in Jobs
                          /\ last[p] # None => last[p] \in Jobs
    BY DEF RolloutInv, RolloutTypeOK, Request, Work, Progressing, Finishing
  <2>9. \A i \in Jobs, p \in PCs :
            target[<<i, p>>] # None => target'[<<i, p>>] = target[<<i, p>>]
    BY <1>2, <2>4
  <2>10. JobsKnown'
    BY <1>1, <2>2, <2>3, <2>8, <2>9 DEF RolloutInv, JobsKnown
  <2>11. InstallationKeepsUp'
    BY <1>1, <2>2, <2>3, <2>8 DEF RolloutInv, InstallationKeepsUp
  <2> QED
    BY <1>1, <2>5, <2>7, <2>10, <2>11 DEF RolloutInv, ReadOpen, MarkedIsLast
<1>4. CASE BreakCreation(j)
  <2>1. /\ target' = target
        /\ job' = [job EXCEPT ![j].step = "broken"]
    BY <1>4 DEF BreakCreation
  <2>2. /\ [job[j] EXCEPT !.step = "broken"] \in Job
        /\ job'[j] = [job[j] EXCEPT !.step = "broken"]
        /\ \A i \in Jobs : i # j => job'[i] = job[i]
    BY <1>1, <2>1 DEF RolloutInv, RolloutTypeOK, Job
  <2>3. /\ job'[j] # None /\ job'[j].step = "broken"
        /\ job'[j].version = job[j].version
    BY <1>1, <2>2, NoneAssumption DEF Job
  <2>4. RolloutTypeOK'
    BY <1>1, <2>1, <2>2 DEF RolloutInv, RolloutTypeOK
  <2>5. TargetsOfJobs'
    BY <1>2, <2>1, <2>2 DEF RolloutInv, TargetsOfJobs, Answered
  <2>6. \A p \in PCs : last[p] # None => last[p] \in Jobs
    BY DEF RolloutInv, RolloutTypeOK
  <2>7. JobsKnown' /\ InstallationKeepsUp'
    BY <1>1, <2>1, <2>2, <2>3, <2>6 DEF RolloutInv, JobsKnown,
                                        InstallationKeepsUp
  <2> QED
    BY <1>1, <2>1, <2>4, <2>5, <2>7 DEF RolloutInv, ReadOpen, MarkedIsLast
<1> QED
  BY <1>3, <1>4

-----------------------------------------------------------------------------

\* A request remembers a target that exists and is open.
LEMMA DecideKeepsInv ==
  ASSUME RolloutInv, NEW a \in Admins, NEW j \in Jobs, NEW p \in PCs,
         Pause(a, j, p) \/ Resume(a, j, p)
  PROVE  RolloutInv'
<1>1. PICK to \in {"paused", "downloading"} : Decide(a, j, p, to)
  BY DEF Pause, Resume
<1> DEFINE new == [job |-> j, pc |-> p, to |-> to,
                   open |-> target[<<j, p>>] \notin Terminal]
<1>2. target[<<j, p>>] # None /\ target[<<j, p>>] \notin Terminal
  BY NoneAssumption DEF Pause, Resume, TargetState, Terminal
<1>3. /\ admin' = [admin EXCEPT ![a] = new]
      /\ UNCHANGED <<game, published, job, target, installed, worker, progress,
                     finish, last, lag>>
  BY <1>1 DEF Decide, catalogue, tables, reports, history
<1>4. new \in Request /\ new.open /\ new.job = j /\ new.pc = p
  BY <1>2 DEF Request
<1> HIDE DEF new
<1>5. RolloutTypeOK'
  BY <1>3, <1>4 DEF RolloutInv, RolloutTypeOK
<1>6. JobsKnown' /\ ReadOpen'
  BY <1>2, <1>3, <1>4 DEF RolloutInv, RolloutTypeOK, JobsKnown, ReadOpen
<1> QED
  BY <1>3, <1>5, <1>6 DEF RolloutInv, TargetsOfJobs, Answered, MarkedIsLast,
                          InstallationKeepsUp

\* Writing one state of an existing target, as administrators and PCs do,
\* keeps what the invariant says of the targets.
LEMMA WriteKeepsTargets ==
  ASSUME RolloutInv, NEW j \in Jobs, NEW p \in PCs, NEW state \in TargetState,
         target[<<j, p>>] # None,
         target' = [target EXCEPT ![<<j, p>>] = state],
         job' = job
  PROVE  /\ target' \in [Jobs \X PCs -> TargetState \cup {None}]
         /\ TargetsOfJobs'
         /\ \A i \in Jobs, q \in PCs :
                target[<<i, q>>] # None => target'[<<i, q>>] # None
<1>1. target \in [Jobs \X PCs -> TargetState \cup {None}]
  BY DEF RolloutInv, RolloutTypeOK
<1>2. target' \in [Jobs \X PCs -> TargetState \cup {None}]
  BY <1>1
<1>3. \A i \in Jobs, q \in PCs :
          target'[<<i, q>>] = IF i = j /\ q = p THEN state ELSE target[<<i, q>>]
  BY <1>1
<1>4. state # None
  BY NoneAssumption
<1>5. TargetsOfJobs'
  BY <1>3 DEF RolloutInv, TargetsOfJobs, Answered
<1> QED
  BY <1>2, <1>3, <1>4, <1>5

\* What is in the hands of administrators and PCs is about targets.
LEMMA HandsTyped ==
  ASSUME RolloutInv
  PROVE  /\ \A a \in Admins : admin[a] # None =>
                /\ admin[a].job \in Jobs /\ admin[a].pc \in PCs
                /\ admin[a].to \in TargetState \ Terminal
         /\ \A p \in PCs : worker[p] # None => worker[p].job \in Jobs
         /\ \A p \in PCs : progress[p] # None =>
                /\ progress[p].job \in Jobs
                /\ progress[p].state \in TargetState \ Terminal
         /\ \A p \in PCs : finish[p] # None => finish[p].job \in Jobs
BY DEF RolloutInv, RolloutTypeOK, Request, Work, Progressing, Finishing,
       Reported, Terminal, TargetState

\* What is known stays known while a target is written.
LEMMA WriteKeepsKnown ==
  ASSUME RolloutInv,
         \A i \in Jobs, q \in PCs :
             target[<<i, q>>] # None => target'[<<i, q>>] # None
  PROVE  /\ \A a \in Admins : admin[a] # None =>
                target'[<<admin[a].job, admin[a].pc>>] # None
         /\ \A p \in PCs : worker[p] # None => target'[<<worker[p].job, p>>] # None
         /\ \A p \in PCs : progress[p] # None =>
                target'[<<progress[p].job, p>>] # None
         /\ \A p \in PCs : finish[p] # None => target'[<<finish[p].job, p>>] # None
BY HandsTyped DEF RolloutInv, JobsKnown

\* Whatever the state is by now, a request writes what it was sent for.
LEMMA WriteTargetKeepsInv ==
  ASSUME RolloutInv, NEW a \in Admins, WriteTarget(a)
  PROVE  RolloutInv'
<1> DEFINE j == admin[a].job
           p == admin[a].pc
           to == admin[a].to
<1>1. /\ admin[a] # None
      /\ target' = [target EXCEPT ![<<j, p>>] = to]
      /\ admin' = [admin EXCEPT ![a] = None]
      /\ UNCHANGED <<game, published, job, installed, worker, progress, finish,
                     last, lag>>
  BY DEF WriteTarget, catalogue, reports, history
<1>2. /\ j \in Jobs /\ p \in PCs /\ to \in TargetState
      /\ target[<<j, p>>] # None
  BY <1>1, HandsTyped DEF RolloutInv, JobsKnown
<1> HIDE DEF j, p, to
<1>3. /\ target' \in [Jobs \X PCs -> TargetState \cup {None}]
      /\ TargetsOfJobs'
      /\ \A i \in Jobs, q \in PCs :
             target[<<i, q>>] # None => target'[<<i, q>>] # None
  BY <1>1, <1>2, WriteKeepsTargets
<1>4. RolloutTypeOK'
  BY <1>1, <1>3 DEF RolloutInv, RolloutTypeOK
<1>5. \A b \in Admins : admin'[b] # None => admin'[b] = admin[b]
  BY <1>1 DEF RolloutInv, RolloutTypeOK
<1>6. JobsKnown' /\ ReadOpen'
  BY <1>1, <1>3, <1>5, WriteKeepsKnown DEF RolloutInv, JobsKnown, ReadOpen
<1> QED
  BY <1>1, <1>3, <1>4, <1>6 DEF RolloutInv, MarkedIsLast, InstallationKeepsUp

-----------------------------------------------------------------------------

\* A PC takes up what is listed, which is open, or gives it up.
LEMMA TakeUpKeepsInv ==
  ASSUME RolloutInv, NEW p \in PCs, TakeUp(p) \/ GiveUp(p)
  PROVE  RolloutInv'
<1>1. UNCHANGED <<game, published, job, target, installed, admin, progress,
                  finish, last, lag>>
  BY DEF TakeUp, GiveUp, catalogue, tables, reports, history
<1>2. CASE TakeUp(p)
  <2>1. PICK j \in OpenTargets(p) :
            worker' = [worker EXCEPT ![p] =
                          [job |-> j, open |-> target[<<j, p>>] \notin Terminal]]
    BY <1>2 DEF TakeUp, ActiveTargets
  <2> DEFINE new == [job |-> j, open |-> target[<<j, p>>] \notin Terminal]
  <2>2. /\ j \in Jobs /\ target[<<j, p>>] # None
        /\ target[<<j, p>>] \notin Terminal
    BY NoneAssumption DEF OpenTargets, TargetState, Terminal
  <2>3. new \in Work /\ new.job = j /\ new.open
    BY <2>2 DEF Work
  <2> HIDE DEF new
  <2>4. RolloutTypeOK'
    BY <1>1, <2>1, <2>3 DEF RolloutInv, RolloutTypeOK, new
  <2>5. /\ worker'[p] = new
        /\ \A q \in PCs : q # p => worker'[q] = worker[q]
    BY <2>1 DEF RolloutInv, RolloutTypeOK, new
  <2>6. JobsKnown' /\ ReadOpen'
    BY <1>1, <2>2, <2>3, <2>5 DEF RolloutInv, JobsKnown, ReadOpen
  <2> QED
    BY <1>1, <2>4, <2>6 DEF RolloutInv, TargetsOfJobs, Answered, MarkedIsLast,
                            InstallationKeepsUp
<1>3. CASE GiveUp(p)
  <2>1. worker' = [worker EXCEPT ![p] = None]
    BY <1>3 DEF GiveUp
  <2>2. RolloutTypeOK'
    BY <1>1, <2>1 DEF RolloutInv, RolloutTypeOK
  <2>3. \A q \in PCs : worker'[q] # None => worker'[q] = worker[q]
    BY <2>1 DEF RolloutInv, RolloutTypeOK
  <2>4. JobsKnown' /\ ReadOpen'
    BY <1>1, <2>3 DEF RolloutInv, JobsKnown, ReadOpen
  <2> QED
    BY <1>1, <2>2, <2>4 DEF RolloutInv, TargetsOfJobs, Answered, MarkedIsLast,
                            InstallationKeepsUp
<1> QED
  BY <1>2, <1>3

\* A report of progress remembers what its work was taken up from.
LEMMA ReportProgressKeepsInv ==
  ASSUME RolloutInv, NEW p \in PCs, NEW state \in Reported,
         ReportProgress(p, state)
  PROVE  RolloutInv'
<1> DEFINE new == [job |-> worker[p].job, state |-> state,
                   open |-> worker[p].open]
<1>1. /\ worker[p] # None
      /\ progress' = [progress EXCEPT ![p] = new]
      /\ UNCHANGED <<game, published, job, target, installed, admin, worker,
                     finish, last, lag>>
  BY DEF ReportProgress, catalogue, tables, history
<1>2. /\ new \in Progressing /\ new.open
      /\ target[<<new.job, p>>] # None
  BY <1>1 DEF RolloutInv, RolloutTypeOK, JobsKnown, ReadOpen, Work, Progressing
<1> HIDE DEF new
<1>3. RolloutTypeOK'
  BY <1>1, <1>2 DEF RolloutInv, RolloutTypeOK
<1>4. /\ progress'[p] = new
      /\ \A q \in PCs : q # p => progress'[q] = progress[q]
  BY <1>1 DEF RolloutInv, RolloutTypeOK
<1>5. JobsKnown' /\ ReadOpen'
  BY <1>1, <1>2, <1>4 DEF RolloutInv, JobsKnown, ReadOpen
<1> QED
  BY <1>1, <1>3, <1>5 DEF RolloutInv, TargetsOfJobs, Answered, MarkedIsLast,
                          InstallationKeepsUp

\* So does the report of the end; the PC has done with the job.
LEMMA ReportEndKeepsInv ==
  ASSUME RolloutInv, NEW p \in PCs, NEW outcome \in Terminal,
         ReportEnd(p, outcome)
  PROVE  RolloutInv'
<1> DEFINE new == [job |-> worker[p].job, step |-> outcome]
<1>1. /\ worker[p] # None /\ finish[p] = None
      /\ finish' = [finish EXCEPT ![p] = new]
      /\ worker' = [worker EXCEPT ![p] = None]
      /\ UNCHANGED <<game, published, job, target, installed, admin, progress,
                     last, lag>>
  BY DEF ReportEnd, catalogue, tables, history
<1>2. /\ new \in Finishing /\ new.step # "marked"
      /\ target[<<new.job, p>>] # None
  BY <1>1 DEF RolloutInv, RolloutTypeOK, JobsKnown, Work, Finishing, Terminal
<1> HIDE DEF new
<1>3. RolloutTypeOK'
  BY <1>1, <1>2 DEF RolloutInv, RolloutTypeOK
<1>4. /\ finish'[p] = new
      /\ \A q \in PCs : q # p => finish'[q] = finish[q]
      /\ \A q \in PCs : worker'[q] # None => worker'[q] = worker[q]
  BY <1>1 DEF RolloutInv, RolloutTypeOK
<1>5. JobsKnown'
  <2>1. \A q \in PCs : finish'[q] # None => target[<<finish'[q].job, q>>] # None
    BY <1>2, <1>4 DEF RolloutInv, JobsKnown
  <2>2. \A q \in PCs : worker'[q] # None => target[<<worker'[q].job, q>>] # None
    BY <1>4 DEF RolloutInv, JobsKnown
  <2> QED
    BY <1>1, <2>1, <2>2 DEF RolloutInv, JobsKnown
<1>6. ReadOpen'
  BY <1>1, <1>4 DEF RolloutInv, ReadOpen
<1>7. MarkedIsLast' /\ InstallationKeepsUp'
  BY <1>1, <1>2, <1>4 DEF RolloutInv, MarkedIsLast, InstallationKeepsUp
<1> QED
  BY <1>1, <1>3, <1>5, <1>6, <1>7 DEF RolloutInv, TargetsOfJobs, Answered

\* A report of progress arrives, whatever the row says by now, or is lost.
LEMMA ProgressKeepsInv ==
  ASSUME RolloutInv, NEW p \in PCs, Progress(p) \/ LoseProgress(p)
  PROVE  RolloutInv'
<1> DEFINE j == progress[p].job
           state == progress[p].state
<1>1. /\ progress[p] # None
      /\ progress' = [progress EXCEPT ![p] = None]
      /\ UNCHANGED <<game, published, job, installed, admin, worker, finish,
                     last, lag>>
      /\ target' = target \/ target' = [target EXCEPT ![<<j, p>>] = state]
  BY DEF Progress, LoseProgress, catalogue, tables, history
<1>2. j \in Jobs /\ target[<<j, p>>] # None /\ state \in TargetState
  BY <1>1, HandsTyped DEF RolloutInv, JobsKnown
<1> HIDE DEF j, state
<1>3. /\ target' \in [Jobs \X PCs -> TargetState \cup {None}]
      /\ TargetsOfJobs'
      /\ \A i \in Jobs, q \in PCs :
             target[<<i, q>>] # None => target'[<<i, q>>] # None
  <2>1. CASE target' = target
    BY <1>1, <2>1 DEF RolloutInv, RolloutTypeOK, TargetsOfJobs, Answered
  <2>2. CASE target' = [target EXCEPT ![<<j, p>>] = state]
    BY <1>1, <1>2, <2>2, WriteKeepsTargets
  <2> QED
    BY <1>1, <2>1, <2>2
<1>4. RolloutTypeOK'
  BY <1>1, <1>3 DEF RolloutInv, RolloutTypeOK
<1>5. \A q \in PCs : progress'[q] # None => progress'[q] = progress[q]
  BY <1>1 DEF RolloutInv, RolloutTypeOK
<1>6. JobsKnown' /\ ReadOpen'
  BY <1>1, <1>3, <1>5, WriteKeepsKnown DEF RolloutInv, JobsKnown, ReadOpen
<1> QED
  BY <1>1, <1>3, <1>4, <1>6 DEF RolloutInv, MarkedIsLast, InstallationKeepsUp

\* The first update of a completion: the PC is in between from now on.
LEMMA CompleteTargetKeepsInv ==
  ASSUME RolloutInv, NEW p \in PCs, CompleteTarget(p)
  PROVE  RolloutInv'
<1> DEFINE j == finish[p].job
<1>1. /\ finish[p] # None
      /\ target' = [target EXCEPT ![<<j, p>>] = "ready"]
      /\ last' = [last EXCEPT ![p] = j]
      /\ finish' = [finish EXCEPT ![p].step = "marked"]
      /\ UNCHANGED <<game, published, job, installed, admin, worker, progress,
                     lag>>
  BY DEF CompleteTarget, catalogue
<1>2. /\ j \in Jobs /\ target[<<j, p>>] # None /\ job[j] # None
      /\ "ready" \in TargetState
  BY <1>1, HandsTyped DEF RolloutInv, JobsKnown, TargetsOfJobs, Answered,
                          TargetState
<1>3. /\ finish'[p].job = j /\ finish'[p].step = "marked"
      /\ finish'[p] \in Finishing
      /\ \A q \in PCs : q # p => finish'[q] = finish[q] /\ last'[q] = last[q]
      /\ last'[p] = j
  BY <1>1 DEF RolloutInv, RolloutTypeOK, Finishing
<1>4. /\ finish' \in [PCs -> Finishing \cup {None}]
      /\ last' \in [PCs -> Jobs \cup {None}]
  BY <1>1, <1>2, <1>3 DEF RolloutInv, RolloutTypeOK
<1> HIDE DEF j
<1>5. /\ target' \in [Jobs \X PCs -> TargetState \cup {None}]
      /\ TargetsOfJobs'
      /\ \A i \in Jobs, q \in PCs :
             target[<<i, q>>] # None => target'[<<i, q>>] # None
  BY <1>1, <1>2, WriteKeepsTargets
<1>6. RolloutTypeOK'
  BY <1>1, <1>2, <1>4, <1>5 DEF RolloutInv, RolloutTypeOK
<1>7. JobsKnown'
  <2>1. \A q \in PCs : finish'[q] # None =>
            finish[q] # None /\ finish'[q].job = finish[q].job
    BY <1>1, <1>3
  <2>2. \A q \in PCs : last'[q] # None => job[last'[q]] # None
    BY <1>2, <1>3 DEF RolloutInv, JobsKnown
  <2> QED
    BY <1>1, <1>5, <2>1, <2>2, WriteKeepsKnown DEF RolloutInv, JobsKnown
<1>8. MarkedIsLast'
  BY <1>1, <1>3 DEF RolloutInv, MarkedIsLast
<1>9. InstallationKeepsUp'
  <2>1. finish'[p] # None
    BY <1>3, NoneAssumption
  <2> QED
    BY <1>1, <1>3, <2>1 DEF RolloutInv, InstallationKeepsUp
<1> QED
  BY <1>1, <1>5, <1>6, <1>7, <1>8, <1>9 DEF RolloutInv, ReadOpen

\* The second update: it installs the version of the job the PC has made
\* ready last, which MarkedIsLast says this is.
LEMMA CompleteInstallationKeepsInv ==
  ASSUME RolloutInv, NEW p \in PCs, CompleteInstallation(p)
  PROVE  RolloutInv'
<1> DEFINE j == finish[p].job
<1>1. /\ finish[p] # None /\ finish[p].step = "marked"
      /\ installed' = [installed EXCEPT ![p] =
                          IF @ = None THEN None ELSE job[j].version]
      /\ lag' = lag \ {p}
      /\ finish' = [finish EXCEPT ![p] = None]
      /\ UNCHANGED <<game, published, job, target, admin, worker, progress,
                     last>>
  BY DEF CompleteInstallation, catalogue
<1>2. /\ j \in Jobs /\ job[j] \in Job /\ last[p] = j /\ j # None
  <2>1. /\ j \in Jobs /\ j # None /\ last[p] = j
        /\ job \in [Jobs -> Job \cup {None}]
    BY <1>1, HandsTyped, NoneAssumption DEF RolloutInv, RolloutTypeOK, MarkedIsLast
  <2>2. job[j] # None
    BY <2>1 DEF RolloutInv, JobsKnown
  <2> QED
    BY <2>1, <2>2
<1>3. RolloutTypeOK'
  <2>1. job[j].version \in Versions
    BY <1>2 DEF Job
  <2>2. installed' \in [PCs -> Versions \cup {NoVersion, None}]
    BY <1>1, <2>1 DEF RolloutInv, RolloutTypeOK
  <2> QED
    BY <1>1, <2>2 DEF RolloutInv, RolloutTypeOK
<1>4. /\ finish'[p] = None
      /\ installed'[p] = IF installed[p] = None THEN None ELSE job[j].version
      /\ \A q \in PCs : q # p => /\ finish'[q] = finish[q]
                                 /\ installed'[q] = installed[q]
  BY <1>1 DEF RolloutInv, RolloutTypeOK
<1> HIDE DEF j
<1>5. InstallationKeepsUp'
  BY <1>1, <1>2, <1>4 DEF RolloutInv, InstallationKeepsUp
<1>6. \A q \in PCs : finish'[q] # None => finish'[q] = finish[q]
  BY <1>4
<1>7. JobsKnown'
  BY <1>1, <1>6 DEF RolloutInv, JobsKnown
<1>8. MarkedIsLast'
  BY <1>1, <1>6 DEF RolloutInv, MarkedIsLast
<1> QED
  BY <1>1, <1>3, <1>5, <1>7, <1>8 DEF RolloutInv, TargetsOfJobs, Answered, ReadOpen

\* A report of the end that breaks; between the two updates the PC lags from
\* now on.
LEMMA BreakEndKeepsInv ==
  ASSUME RolloutInv, NEW p \in PCs, BreakEnd(p)
  PROVE  RolloutInv'
<1>1. /\ lag' = IF finish[p].step = "marked" THEN lag \cup {p} ELSE lag
      /\ finish[p] # None
      /\ finish' = [finish EXCEPT ![p] = None]
      /\ UNCHANGED <<game, published, job, target, installed, admin, worker,
                     progress, last>>
  BY DEF BreakEnd, catalogue, tables
<1>2. RolloutTypeOK'
  BY <1>1 DEF RolloutInv, RolloutTypeOK
<1>3. /\ finish'[p] = None
      /\ \A q \in PCs : q # p => finish'[q] = finish[q]
  BY <1>1 DEF RolloutInv, RolloutTypeOK
<1>4. InstallationKeepsUp'
  BY <1>1, <1>3 DEF RolloutInv, InstallationKeepsUp
<1>5. \A q \in PCs : finish'[q] # None => finish'[q] = finish[q]
  BY <1>3
<1>6. JobsKnown'
  BY <1>1, <1>5 DEF RolloutInv, JobsKnown
<1>7. MarkedIsLast'
  BY <1>1, <1>5 DEF RolloutInv, MarkedIsLast
<1> QED
  BY <1>1, <1>2, <1>4, <1>6, <1>7 DEF RolloutInv, TargetsOfJobs, Answered, ReadOpen

\* A failure is one update.
LEMMA FailTargetKeepsInv ==
  ASSUME RolloutInv, NEW p \in PCs, FailTarget(p)
  PROVE  RolloutInv'
<1> DEFINE j == finish[p].job
<1>1. /\ finish[p] # None /\ finish[p].step = "failed"
      /\ target' = [target EXCEPT ![<<j, p>>] = "failed"]
      /\ finish' = [finish EXCEPT ![p] = None]
      /\ UNCHANGED <<game, published, job, installed, admin, worker, progress,
                     last, lag>>
  BY DEF FailTarget, catalogue
<1>2. j \in Jobs /\ target[<<j, p>>] # None /\ "failed" \in TargetState
  BY <1>1, HandsTyped DEF RolloutInv, JobsKnown, TargetState
<1>3. /\ finish'[p] = None
      /\ \A q \in PCs : q # p => finish'[q] = finish[q]
  BY <1>1 DEF RolloutInv, RolloutTypeOK
<1> HIDE DEF j
<1>4. /\ target' \in [Jobs \X PCs -> TargetState \cup {None}]
      /\ TargetsOfJobs'
      /\ \A i \in Jobs, q \in PCs :
             target[<<i, q>>] # None => target'[<<i, q>>] # None
  BY <1>1, <1>2, WriteKeepsTargets
<1>5. RolloutTypeOK'
  BY <1>1, <1>2, <1>4 DEF RolloutInv, RolloutTypeOK
<1>6. JobsKnown'
  <2>1. \A q \in PCs : finish'[q] # None => finish'[q] = finish[q]
    BY <1>3
  <2> QED
    BY <1>1, <1>4, <2>1, WriteKeepsKnown DEF RolloutInv, JobsKnown
<1>7. MarkedIsLast'
  BY <1>1, <1>3 DEF RolloutInv, MarkedIsLast
<1>8. InstallationKeepsUp'
  <2>1. \A q \in PCs : finish[q] # None /\ finish[q].step = "marked" =>
            finish'[q] # None /\ finish'[q].step = "marked"
    BY <1>1, <1>3
  <2> QED
    BY <1>1, <2>1 DEF RolloutInv, InstallationKeepsUp
<1> QED
  BY <1>1, <1>4, <1>5, <1>6, <1>7, <1>8 DEF RolloutInv, ReadOpen

-----------------------------------------------------------------------------

\* The invariant holds in every state.
THEOREM RolloutInvCorrect == Spec => []RolloutInv
<1>1. Init => RolloutInv
  BY RolloutInvInitially
<1>2. RolloutInv /\ [Next]_vars => RolloutInv'
  <2> SUFFICES ASSUME RolloutInv, [Next]_vars PROVE RolloutInv'
    OBVIOUS
  <2>1. ASSUME NEW j \in Jobs,
               \/ \E v \in Versions, pcs \in SUBSET PCs : InsertJob(j, v, pcs)
               \/ InsertTargets(j) \/ BreakCreation(j)
        PROVE  RolloutInv'
    BY <2>1, InsertJobKeepsInv, CreationKeepsInv
  <2>2. ASSUME NEW a \in Admins,
               \/ \E j \in Jobs, p \in PCs : Pause(a, j, p) \/ Resume(a, j, p)
               \/ WriteTarget(a)
        PROVE  RolloutInv'
    BY <2>2, DecideKeepsInv, WriteTargetKeepsInv
  <2>3. ASSUME NEW p \in PCs,
               \/ TakeUp(p) \/ GiveUp(p)
               \/ \E state \in Reported : ReportProgress(p, state)
               \/ \E outcome \in Terminal : ReportEnd(p, outcome)
               \/ Progress(p) \/ LoseProgress(p)
               \/ CompleteTarget(p) \/ CompleteInstallation(p)
               \/ BreakEnd(p) \/ FailTarget(p)
        PROVE  RolloutInv'
    BY <2>3, TakeUpKeepsInv, ReportProgressKeepsInv, ReportEndKeepsInv,
       ProgressKeepsInv, CompleteTargetKeepsInv, CompleteInstallationKeepsInv,
       BreakEndKeepsInv, FailTargetKeepsInv
  <2> QED
    BY <2>1, <2>2, <2>3, CatalogueKeepsInv DEF Next
<1> QED
  BY <1>1, <1>2, PTL DEF Spec

\* Rows, requests and reports are well typed.
THEOREM RolloutTypeCorrect == Spec => []RolloutTypeOK
<1>1. RolloutInv => RolloutTypeOK
  BY DEF RolloutInv
<1> QED
  BY <1>1, RolloutInvCorrect, PTL

\* The installation is of the version the PC made ready last.
THEOREM InstallationRight == Spec => []InstallationKeepsUp
<1>1. RolloutInv => InstallationKeepsUp
  BY DEF RolloutInv
<1> QED
  BY <1>1, RolloutInvCorrect, PTL

\* A target that is over is opened only by someone who had read it as open.
THEOREM OverIsFinal == Spec => OverStaysOver
<1> DEFINE Kept(j, p) ==
        target[<<j, p>>] \in Terminal /\ target'[<<j, p>>] \notin Terminal =>
            \/ \E a \in Admins : /\ admin[a] # None /\ admin[a].open
                                 /\ admin[a].job = j /\ admin[a].pc = p
            \/ /\ progress[p] # None /\ progress[p].open
               /\ progress[p].job = j
<1>1. RolloutInv /\ [Next]_vars =>
          [\A j \in Jobs, p \in PCs : Kept(j, p)]_vars
  <2> SUFFICES ASSUME RolloutInv, Next, NEW j \in Jobs, NEW p \in PCs,
                      target[<<j, p>>] \in Terminal,
                      target'[<<j, p>>] \notin Terminal
               PROVE  Kept(j, p)
    OBVIOUS
  <2>1. target \in [Jobs \X PCs -> TargetState \cup {None}]
    BY DEF RolloutInv, RolloutTypeOK
  <2>2. target[<<j, p>>] # None
    BY NoneAssumption DEF TargetState, Terminal
  <2>3. ASSUME NEW i \in Jobs, InsertTargets(i)
        PROVE  FALSE
    <3>1. i # j
      BY <2>2, <2>3 DEF InsertTargets, RolloutInv, TargetsOfJobs, Answered
    <3> QED
      BY <2>3, <3>1 DEF InsertTargets
  <2>4. ASSUME NEW a \in Admins, WriteTarget(a)
        PROVE  Kept(j, p)
    <3>1. /\ admin[a] # None /\ admin[a].open
          /\ target' = [target EXCEPT ![<<admin[a].job, admin[a].pc>>] =
                           admin[a].to]
      BY <2>4 DEF WriteTarget, RolloutInv, ReadOpen
    <3>2. admin[a].job = j /\ admin[a].pc = p
      BY <2>1, <3>1
    <3> QED
      BY <3>1, <3>2
  <2>5. ASSUME NEW q \in PCs, Progress(q)
        PROVE  Kept(j, p)
    <3>1. /\ progress[q] # None /\ progress[q].open
          /\ target' = [target EXCEPT ![<<progress[q].job, q>>] = progress[q].state]
      BY <2>5 DEF Progress, RolloutInv, ReadOpen
    <3>2. progress[q].job = j /\ q = p
      BY <2>1, <3>1
    <3> QED
      BY <3>1, <3>2
  <2>6. ASSUME NEW q \in PCs, CompleteTarget(q) \/ FailTarget(q)
        PROVE  FALSE
    BY <2>1, <2>6 DEF CompleteTarget, FailTarget, Terminal
  <2>7. ~UNCHANGED target
    OBVIOUS
  <2> QED
    BY <2>3, <2>4, <2>5, <2>6, <2>7 DEF Next, CreateGame, PatchGame,
       CreateGameVersion, tables, InsertJob, BreakCreation, Pause, Resume,
       Decide, TakeUp, GiveUp, ReportProgress, ReportEnd, LoseProgress,
       CompleteInstallation, BreakEnd
<1> QED
  BY <1>1, RolloutInvCorrect, PTL DEF Spec, OverStaysOver
=============================================================================

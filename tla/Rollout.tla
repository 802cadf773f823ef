------------------------------ MODULE Rollout ------------------------------
(***************************************************************************)
(* Deployments of one game: the catalogue, jobs and their targets, what    *)
(* administrators do to a target, and what the PCs report.                 *)
(*                                                                         *)
(* No handler uses a transaction.  The program on the PC that carries      *)
(* deployments out is not in the repository; it is taken to work on one    *)
(* job at a time, of a list it asked for, and to report only what it did.  *)
(* Its requests may arrive late, after it gave the job up or took up       *)
(* another, but at most one report of progress and one of the end are on   *)
(* their way per PC.  Rows of pc_game_installations are written by no      *)
(* handler: some PCs have one.                                             *)
(***************************************************************************)
EXTENDS Integers, FiniteSets

CONSTANTS
    PCs, Jobs, Versions,
    Admins,         \* pause and resume requests in progress at once
    None,
    ListLimit       \* rows in the list a PC is sent, 50 in the code

ASSUME ListLimitAssumption == ListLimit \in Nat \ {0}
ASSUME VersionsAssumption == Versions \subseteq Nat \ {0}

NoVersion == 0

VARIABLES
    game,       \* the row of games
    published,  \* versions of it
    job,        \* rows of game_deployments, and how far their creation is
    target,     \* state of game_deployment_targets per job and PC
    installed,  \* per PC installed_version of its installation row
    admin,      \* pause and resume requests in progress
    worker,     \* per PC the job its program works on
    progress,   \* per PC the report of progress on its way
    finish,     \* per PC the report of completion or failure on its way
    last,       \* per PC the job it made ready last
    lag         \* PCs whose last such report broke halfway

catalogue == <<game, published>>
tables == <<job, target, installed>>
reports == <<progress, finish>>
history == <<last, lag>>
vars == <<catalogue, tables, admin, worker, reports, history>>

TargetState ==
    {"queued", "downloading", "verifying", "installing", "ready", "paused",
     "failed"}
Reported == {"downloading", "verifying", "installing", "paused"}
Terminal == {"ready", "failed"}

\* "open": what the row said when the one who writes it now had read it.
Job == [version : Versions, asked : SUBSET PCs,
        step : {"inserted", "answered", "broken"}]
Request == [job : Jobs, pc : PCs, to : {"paused", "downloading"},
            open : BOOLEAN]
Work == [job : Jobs, open : BOOLEAN]
Progressing == [job : Jobs, state : Reported, open : BOOLEAN]
Finishing == [job : Jobs, step : Terminal \cup {"marked"}]

ASSUME NoneAssumption ==
    /\ None \notin Jobs /\ None \notin TargetState
    /\ None \notin Job /\ None \notin Request
    /\ None \notin Work /\ None \notin Progressing /\ None \notin Finishing

RolloutTypeOK ==
    /\ game \in {"none", "enabled", "disabled"}
    /\ published \in SUBSET Versions
    /\ job \in [Jobs -> Job \cup {None}]
    /\ target \in [Jobs \X PCs -> TargetState \cup {None}]
    /\ installed \in [PCs -> Versions \cup {NoVersion, None}]
    /\ admin \in [Admins -> Request \cup {None}]
    /\ worker \in [PCs -> Work \cup {None}]
    /\ progress \in [PCs -> Progressing \cup {None}]
    /\ finish \in [PCs -> Finishing \cup {None}]
    /\ last \in [PCs -> Jobs \cup {None}]
    /\ lag \in SUBSET PCs

Init ==
    /\ game = "none" /\ published = {}
    /\ job = [j \in Jobs |-> None]
    /\ target = [jp \in Jobs \X PCs |-> None]
    /\ installed \in [PCs -> {NoVersion, None}]
    /\ admin = [a \in Admins |-> None]
    /\ worker = [p \in PCs |-> None]
    /\ progress = [p \in PCs |-> None]
    /\ finish = [p \in PCs |-> None]
    /\ last = [p \in PCs |-> None]
    /\ lag = {}

-----------------------------------------------------------------------------
(* Catalogue.                                                              *)

CreateGame ==
    /\ game = "none"
    /\ game' = "enabled"
    /\ UNCHANGED <<published, tables, admin, worker, reports, history>>

\* Hides the game from the library; deployments do not look at it.
PatchGame ==
    /\ game # "none"
    /\ game' = IF game = "enabled" THEN "disabled" ELSE "enabled"
    /\ UNCHANGED <<published, tables, admin, worker, reports, history>>

CreateGameVersion(v) ==
    /\ game # "none" /\ v \notin published
    /\ published' = published \cup {v}
    /\ UNCHANGED <<game, tables, admin, worker, reports, history>>

-----------------------------------------------------------------------------
(* handleCreateDeployment.                                                 *)

InsertJob(j, v, pcs) ==
    /\ job[j] = None
    /\ v \in published /\ pcs # {}
    /\ job' = [job EXCEPT ![j] = [version |-> v, asked |-> pcs,
                                 step |-> "inserted"]]
    /\ UNCHANGED <<catalogue, target, installed, admin, worker, reports, history>>

InsertTargets(j) ==
    /\ job[j] # None /\ job[j].step = "inserted"
    /\ target' = [jp \in Jobs \X PCs |->
                     IF jp[1] = j /\ jp[2] \in job[j].asked
                     THEN "queued" ELSE target[jp]]
    /\ job' = [job EXCEPT ![j].step = "answered"]
    /\ UNCHANGED <<catalogue, installed, admin, worker, reports, history>>

\* The API stops in between: a job without targets stays.
BreakCreation(j) ==
    /\ job[j] # None /\ job[j].step = "inserted"
    /\ job' = [job EXCEPT ![j].step = "broken"]
    /\ UNCHANGED <<catalogue, target, installed, admin, worker, reports, history>>

-----------------------------------------------------------------------------
(* Pause and resume: the state is read and, some time later, written.      *)

Decide(a, j, p, to) ==
    /\ admin[a] = None
    /\ admin' = [admin EXCEPT ![a] =
                    [job |-> j, pc |-> p, to |-> to,
                     open |-> target[<<j, p>>] \notin Terminal]]
    /\ UNCHANGED <<catalogue, tables, worker, reports, history>>

Pause(a, j, p) == target[<<j, p>>] = "downloading" /\ Decide(a, j, p, "paused")
Resume(a, j, p) == target[<<j, p>>] = "paused" /\ Decide(a, j, p, "downloading")

\* The UPDATE looks at nothing but the id.
WriteTarget(a) ==
    /\ admin[a] # None
    /\ target' = [target EXCEPT ![<<admin[a].job, admin[a].pc>>] = admin[a].to]
    /\ admin' = [admin EXCEPT ![a] = None]
    /\ UNCHANGED <<catalogue, job, installed, worker, reports, history>>

-----------------------------------------------------------------------------
(* The PC.                                                                 *)

\* Mutant: a failed target is listed again.
RetriedTargets(p) ==
    {j \in Jobs : target[<<j, p>>] \notin {"ready", None}}

OpenTargets(p) ==
    {j \in Jobs : target[<<j, p>>] \in
        {"queued", "downloading", "verifying", "installing", "paused"}}

\* handleAgentDeploymentsActive: some of them, in no order, if there are more.
ActiveTargets(p) ==
    {list \in SUBSET OpenTargets(p) :
        \/ list = OpenTargets(p) /\ Cardinality(list) <= ListLimit
        \/ list # OpenTargets(p) /\ Cardinality(list) = ListLimit}

TakeUp(p) ==
    /\ worker[p] = None
    /\ \E list \in ActiveTargets(p) : \E j \in list :
           worker' = [worker EXCEPT ![p] =
                         [job |-> j, open |-> target[<<j, p>>] \notin Terminal]]
    /\ UNCHANGED <<catalogue, tables, admin, reports, history>>

\* A session starts, or the service stops.
GiveUp(p) ==
    /\ worker[p] # None
    /\ worker' = [worker EXCEPT ![p] = None]
    /\ UNCHANGED <<catalogue, tables, admin, reports, history>>

ReportProgress(p, state) ==
    /\ worker[p] # None /\ progress[p] = None
    /\ progress' = [progress EXCEPT ![p] =
                       [job |-> worker[p].job, state |-> state,
                        open |-> worker[p].open]]
    /\ UNCHANGED <<catalogue, tables, admin, worker, finish, history>>

\* Ready or failed: the PC has done with the job.
ReportEnd(p, outcome) ==
    /\ worker[p] # None /\ finish[p] = None
    /\ finish' = [finish EXCEPT ![p] =
                     [job |-> worker[p].job, step |-> outcome]]
    /\ worker' = [worker EXCEPT ![p] = None]
    /\ UNCHANGED <<catalogue, tables, admin, progress, history>>

\* handleDeploymentTargetProgress: the state reported, whatever the row says.
Progress(p) ==
    /\ progress[p] # None
    /\ target' = [target EXCEPT ![<<progress[p].job, p>>] = progress[p].state]
    /\ progress' = [progress EXCEPT ![p] = None]
    /\ UNCHANGED <<catalogue, job, installed, admin, worker, finish, history>>

LoseProgress(p) ==
    /\ progress[p] # None
    /\ progress' = [progress EXCEPT ![p] = None]
    /\ UNCHANGED <<catalogue, tables, admin, worker, finish, history>>

\* handleDeploymentTargetComplete, for a verified manifest: the target.
CompleteTarget(p) ==
    /\ finish[p] # None /\ finish[p].step = "ready"
    /\ LET j == finish[p].job IN
       /\ target' = [target EXCEPT ![<<j, p>>] = "ready"]
       /\ last' = [last EXCEPT ![p] = j]
    /\ finish' = [finish EXCEPT ![p].step = "marked"]
    /\ UNCHANGED <<catalogue, job, installed, admin, worker, progress, lag>>

\* Mutant: the version that was published last.
InstallLatest(p) ==
    /\ finish[p] # None /\ finish[p].step = "marked"
    /\ \E v \in published :
           /\ \A u \in published : u <= v
           /\ installed' = [installed EXCEPT ![p] = IF @ = None THEN None ELSE v]
    /\ lag' = lag \ {p}
    /\ finish' = [finish EXCEPT ![p] = None]
    /\ UNCHANGED <<catalogue, job, target, admin, worker, progress, last>>

\* Then the installation row, if the PC has one, and the answer.
CompleteInstallation(p) ==
    /\ finish[p] # None /\ finish[p].step = "marked"
    /\ installed' = [installed EXCEPT ![p] =
                        IF @ = None THEN None ELSE job[finish[p].job].version]
    /\ lag' = lag \ {p}
    /\ finish' = [finish EXCEPT ![p] = None]
    /\ UNCHANGED <<catalogue, job, target, admin, worker, progress, last>>

\* The report is lost, a statement fails or the API stops.
BreakEnd(p) ==
    /\ finish[p] # None
    /\ lag' = IF finish[p].step = "marked" THEN lag \cup {p} ELSE lag
    /\ finish' = [finish EXCEPT ![p] = None]
    /\ UNCHANGED <<catalogue, tables, admin, worker, progress, last>>

\* handleDeploymentTargetFail.
FailTarget(p) ==
    /\ finish[p] # None /\ finish[p].step = "failed"
    /\ target' = [target EXCEPT ![<<finish[p].job, p>>] = "failed"]
    /\ finish' = [finish EXCEPT ![p] = None]
    /\ UNCHANGED <<catalogue, job, installed, admin, worker, progress, last, lag>>

-----------------------------------------------------------------------------

Next ==
    \/ CreateGame \/ PatchGame \/ \E v \in Versions : CreateGameVersion(v)
    \/ \E j \in Jobs :
           \/ \E v \in Versions, pcs \in SUBSET PCs : InsertJob(j, v, pcs)
           \/ InsertTargets(j) \/ BreakCreation(j)
    \/ \E a \in Admins :
           \/ \E j \in Jobs, p \in PCs : Pause(a, j, p) \/ Resume(a, j, p)
           \/ WriteTarget(a)
    \/ \E p \in PCs :
           \/ TakeUp(p) \/ GiveUp(p)
           \/ \E state \in Reported : ReportProgress(p, state)
           \/ \E outcome \in Terminal : ReportEnd(p, outcome)
           \/ Progress(p) \/ LoseProgress(p)
           \/ CompleteTarget(p) \/ CompleteInstallation(p)
           \/ BreakEnd(p) \/ FailTarget(p)

Spec == Init /\ [][Next]_vars

-----------------------------------------------------------------------------
(* Properties.                                                             *)

\* A target that is over is opened again only by someone who has read it as
\* open: a pause or resume still in progress, or a report of progress that
\* comes late, on work that was taken up before it was over.
OverStaysOver ==
    [][\A j \in Jobs, p \in PCs :
          target[<<j, p>>] \in Terminal /\ target'[<<j, p>>] \notin Terminal =>
              \/ \E a \in Admins : /\ admin[a] # None /\ admin[a].open
                                   /\ admin[a].job = j /\ admin[a].pc = p
              \/ /\ progress[p] # None /\ progress[p].open
                 /\ progress[p].job = j]_vars

\* Once a PC has made a job ready, its installation is of that version, but
\* between the two updates and after a break there (the target is ready, so
\* nothing repeats the second).
InstallationKeepsUp ==
    \A p \in PCs :
        (/\ installed[p] # None /\ p \notin lag
         /\ finish[p] # None => finish[p].step # "marked")
        => installed[p] = IF last[p] = None THEN NoVersion
                          ELSE job[last[p]].version
=============================================================================

----------------------------- MODULE Enrollment -----------------------------
(***************************************************************************)
(* PCs and the machines that are them: registration at the desk, pairing   *)
(* by code, enrollment by token, credentials, status, and deletion.        *)
(*                                                                         *)
(* One cafe, whose enrollment token is valid.  A machine's fingerprint is  *)
(* its own.  A request whose answer nobody waits for any more goes on at   *)
(* the server, so requests of one machine overlap.                         *)
(***************************************************************************)
EXTENDS Integers, FiniteSets

CONSTANTS
    Machines, Codes,
    PCs, Tokens,    \* random identifiers
    Slots,          \* requests the server can work on at once
    Enrolling,      \* machines that have an enrollment token; others a code
    None,
    MaxDeskActions, \* bound on what administrators do
    MaxGiveUps      \* bound on requests the agent stops waiting for

ASSUME EnrollingAssumption == Enrolling \subseteq Machines
ASSUME EnrollmentBounds == {MaxDeskActions, MaxGiveUps} \subseteq Nat

VARIABLES
    pc,         \* rows of pcs
    cred,       \* rows of device_credentials, whose key is the PC
    code,       \* rows of pairing_codes
    doomed,     \* PCs on which delete-pc ran, or began to
    slot,       \* requests in progress at the server
    agent,      \* per machine the stored identity, and the request it awaits
    desk, gaveUp

pcVars == <<pc, cred, code, doomed>>
budgets == <<desk, gaveUp>>
vars == <<pcVars, slot, agent, budgets>>

\* "disabled" is treated like "maintenance" by every handler.
Status == {"online", "offline", "maintenance"}

\* A machine asks for its host name, <<m, 1>>; <<m, 2>> is "name-2".
Names == Machines \X Nat
PcRow == [name : Names, machine : Machines \cup {None}, status : Status,
          reported : BOOLEAN]
Credential == [token : Tokens, revoked : BOOLEAN]
Code == [pc : PCs, used : BOOLEAN, expired : BOOLEAN]
Attempt == [machine : Machines, code : Codes \cup {None},
            step : {"sent", "new", "known", "named", "revoked", "issued",
                    "failed"},
            pc : PCs \cup {None}, token : Tokens \cup {None}]
Identity == [pc : PCs \cup {None}, token : Tokens \cup {None},
             awaits : Slots \cup {None}]

ASSUME EnrollmentNone ==
    /\ None \notin Machines \cup Codes \cup PCs \cup Tokens \cup Slots
    /\ None \notin PcRow /\ None \notin Credential /\ None \notin Code
    /\ None \notin Attempt

Unpaired == [pc |-> None, token |-> None, awaits |-> None]

EnrollTypeOK ==
    /\ pc \in [PCs -> PcRow \cup {None}]
    /\ cred \in [PCs -> Credential \cup {None}]
    /\ code \in [Codes -> Code \cup {None}]
    /\ doomed \in SUBSET PCs
    /\ slot \in [Slots -> Attempt \cup {None}]
    /\ agent \in [Machines -> Identity]
    /\ desk \in 0 .. MaxDeskActions /\ gaveUp \in 0 .. MaxGiveUps

Init ==
    /\ pc = [p \in PCs |-> None]
    /\ cred = [p \in PCs |-> None]
    /\ code = [c \in Codes |-> None]
    /\ doomed = {}
    /\ slot = [s \in Slots |-> None]
    /\ agent = [m \in Machines |-> Unpaired]
    /\ desk = 0 /\ gaveUp = 0

Rows == {p \in PCs : pc[p] # None}
NameTaken(name, p) == \E q \in Rows \ {p} : pc[q].name = name

\* loadDeviceByToken and requireDevice.
Accepted(m) ==
    \E p \in Rows :
        /\ cred[p] # None /\ ~cred[p].revoked
        /\ agent[m].token = cred[p].token /\ agent[m].pc = p

\* Identifiers are random: one that is in use anywhere is not drawn again.
Slotted == {slot[s] : s \in {t \in Slots : slot[t] # None}}
UnusedTokens ==
    Tokens \ ({cred[p].token : p \in {q \in PCs : cred[q] # None}}
              \cup {a.token : a \in Slotted}
              \cup {agent[m].token : m \in Machines})
FreshToken(t) == t \in UnusedTokens /\ t = CHOOSE u \in UnusedTokens : TRUE
UnusedPCs ==
    PCs \ (Rows \cup {a.pc : a \in Slotted} \cup {agent[m].pc : m \in Machines})
FreshPc(p) == p \in UnusedPCs /\ p = CHOOSE q \in UnusedPCs : TRUE

-----------------------------------------------------------------------------
(* The desk.                                                               *)

DeskActs ==
    /\ desk < MaxDeskActions
    /\ desk' = desk + 1
    /\ UNCHANGED <<slot, agent, gaveUp>>

CreatePc(p) ==
    /\ FreshPc(p)
    /\ \E name \in Machines \X {1} :
           /\ ~NameTaken(name, p)
           /\ pc' = [pc EXCEPT ![p] = [name |-> name, machine |-> None,
                                       status |-> "offline", reported |-> FALSE]]
    /\ DeskActs
    /\ UNCHANGED <<cred, code, doomed>>

PatchPc(p) ==
    /\ p \in Rows
    /\ \E s \in Status \ {pc[p].status} : pc' = [pc EXCEPT ![p].status = s]
    /\ DeskActs
    /\ UNCHANGED <<cred, code, doomed>>

CreatePairingCode(p, c) ==
    /\ p \in Rows /\ code[c] = None
    /\ code' = [code EXCEPT ![c] = [pc |-> p, used |-> FALSE, expired |-> FALSE]]
    /\ DeskActs
    /\ UNCHANGED <<pc, cred, doomed>>

\* delete-pc.ts, up to and including the credentials; each statement stands
\* for itself.
DeleteCredentials(p) ==
    /\ p \in Rows \ doomed
    /\ code' = [c \in Codes |-> IF code[c] # None /\ code[c].pc = p
                                THEN None ELSE code[c]]
    /\ cred' = [cred EXCEPT ![p] = None]
    /\ doomed' = doomed \cup {p}
    /\ DeskActs
    /\ UNCHANGED pc

\* The last statement; refused while rows refer to the PC.
DeletePc(p) ==
    /\ p \in Rows \cap doomed /\ cred[p] = None
    /\ \A c \in Codes : code[c] # None => code[c].pc # p
    /\ pc' = [pc EXCEPT ![p] = None]
    /\ doomed' = doomed \ {p}
    /\ DeskActs
    /\ UNCHANGED <<cred, code>>

\* Fifteen minutes pass.
ExpireCode(c) ==
    /\ code[c] # None /\ ~code[c].expired
    /\ code' = [code EXCEPT ![c].expired = TRUE]
    /\ UNCHANGED <<pc, cred, doomed, slot, agent, budgets>>

-----------------------------------------------------------------------------
(* The agent's side of pairing.                                            *)

\* PairIfNeededAsync.
SendRequest(m, s, c) ==
    /\ agent[m].token = None /\ agent[m].awaits = None
    /\ slot[s] = None
    /\ IF m \in Enrolling THEN c = None ELSE c \in Codes
    /\ slot' = [slot EXCEPT ![s] = [machine |-> m, code |-> c, step |-> "sent",
                                    pc |-> None, token |-> None]]
    /\ agent' = [agent EXCEPT ![m].awaits = s]
    /\ UNCHANGED <<pcVars, budgets>>

\* StoreIdentity, or the failure that is logged.
ReceiveAnswer(m) ==
    LET s == agent[m].awaits IN
    /\ s # None /\ slot[s].step \in {"issued", "failed"}
    /\ agent' = [agent EXCEPT ![m] =
           IF slot[s].step = "failed" THEN Unpaired
           ELSE [pc |-> slot[s].pc, token |-> slot[s].token, awaits |-> None]]
    /\ slot' = [slot EXCEPT ![s] = None]
    /\ UNCHANGED <<pcVars, budgets>>

GiveUp(m) ==
    /\ agent[m].awaits # None
    /\ gaveUp < MaxGiveUps
    /\ gaveUp' = gaveUp + 1
    /\ agent' = [agent EXCEPT ![m].awaits = None]
    /\ UNCHANGED <<pcVars, slot, desk>>

\* The answer to a request nobody waits for goes nowhere.
DropAnswer(s) ==
    /\ slot[s] # None /\ slot[s].step \in {"issued", "failed"}
    /\ \A m \in Machines : agent[m].awaits # s
    /\ slot' = [slot EXCEPT ![s] = None]
    /\ UNCHANGED <<pcVars, agent, budgets>>

\* Mutant: a PC that the server does not have any more is waited for.
ClearIfRevoked(m) ==
    /\ agent[m].token # None /\ ~Accepted(m)
    /\ agent[m].pc \in Rows
    /\ agent' = [agent EXCEPT ![m] = Unpaired]
    /\ UNCHANGED <<pcVars, slot, budgets>>

\* The stream is refused with 401: the identity is cleared.
ClearIdentity(m) ==
    /\ agent[m].token # None /\ ~Accepted(m)
    /\ agent' = [agent EXCEPT ![m] = Unpaired]
    /\ UNCHANGED <<pcVars, slot, budgets>>

-----------------------------------------------------------------------------
(* handleDevicePair.                                                       *)

Moves(s, step) == slot' = [slot EXCEPT ![s].step = step]
Chooses(s, step, p) == slot' = [slot EXCEPT ![s] = [@ EXCEPT !.step = step, !.pc = p]]
Answers(s, t) == slot' = [slot EXCEPT ![s] = [@ EXCEPT !.step = "issued", !.token = t]]

\* The SELECT of an unused code, without a lock.
ReadCode(s) ==
    /\ slot[s] # None /\ slot[s].step = "sent" /\ slot[s].code # None
    /\ LET c == code[slot[s].code] IN
       IF c # None /\ ~c.used /\ ~c.expired
       THEN Chooses(s, "known", c.pc)
       ELSE Moves(s, "failed")
    /\ UNCHANGED <<pcVars, agent, budgets>>

Paired(p, m) == [pc EXCEPT ![p].machine = m]

\* Code, credential (an upsert) and fingerprint are committed together.
WritePairing(s) ==
    /\ slot[s] # None /\ slot[s].step = "known" /\ slot[s].code # None
    /\ LET p == slot[s].pc
           c == slot[s].code
       IN  IF pc[p] = None
           THEN Moves(s, "failed") /\ UNCHANGED pcVars
           ELSE \E t \in Tokens :
                  /\ FreshToken(t)
                  /\ UNCHANGED doomed
                  /\ code' = IF code[c] = None THEN code
                             ELSE [code EXCEPT ![c].used = TRUE]
                  /\ cred' = [cred EXCEPT ![p] = [token |-> t, revoked |-> FALSE]]
                  /\ pc' = Paired(p, slot[s].machine)
                  /\ Answers(s, t)
    /\ UNCHANGED <<agent, budgets>>

-----------------------------------------------------------------------------
(* handleDeviceEnroll, no two statements of which are one transaction.     *)

Enrolls(s, step) ==
    slot[s] # None /\ slot[s].code = None /\ slot[s].step = step

\* The PC with the machine's fingerprint, any if there are several.
FindPc(s) ==
    /\ Enrolls(s, "sent")
    /\ LET known == {p \in Rows : pc[p].machine = slot[s].machine} IN
       IF known = {} THEN Moves(s, "new")
       ELSE \E p \in known : Chooses(s, "known", p)
    /\ UNCHANGED <<pcVars, agent, budgets>>

\* The name of a known PC is set to the host name, which may be taken.
RenamePc(s) ==
    /\ Enrolls(s, "known")
    /\ LET p == slot[s].pc
           name == <<slot[s].machine, 1>>
       IN  IF pc[p] # None /\ NameTaken(name, p)
           THEN Moves(s, "failed") /\ UNCHANGED pc
           ELSE /\ Moves(s, "named")
                /\ pc' = IF pc[p] = None THEN pc ELSE [pc EXCEPT ![p].name = name]
    /\ UNCHANGED <<cred, code, doomed, agent, budgets>>

\* A new PC under the first name that is free; the INSERT fails if somebody
\* took that name after the names were read.
InsertPc(s) ==
    /\ Enrolls(s, "new")
    /\ \/ \E p \in PCs :
              LET m == slot[s].machine
                  free == {i \in 1 .. Cardinality(PCs) : ~NameTaken(<<m, i>>, p)}
              IN  /\ FreshPc(p)
                  /\ \E i \in free :
                         /\ \A k \in free : i <= k
                         /\ pc' = [pc EXCEPT ![p] =
                                [name |-> <<m, i>>, machine |-> m,
                                 status |-> "online", reported |-> FALSE]]
                  /\ Chooses(s, "named", p)
       \/ /\ \E t \in Slots \ {s} : slot[t] # None /\ slot[t].pc # None
          /\ Moves(s, "failed")
          /\ UNCHANGED pc
    /\ UNCHANGED <<cred, code, doomed, agent, budgets>>

RevokeOld(s) ==
    /\ Enrolls(s, "named")
    /\ Moves(s, "revoked")
    /\ LET p == slot[s].pc IN
       cred' = IF cred[p] = None THEN cred ELSE [cred EXCEPT ![p].revoked = TRUE]
    /\ UNCHANGED <<pc, code, doomed, agent, budgets>>

\* Mutant: the credential is replaced, as handleDevicePair does.
UpsertCredential(s) ==
    /\ Enrolls(s, "revoked")
    /\ LET p == slot[s].pc IN
       IF pc[p] = None
       THEN Moves(s, "failed") /\ UNCHANGED cred
       ELSE \E t \in Tokens :
              /\ FreshToken(t)
              /\ cred' = [cred EXCEPT ![p] = [token |-> t, revoked |-> FALSE]]
              /\ Answers(s, t)
    /\ UNCHANGED <<pc, code, doomed, agent, budgets>>

\* A plain INSERT: it fails if the PC has a credential, revoked or not.
InsertCredential(s) ==
    /\ Enrolls(s, "revoked")
    /\ LET p == slot[s].pc IN
       IF pc[p] = None \/ cred[p] # None
       THEN Moves(s, "failed") /\ UNCHANGED cred
       ELSE \E t \in Tokens :
              /\ FreshToken(t)
              /\ cred' = [cred EXCEPT ![p] = [token |-> t, revoked |-> FALSE]]
              /\ Answers(s, t)
    /\ UNCHANGED <<pc, code, doomed, agent, budgets>>

-----------------------------------------------------------------------------
(* Health reports and the sweep.                                           *)

\* Mutant: a report puts the PC online whatever its status.
HealthAlwaysOnline(m) ==
    /\ Accepted(m)
    /\ pc' = [pc EXCEPT ![agent[m].pc] = [@ EXCEPT !.reported = TRUE,
                                                  !.status = "online"]]
    /\ UNCHANGED <<cred, code, doomed, slot, agent, budgets>>

\* handleAgentHealth: only a PC that is offline or online becomes online.
Health(m) ==
    /\ Accepted(m)
    /\ LET p == agent[m].pc
           status == IF pc[p].status \in {"offline", "online"}
                     THEN "online" ELSE pc[p].status
       IN  pc' = [pc EXCEPT ![p] = [pc[p] EXCEPT !.reported = TRUE, !.status = status]]
    /\ UNCHANGED <<cred, code, doomed, slot, agent, budgets>>

\* Some PCs sent no report for ten minutes.  One that never sent any has no
\* last report, and is not found.
MarkStalePcsOffline ==
    /\ \E stale \in SUBSET {p \in Rows : pc[p].status = "online" /\ pc[p].reported} :
           /\ stale # {}
           /\ pc' = [p \in PCs |-> IF p \in stale
                                  THEN [pc[p] EXCEPT !.status = "offline"] ELSE pc[p]]
    /\ UNCHANGED <<cred, code, doomed, slot, agent, budgets>>

-----------------------------------------------------------------------------

Desk ==
    \E p \in PCs :
        \/ CreatePc(p) \/ PatchPc(p) \/ DeleteCredentials(p) \/ DeletePc(p)
        \/ \E c \in Codes : CreatePairingCode(p, c)

Serve(s) ==
    \/ ReadCode(s) \/ WritePairing(s)
    \/ FindPc(s) \/ RenamePc(s) \/ InsertPc(s) \/ RevokeOld(s)
    \/ InsertCredential(s)

Ask(m) == \E s \in Slots, c \in Codes \cup {None} : SendRequest(m, s, c)

Next ==
    \/ Desk
    \/ \E c \in Codes : ExpireCode(c)
    \/ \E m \in Machines :
           Ask(m) \/ ReceiveAnswer(m) \/ GiveUp(m) \/ ClearIdentity(m) \/ Health(m)
    \/ \E s \in Slots : DropAnswer(s) \/ Serve(s)
    \/ MarkStalePcsOffline

Spec == Init /\ [][Next]_vars

\* The server finishes what it began, the agent asks again when its stream
\* reconnects, and takes the answer.
FairSpec ==
    /\ Spec
    /\ \A s \in Slots : WF_vars(Serve(s)) /\ WF_vars(DropAnswer(s))
    /\ \A m \in Machines :
           SF_vars(Ask(m)) /\ WF_vars(ReceiveAnswer(m)) /\ WF_vars(ClearIdentity(m))

-----------------------------------------------------------------------------
(* Properties.                                                             *)

\* A machine whose identity the server accepts is the machine the PC's row
\* names, however requests with codes and with the token race for the PC, fail
\* and are repeated; only a deletion that was begun can mix up the two.
CredentialMatchesMachine ==
    \A m \in Machines : Accepted(m) /\ agent[m].pc \notin doomed
                            => pc[agent[m].pc].machine = m

\* A PC in maintenance or disabled stays so until the desk says otherwise:
\* neither reports nor the sweep nor an enrollment change that.
StatusKept ==
    [][\A p \in Rows :
          (/\ pc[p].status = "maintenance"
           /\ pc'[p] # None /\ pc'[p].status # pc[p].status) => desk' > desk]_vars

\* Enrollment is repeated in vain for a known PC that has a credential, even a
\* revoked one, and for one whose host name another PC has.
KeptOut(m) ==
    \E p \in Rows : /\ pc[p].machine = m
                    /\ cred[p] # None \/ NameTaken(<<m, 1>>, p)

\* A machine with an enrollment token that the server does not accept (any
\* more) clears its identity, enrolls and is accepted again, unless it is kept
\* out for one of these two reasons.
ComesBack ==
    \A m \in Enrolling : ~Accepted(m) ~> (Accepted(m) \/ KeptOut(m))
=============================================================================

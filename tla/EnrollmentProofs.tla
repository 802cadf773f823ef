-------------------------- MODULE EnrollmentProofs --------------------------
(***************************************************************************)
(* Proofs about Enrollment, for any number of machines, PCs, codes and     *)
(* requests, and any number of actions of the desk.                        *)
(*                                                                         *)
(* A machine gets its credential from the answer it awaits, which was      *)
(* written for it (AwaitsOwn), so whoever holds the current credential of  *)
(* a PC, in an answer or stored, is the machine of the PC's row            *)
(* (HoldersMatch).  An enrollment under way may have lost its PC to a code *)
(* since it read the row, but then the PC has a credential, and the INSERT *)
(* of another one fails (EnrollingMatches).                                *)
(***************************************************************************)
EXTENDS Enrollment, TLAPS

\* Machine m holds the token t of the PC p, or will when it takes its answer.
Holds(m, p, t) ==
    \/ agent[m].pc = p /\ agent[m].token = t
    \/ \E s \in Slots : /\ slot[s] # None
                        /\ slot[s].machine = m /\ slot[s].step = "issued"
                        /\ slot[s].pc = p /\ slot[s].token = t

AwaitsOwn ==
    \A m \in Machines : agent[m].awaits # None =>
        slot[agent[m].awaits] # None /\ slot[agent[m].awaits].machine = m

PcChosen ==
    \A s \in Slots : slot[s] # None =>
        (slot[s].step \in {"known", "named", "revoked", "issued"} => slot[s].pc \in PCs)

HoldersMatch ==
    \A m \in Machines, p \in PCs :
        /\ pc[p] # None /\ p \notin doomed /\ cred[p] # None
        /\ Holds(m, p, cred[p].token)
        => pc[p].machine = m

EnrollingMatches ==
    \A s \in Slots :
        /\ slot[s] # None /\ slot[s].code = None
        /\ slot[s].step \in {"known", "named", "revoked"}
        /\ pc[slot[s].pc] # None /\ slot[s].pc \notin doomed
        => cred[slot[s].pc] # None \/ pc[slot[s].pc].machine = slot[s].machine

EnrollInv ==
    /\ EnrollTypeOK
    /\ AwaitsOwn
    /\ PcChosen
    /\ HoldersMatch
    /\ EnrollingMatches

-----------------------------------------------------------------------------
(* The start, and fresh identifiers.                                       *)

LEMMA EnrollInvInitially == Init => EnrollInv
<1> SUFFICES ASSUME Init PROVE EnrollInv
  OBVIOUS
<1>1. EnrollTypeOK
  BY EnrollmentBounds DEF Init, EnrollTypeOK, Unpaired, Identity
<1> QED
  BY <1>1 DEF Init, EnrollInv, AwaitsOwn, PcChosen, HoldersMatch, EnrollingMatches, Unpaired

\* Nobody has a fresh token ...
LEMMA FreshTokenIsNew ==
  ASSUME NEW t, FreshToken(t)
  PROVE  /\ t \in Tokens
         /\ \A p \in PCs : cred[p] # None => cred[p].token # t
         /\ \A s \in Slots : slot[s] # None => slot[s].token # t
         /\ \A m \in Machines : agent[m].token # t
BY DEF FreshToken, UnusedTokens, Slotted

\* ... and nobody refers to a fresh PC.
LEMMA FreshPcIsNew ==
  ASSUME NEW p, FreshPc(p)
  PROVE  /\ p \in PCs /\ pc[p] = None
         /\ \A s \in Slots : slot[s] # None => slot[s].pc # p
         /\ \A m \in Machines : agent[m].pc # p
BY DEF FreshPc, UnusedPCs, Slotted, Rows

-----------------------------------------------------------------------------
(* Steps by what they leave alone.                                         *)

\* Steps of the desk, reports and the sweep: a row that there is names the
\* machine it named, unless it is new, and keeps its credential, unless it is
\* being deleted.
LEMMA RowsKeepInv ==
  ASSUME EnrollInv, UNCHANGED <<slot, agent>>, EnrollTypeOK',
         \A p \in PCs : pc'[p] # None /\ p \notin doomed' =>
             \/ pc[p] # None /\ p \notin doomed /\ pc'[p].machine = pc[p].machine
             \/ /\ \A s \in Slots : slot[s] # None => slot[s].pc # p
                /\ \A m \in Machines : agent[m].pc # p,
         \A p \in PCs : p \notin doomed' => cred'[p] = cred[p]
  PROVE  EnrollInv'
<1>1. AwaitsOwn' /\ PcChosen'
  BY DEF EnrollInv, AwaitsOwn, PcChosen
<1>2. HoldersMatch'
  BY DEF EnrollInv, HoldersMatch, Holds
<1>3. EnrollingMatches'
  BY DEF EnrollInv, EnrollingMatches, PcChosen
<1> QED
  BY <1>1, <1>2, <1>3 DEF EnrollInv

\* Steps of the agent, and answers that are dropped: somebody who has a token
\* had it, or awaited it.
LEMMA AgentKeepsInv ==
  ASSUME EnrollInv, UNCHANGED <<pc, cred, doomed>>, EnrollTypeOK', AwaitsOwn',
         \A s \in Slots : slot'[s] # None => slot'[s] = slot[s] \/ slot'[s].step = "sent",
         \A m \in Machines :
             \/ agent'[m].token = agent[m].token /\ agent'[m].pc = agent[m].pc
             \/ agent'[m].token = None
             \/ \E s \in Slots : /\ slot[s] # None
                                 /\ slot[s].machine = m /\ slot[s].step = "issued"
                                 /\ slot[s].pc = agent'[m].pc
                                 /\ slot[s].token = agent'[m].token
  PROVE  EnrollInv'
<1>1. PcChosen'
  BY DEF EnrollInv, PcChosen
<1>2. \A p \in PCs : cred[p] # None => cred[p].token \in Tokens /\ cred[p].token # None
  BY EnrollmentNone DEF EnrollInv, EnrollTypeOK, Credential
<1>3. HoldersMatch'
  BY <1>2 DEF EnrollInv, HoldersMatch, Holds
<1>4. EnrollingMatches'
  BY DEF EnrollInv, EnrollingMatches
<1> QED
  BY <1>1, <1>3, <1>4 DEF EnrollInv

\* Steps of the server that issue nothing: they change one request, and rows
\* and credentials only so that nothing here depends on it.
LEMMA SlotKeepsInv ==
  ASSUME EnrollInv, UNCHANGED <<doomed, agent>>, EnrollTypeOK',
         NEW s \in Slots, slot[s] # None, NEW a \in Attempt,
         slot' = [slot EXCEPT ![s] = a],
         a.machine = slot[s].machine, a.step # "issued",
         a.step \in {"known", "named", "revoked"} => a.pc \in PCs,
         \A p \in PCs : pc'[p] # None =>
             \/ pc[p] # None /\ pc'[p].machine = pc[p].machine
             \/ /\ \A r \in Slots : slot[r] # None => slot[r].pc # p
                /\ \A m \in Machines : agent[m].pc # p,
         \A p \in PCs : cred'[p] # None <=> cred[p] # None,
         \A p \in PCs : cred[p] # None => cred'[p].token = cred[p].token,
         /\ a.code = None /\ a.step \in {"known", "named", "revoked"}
         /\ pc'[a.pc] # None /\ a.pc \notin doomed
         => cred'[a.pc] # None \/ pc'[a.pc].machine = a.machine
  PROVE  EnrollInv'
<1> USE DEF EnrollInv, EnrollTypeOK
<1>1. AwaitsOwn'
  BY EnrollmentNone DEF AwaitsOwn
<1>2. PcChosen'
  BY DEF PcChosen
<1>3. HoldersMatch'
  BY DEF HoldersMatch, Holds
<1>4. EnrollingMatches'
  BY DEF EnrollingMatches, PcChosen
<1> QED
  BY <1>1, <1>2, <1>3, <1>4

\* Steps that give a PC a credential and answer the request with it.
LEMMA IssueKeepsInv ==
  ASSUME EnrollInv, UNCHANGED <<doomed, agent>>, EnrollTypeOK',
         NEW s \in Slots, slot[s] # None, NEW a \in Attempt, NEW p \in PCs,
         NEW t, FreshToken(t),
         a.machine = slot[s].machine, a.step = "issued", a.pc = p, a.token = t,
         slot' = [slot EXCEPT ![s] = a],
         cred' = [cred EXCEPT ![p] = [token |-> t, revoked |-> FALSE]],
         \A q \in PCs \ {p} : pc'[q] = pc[q],
         pc'[p] # None /\ p \notin doomed => pc'[p].machine = a.machine
  PROVE  EnrollInv'
<1> USE DEF EnrollInv, EnrollTypeOK
<1>1. AwaitsOwn'
  BY EnrollmentNone DEF AwaitsOwn
<1>2. PcChosen'
  BY DEF PcChosen
<1>3. cred'[p] = [token |-> t, revoked |-> FALSE]
  OBVIOUS
<1>4. \A m \in Machines, q \in PCs \ {p}, u \in Tokens : Holds(m, q, u)' => Holds(m, q, u)
  BY DEF Holds
<1>5. \A m \in Machines : Holds(m, p, t)' => m = a.machine
  BY FreshTokenIsNew DEF Holds
<1>6. HoldersMatch'
  <2>1. cred'[p].token = t /\ \A q \in PCs \ {p} : cred'[q] = cred[q]
    BY <1>3
  <2>2. \A q \in PCs : cred'[q] # None => cred'[q].token \in Tokens
    BY DEF Credential
  <2> SUFFICES ASSUME NEW m \in Machines, NEW q \in PCs, NEW u \in Tokens,
                      pc'[q] # None, q \notin doomed, cred'[q] # None,
                      cred'[q].token = u, Holds(m, q, u)'
               PROVE  pc'[q].machine = m
    BY <2>2 DEF HoldersMatch, Holds
  <2>3. CASE q = p
    BY <2>1, <2>3, <1>5
  <2>4. CASE q # p
    <3>1. Holds(m, q, u)
      BY <2>4, <1>4
    <3> QED
      BY <2>1, <2>4, <3>1 DEF HoldersMatch
  <2> QED
    BY <2>3, <2>4
<1>7. EnrollingMatches'
  <2> SUFFICES ASSUME NEW r \in Slots, slot'[r] # None, slot'[r].code = None,
                      slot'[r].step \in {"known", "named", "revoked"},
                      pc'[slot'[r].pc] # None, slot'[r].pc \notin doomed'
               PROVE  \/ cred'[slot'[r].pc] # None
                      \/ pc'[slot'[r].pc].machine = slot'[r].machine
    BY DEF EnrollingMatches
  <2>1. r # s /\ slot'[r] = slot[r] /\ slot[r].pc \in PCs
    BY DEF PcChosen
  <2>2. CASE slot[r].pc = p
    <3>1. cred'[p] # None
      <4>1. [token |-> t, revoked |-> FALSE] \in Credential
        BY FreshTokenIsNew DEF Credential
      <4> QED
        BY <1>3, <4>1, EnrollmentNone
    <3>2. slot'[r].pc = p
      BY <2>1, <2>2
    <3> QED
      BY <3>1, <3>2
  <2>3. CASE slot[r].pc # p
    BY <2>1, <2>3 DEF EnrollingMatches
  <2> QED
    BY <2>2, <2>3
<1> QED
  BY <1>1, <1>2, <1>6, <1>7

-----------------------------------------------------------------------------
(* The desk, reports and the sweep.                                        *)

LEMMA CreatePcKeepsInv ==
  ASSUME EnrollInv, NEW p \in PCs, CreatePc(p) PROVE EnrollInv'
<1>1. PICK name \in Machines \X {1} :
          pc' = [pc EXCEPT ![p] = [name |-> name, machine |-> None,
                                   status |-> "offline", reported |-> FALSE]]
  BY DEF CreatePc
<1>2. [name |-> name, machine |-> None, status |-> "offline", reported |-> FALSE] \in PcRow
  BY DEF PcRow, Names, Status
<1>3. EnrollTypeOK'
  <2>1. pc' \in [PCs -> PcRow \cup {None}]
    BY <1>1, <1>2 DEF EnrollInv, EnrollTypeOK
  <2>2. desk' \in 0 .. MaxDeskActions /\ gaveUp' \in 0 .. MaxGiveUps
    BY EnrollmentBounds DEF EnrollInv, EnrollTypeOK, CreatePc, DeskActs
  <2> QED
    BY <2>1, <2>2 DEF EnrollInv, EnrollTypeOK, CreatePc, DeskActs
<1>4. \A q \in PCs : q # p => pc'[q] = pc[q]
  BY <1>1 DEF EnrollInv, EnrollTypeOK
<1> QED
  BY <1>3, <1>4, FreshPcIsNew, RowsKeepInv DEF CreatePc, DeskActs

LEMMA PatchPcKeepsInv ==
  ASSUME EnrollInv, NEW p \in PCs, PatchPc(p) PROVE EnrollInv'
<1>1. PICK st \in Status : pc' = [pc EXCEPT ![p].status = st]
  BY DEF PatchPc
<1>2. pc[p] \in PcRow
  BY DEF EnrollInv, EnrollTypeOK, PatchPc, Rows
<1>3. PICK row \in PcRow : pc' = [pc EXCEPT ![p] = row] /\ row.machine = pc[p].machine
  <2>1. [pc[p] EXCEPT !.status = st] \in PcRow
    BY <1>2 DEF PcRow
  <2> QED
    BY <1>1, <1>2, <2>1 DEF PcRow, EnrollInv, EnrollTypeOK
<1>4. EnrollTypeOK'
  BY <1>3, EnrollmentBounds DEF EnrollInv, EnrollTypeOK, PatchPc, DeskActs
<1>5. \A q \in PCs : pc'[q] # None => pc[q] # None /\ pc'[q].machine = pc[q].machine
  BY <1>2, <1>3, EnrollmentNone DEF EnrollInv, EnrollTypeOK
<1> QED
  BY <1>4, <1>5, RowsKeepInv DEF PatchPc, DeskActs

LEMMA CreatePairingCodeKeepsInv ==
  ASSUME EnrollInv, NEW p \in PCs, NEW c \in Codes, CreatePairingCode(p, c) PROVE EnrollInv'
<1>1. [pc |-> p, used |-> FALSE, expired |-> FALSE] \in Code
  BY DEF Code
<1>2. EnrollTypeOK'
  BY <1>1, EnrollmentBounds DEF EnrollInv, EnrollTypeOK, CreatePairingCode, DeskActs
<1> QED
  BY <1>2, RowsKeepInv DEF CreatePairingCode, DeskActs

LEMMA DeleteCredentialsKeepsInv ==
  ASSUME EnrollInv, NEW p \in PCs, DeleteCredentials(p) PROVE EnrollInv'
<1>1. EnrollTypeOK'
  BY EnrollmentBounds DEF EnrollInv, EnrollTypeOK, DeleteCredentials, DeskActs
<1>2. \A q \in PCs : q \notin doomed' => q \notin doomed /\ cred'[q] = cred[q]
  BY DEF EnrollInv, EnrollTypeOK, DeleteCredentials
<1> QED
  BY <1>1, <1>2, RowsKeepInv DEF DeleteCredentials, DeskActs

LEMMA DeletePcKeepsInv ==
  ASSUME EnrollInv, NEW p \in PCs, DeletePc(p) PROVE EnrollInv'
<1>1. EnrollTypeOK'
  BY EnrollmentBounds DEF EnrollInv, EnrollTypeOK, DeletePc, DeskActs
<1>2. \A q \in PCs : pc'[q] # None /\ q \notin doomed' =>
          pc[q] # None /\ q \notin doomed /\ pc'[q].machine = pc[q].machine
  BY DEF EnrollInv, EnrollTypeOK, DeletePc
<1> QED
  BY <1>1, <1>2, RowsKeepInv DEF DeletePc, DeskActs

LEMMA ExpireCodeKeepsInv ==
  ASSUME EnrollInv, NEW c \in Codes, ExpireCode(c) PROVE EnrollInv'
<1>1. [code[c] EXCEPT !.expired = TRUE] \in Code
  BY DEF EnrollInv, EnrollTypeOK, ExpireCode, Code
<1>2. EnrollTypeOK'
  BY <1>1 DEF EnrollInv, EnrollTypeOK, ExpireCode, budgets
<1> QED
  BY <1>2, RowsKeepInv DEF ExpireCode

LEMMA HealthKeepsInv ==
  ASSUME EnrollInv, NEW m \in Machines, Health(m) PROVE EnrollInv'
<1>1. PICK p \in PCs : agent[m].pc = p /\ pc[p] # None
  BY DEF Health, Accepted, Rows
<1>2. pc[p] \in PcRow
  BY <1>1 DEF EnrollInv, EnrollTypeOK
<1>3. PICK row \in PcRow : pc' = [pc EXCEPT ![p] = row] /\ row.machine = pc[p].machine
  <2>1. PICK st \in Status :
            pc' = [pc EXCEPT ![p] = [pc[p] EXCEPT !.reported = TRUE, !.status = st]]
    BY <1>1, <1>2 DEF Health, PcRow, Status
  <2>2. [pc[p] EXCEPT !.reported = TRUE] \in PcRow
    BY <1>2 DEF PcRow
  <2>3. [pc[p] EXCEPT !.reported = TRUE, !.status = st] \in PcRow
    BY <2>2 DEF PcRow
  <2>4. [pc[p] EXCEPT !.reported = TRUE, !.status = st].machine = pc[p].machine
    BY <1>2 DEF PcRow
  <2> QED
    BY <2>1, <2>3, <2>4
<1>4. EnrollTypeOK'
  BY <1>3 DEF EnrollInv, EnrollTypeOK, Health, budgets
<1>5. \A q \in PCs : pc'[q] # None => pc[q] # None /\ pc'[q].machine = pc[q].machine
  BY <1>1, <1>3 DEF EnrollInv, EnrollTypeOK
<1> QED
  BY <1>4, <1>5, RowsKeepInv DEF Health

LEMMA MarkStalePcsOfflineKeepsInv ==
  ASSUME EnrollInv, MarkStalePcsOffline PROVE EnrollInv'
<1>1. PICK stale \in SUBSET PCs :
          /\ \A p \in stale : pc[p] # None
          /\ pc' = [p \in PCs |-> IF p \in stale THEN [pc[p] EXCEPT !.status = "offline"]
                                  ELSE pc[p]]
  BY DEF MarkStalePcsOffline, Rows
<1>2. \A p \in PCs : pc[p] # None =>
          /\ [pc[p] EXCEPT !.status = "offline"] \in PcRow
          /\ [pc[p] EXCEPT !.status = "offline"].machine = pc[p].machine
  BY DEF EnrollInv, EnrollTypeOK, PcRow, Status
<1>3. EnrollTypeOK'
  <2>1. pc' \in [PCs -> PcRow \cup {None}]
    BY <1>1, <1>2 DEF EnrollInv, EnrollTypeOK
  <2> QED
    BY <2>1 DEF EnrollInv, EnrollTypeOK, MarkStalePcsOffline, budgets
<1>4. \A q \in PCs : pc'[q] # None => pc[q] # None /\ pc'[q].machine = pc[q].machine
  BY <1>1, <1>2
<1> QED
  BY <1>3, <1>4, RowsKeepInv DEF MarkStalePcsOffline

-----------------------------------------------------------------------------
(* The agent.                                                              *)

LEMMA SendRequestKeepsInv ==
  ASSUME EnrollInv, NEW m \in Machines, NEW s \in Slots, NEW c \in Codes \cup {None},
         SendRequest(m, s, c)
  PROVE  EnrollInv'
<1> DEFINE a == [machine |-> m, code |-> c, step |-> "sent", pc |-> None, token |-> None]
<1>1. a \in Attempt
  BY DEF Attempt
<1>2. [agent[m] EXCEPT !.awaits = s] \in Identity
  BY DEF EnrollInv, EnrollTypeOK, Identity
<1>3. /\ slot' = [slot EXCEPT ![s] = a] /\ slot[s] = None
      /\ agent' = [agent EXCEPT ![m] = [agent[m] EXCEPT !.awaits = s]]
  BY DEF SendRequest
<1>4. EnrollTypeOK'
  BY <1>1, <1>2, <1>3 DEF EnrollInv, EnrollTypeOK, SendRequest, pcVars, budgets
<1>5. \A k \in Machines : /\ agent'[k].token = agent[k].token /\ agent'[k].pc = agent[k].pc
                         /\ agent'[k].awaits = IF k = m THEN s ELSE agent[k].awaits
  BY <1>3 DEF EnrollInv, EnrollTypeOK, Identity
<1>6. slot'[s] = a /\ \A r \in Slots \ {s} : slot'[r] = slot[r]
  BY <1>3 DEF EnrollInv, EnrollTypeOK
<1>7. AwaitsOwn'
  BY <1>1, <1>3, <1>5, <1>6, EnrollmentNone DEF EnrollInv, EnrollTypeOK, AwaitsOwn, Identity
<1> QED
  BY <1>4, <1>5, <1>6, <1>7, AgentKeepsInv DEF SendRequest, pcVars

LEMMA ReceiveAnswerKeepsInv ==
  ASSUME EnrollInv, NEW m \in Machines, ReceiveAnswer(m) PROVE EnrollInv'
<1>1. PICK s \in Slots : s = agent[m].awaits
  BY DEF EnrollInv, EnrollTypeOK, ReceiveAnswer, Identity
<1>2. s # None /\ slot[s] \in Attempt /\ slot[s].machine = m
  BY <1>1 DEF EnrollInv, EnrollTypeOK, AwaitsOwn, ReceiveAnswer
<1>3. PICK id \in Identity :
          /\ agent' = [agent EXCEPT ![m] = id]
          /\ id.awaits = None
          /\ \/ id.token = None
             \/ /\ slot[s].step = "issued"
                /\ id.pc = slot[s].pc /\ id.token = slot[s].token
  <2>1. CASE slot[s].step = "failed"
    <3>1. Unpaired \in Identity /\ Unpaired.awaits = None /\ Unpaired.token = None
      BY DEF Unpaired, Identity
    <3>2. agent' = [agent EXCEPT ![m] = Unpaired]
      BY <1>1, <2>1 DEF ReceiveAnswer
    <3> QED
      BY <3>1, <3>2
  <2>2. CASE slot[s].step = "issued"
    <3>1. [pc |-> slot[s].pc, token |-> slot[s].token, awaits |-> None] \in Identity
      BY <1>2 DEF Attempt, Identity
    <3> QED
      BY <1>1, <2>2, <3>1 DEF ReceiveAnswer
  <2> QED
    BY <1>1, <2>1, <2>2 DEF ReceiveAnswer
<1>4. slot' = [slot EXCEPT ![s] = None]
  BY <1>1 DEF ReceiveAnswer
<1>5. EnrollTypeOK'
  <2>1. UNCHANGED <<pc, cred, code, doomed, desk, gaveUp>>
    BY DEF ReceiveAnswer, pcVars, budgets
  <2>2. agent' \in [Machines -> Identity] /\ slot' \in [Slots -> Attempt \cup {None}]
    BY <1>3, <1>4 DEF EnrollInv, EnrollTypeOK
  <2> QED
    BY <2>1, <2>2 DEF EnrollInv, EnrollTypeOK
<1>6. \A k \in Machines : agent'[k] = IF k = m THEN id ELSE agent[k]
  BY <1>3 DEF EnrollInv, EnrollTypeOK
<1>7. \A r \in Slots : slot'[r] = IF r = s THEN None ELSE slot[r]
  BY <1>4 DEF EnrollInv, EnrollTypeOK
<1>8. AwaitsOwn'
  BY <1>2, <1>3, <1>6, <1>7 DEF EnrollInv, EnrollTypeOK, AwaitsOwn, Identity
<1>9. \A r \in Slots : slot'[r] # None => slot'[r] = slot[r]
  BY <1>7
<1>10. \A k \in Machines :
          \/ agent'[k].token = agent[k].token /\ agent'[k].pc = agent[k].pc
          \/ agent'[k].token = None
          \/ \E r \in Slots : /\ slot[r] # None
                              /\ slot[r].machine = k /\ slot[r].step = "issued"
                              /\ slot[r].pc = agent'[k].pc
                              /\ slot[r].token = agent'[k].token
  BY <1>2, <1>3, <1>6, EnrollmentNone
<1> QED
  BY <1>5, <1>8, <1>9, <1>10, AgentKeepsInv DEF ReceiveAnswer, pcVars

LEMMA GiveUpKeepsInv ==
  ASSUME EnrollInv, NEW m \in Machines, GiveUp(m) PROVE EnrollInv'
<1>1. [agent[m] EXCEPT !.awaits = None] \in Identity
  BY DEF EnrollInv, EnrollTypeOK, Identity
<1>2. EnrollTypeOK'
  BY <1>1, EnrollmentBounds DEF EnrollInv, EnrollTypeOK, GiveUp, pcVars
<1>3. \A k \in Machines : /\ agent'[k].token = agent[k].token /\ agent'[k].pc = agent[k].pc
                         /\ agent'[k].awaits = IF k = m THEN None ELSE agent[k].awaits
  BY DEF EnrollInv, EnrollTypeOK, Identity, GiveUp
<1>4. AwaitsOwn'
  BY <1>3 DEF EnrollInv, AwaitsOwn, GiveUp
<1> QED
  BY <1>2, <1>3, <1>4, AgentKeepsInv DEF GiveUp, pcVars

LEMMA DropAnswerKeepsInv ==
  ASSUME EnrollInv, NEW s \in Slots, DropAnswer(s) PROVE EnrollInv'
<1>1. EnrollTypeOK'
  BY DEF EnrollInv, EnrollTypeOK, DropAnswer, pcVars, budgets
<1>2. \A r \in Slots : slot'[r] = IF r = s THEN None ELSE slot[r]
  BY DEF EnrollInv, EnrollTypeOK, DropAnswer
<1>3. AwaitsOwn'
  BY <1>2 DEF EnrollInv, EnrollTypeOK, AwaitsOwn, DropAnswer, Identity
<1> QED
  BY <1>1, <1>2, <1>3, AgentKeepsInv DEF DropAnswer, pcVars

LEMMA ClearIdentityKeepsInv ==
  ASSUME EnrollInv, NEW m \in Machines, ClearIdentity(m) PROVE EnrollInv'
<1>1. EnrollTypeOK'
  BY DEF EnrollInv, EnrollTypeOK, ClearIdentity, Unpaired, Identity, pcVars, budgets
<1>2. \A k \in Machines : agent'[k] = IF k = m THEN Unpaired ELSE agent[k]
  BY DEF EnrollInv, EnrollTypeOK, ClearIdentity
<1>3. AwaitsOwn'
  BY <1>2 DEF EnrollInv, AwaitsOwn, ClearIdentity, Unpaired
<1> QED
  BY <1>1, <1>2, <1>3, AgentKeepsInv DEF ClearIdentity, Unpaired, pcVars

-----------------------------------------------------------------------------
(* The server.                                                             *)

LEMMA MoveIsAttempt ==
  ASSUME EnrollTypeOK, NEW s \in Slots, slot[s] # None,
         NEW step \in {"new", "named", "revoked", "failed"}, Moves(s, step)
  PROVE  \E a \in Attempt : /\ slot' = [slot EXCEPT ![s] = a]
                            /\ a.machine = slot[s].machine /\ a.code = slot[s].code
                            /\ a.pc = slot[s].pc /\ a.step = step
<1>1. slot[s] \in Attempt
  BY DEF EnrollTypeOK
<1>2. [slot[s] EXCEPT !.step = step] \in Attempt
  BY <1>1 DEF Attempt
<1>3. slot' = [slot EXCEPT ![s] = [slot[s] EXCEPT !.step = step]]
  BY DEF Moves
<1>4. /\ [slot[s] EXCEPT !.step = step].machine = slot[s].machine
      /\ [slot[s] EXCEPT !.step = step].code = slot[s].code
      /\ [slot[s] EXCEPT !.step = step].pc = slot[s].pc
      /\ [slot[s] EXCEPT !.step = step].step = step
  BY <1>1 DEF Attempt
<1> QED
  BY <1>2, <1>3, <1>4

\* A request that fails, or finds no row.
LEMMA RefusalKeepsInv ==
  ASSUME EnrollInv, NEW s \in Slots, slot[s] # None,
         NEW step \in {"new", "failed"}, Moves(s, step),
         UNCHANGED <<pc, cred, code, doomed, agent, desk, gaveUp>>
  PROVE  EnrollInv'
<1>1. PICK a \in Attempt : /\ slot' = [slot EXCEPT ![s] = a]
                           /\ a.machine = slot[s].machine /\ a.step = step
  BY MoveIsAttempt DEF EnrollInv
<1>2. EnrollTypeOK'
  BY <1>1 DEF EnrollInv, EnrollTypeOK
<1> QED
  BY <1>1, <1>2, SlotKeepsInv

\* A request that has chosen its PC, or is answered.
LEMMA ChosenIsAttempt ==
  ASSUME EnrollTypeOK, NEW s \in Slots, slot[s] # None,
         NEW step \in {"known", "named"}, NEW p \in PCs, Chooses(s, step, p)
  PROVE  \E a \in Attempt : /\ slot' = [slot EXCEPT ![s] = a]
                            /\ a.machine = slot[s].machine /\ a.code = slot[s].code
                            /\ a.pc = p /\ a.step = step
<1>1. slot[s] \in Attempt
  BY DEF EnrollTypeOK
<1>2. [slot[s] EXCEPT !.step = step] \in Attempt
  BY <1>1 DEF Attempt
<1> DEFINE a == [slot[s] EXCEPT !.step = step, !.pc = p]
<1>3. /\ a \in Attempt
      /\ a.machine = slot[s].machine /\ a.code = slot[s].code
      /\ a.pc = p /\ a.step = step
  BY <1>1, <1>2 DEF Attempt
<1>4. slot' = [slot EXCEPT ![s] = a]
  BY DEF Chooses
<1> QED
  BY <1>3, <1>4

LEMMA AnswerIsAttempt ==
  ASSUME EnrollTypeOK, NEW s \in Slots, slot[s] # None, NEW t \in Tokens, Answers(s, t)
  PROVE  \E a \in Attempt : /\ slot' = [slot EXCEPT ![s] = a]
                            /\ a.machine = slot[s].machine /\ a.pc = slot[s].pc
                            /\ a.step = "issued" /\ a.token = t
<1>1. slot[s] \in Attempt
  BY DEF EnrollTypeOK
<1>2. [slot[s] EXCEPT !.step = "issued"] \in Attempt
  BY <1>1 DEF Attempt
<1> DEFINE a == [slot[s] EXCEPT !.step = "issued", !.token = t]
<1>3. /\ a \in Attempt
      /\ a.machine = slot[s].machine /\ a.pc = slot[s].pc
      /\ a.step = "issued" /\ a.token = t
  BY <1>1, <1>2 DEF Attempt
<1>4. slot' = [slot EXCEPT ![s] = a]
  BY DEF Answers
<1> QED
  BY <1>3, <1>4

LEMMA ReadKeepsInv ==
  ASSUME EnrollInv, NEW s \in Slots, slot[s] # None, NEW p \in PCs,
         Chooses(s, "known", p),
         slot[s].code = None => pc[p].machine = slot[s].machine,
         UNCHANGED <<pc, cred, code, doomed, agent, desk, gaveUp>>
  PROVE  EnrollInv'
<1>1. PICK a \in Attempt : /\ slot' = [slot EXCEPT ![s] = a]
                           /\ a.machine = slot[s].machine /\ a.code = slot[s].code
                           /\ a.pc = p /\ a.step = "known"
  BY ChosenIsAttempt DEF EnrollInv
<1>2. EnrollTypeOK'
  BY <1>1 DEF EnrollInv, EnrollTypeOK
<1> QED
  BY <1>1, <1>2, SlotKeepsInv

LEMMA ReadCodeKeepsInv ==
  ASSUME EnrollInv, NEW s \in Slots, ReadCode(s) PROVE EnrollInv'
<1>1. UNCHANGED <<pc, cred, code, doomed, agent, desk, gaveUp>> /\ slot[s] # None
  BY DEF ReadCode, pcVars, budgets
<1>2. CASE Moves(s, "failed")
  BY <1>1, <1>2, RefusalKeepsInv
<1>3. CASE ~Moves(s, "failed")
  <2>1. PICK c \in Codes : c = slot[s].code
    BY <1>1 DEF EnrollInv, EnrollTypeOK, Attempt, ReadCode
  <2>2. /\ code[c] # None
        /\ Chooses(s, "known", code[c].pc)
    BY <1>3, <2>1 DEF ReadCode
  <2>3. PICK p \in PCs : p = code[c].pc
    BY <2>2 DEF EnrollInv, EnrollTypeOK, Code
  <2>4. slot[s].code # None
    BY DEF ReadCode
  <2> QED
    BY <1>1, <2>2, <2>3, <2>4, ReadKeepsInv
<1> QED
  BY <1>2, <1>3

LEMMA FindPcKeepsInv ==
  ASSUME EnrollInv, NEW s \in Slots, FindPc(s) PROVE EnrollInv'
<1>1. UNCHANGED <<pc, cred, code, doomed, agent, desk, gaveUp>> /\ slot[s] # None
  BY DEF FindPc, Enrolls, pcVars, budgets
<1>2. CASE Moves(s, "new")
  BY <1>1, <1>2, RefusalKeepsInv
<1>3. CASE ~Moves(s, "new")
  <2>1. PICK p \in PCs :
            /\ pc[p].machine = slot[s].machine
            /\ Chooses(s, "known", p)
    BY <1>3 DEF FindPc, Rows
  <2> QED
    BY <1>1, <2>1, ReadKeepsInv
<1> QED
  BY <1>2, <1>3

\* A PC that an enrollment goes on with: its row names the machine, or it has
\* a credential.
LEMMA NextStepIsInv ==
  ASSUME EnrollInv, NEW s \in Slots, NEW step \in {"named", "revoked"},
         slot[s] # None, slot[s].code = None, slot[s].step \in {"known", "named"},
         Moves(s, step), UNCHANGED <<code, doomed, agent, desk, gaveUp>>,
         pc' \in [PCs -> PcRow \cup {None}], cred' \in [PCs -> Credential \cup {None}],
         \A p \in PCs : pc'[p] # None => pc[p] # None /\ pc'[p].machine = pc[p].machine,
         \A p \in PCs : cred'[p] # None <=> cred[p] # None,
         \A p \in PCs : cred[p] # None => cred'[p].token = cred[p].token
  PROVE  EnrollInv'
<1>1. PICK a \in Attempt : /\ slot' = [slot EXCEPT ![s] = a]
                           /\ a.machine = slot[s].machine /\ a.code = slot[s].code
                           /\ a.pc = slot[s].pc /\ a.step = step
  BY MoveIsAttempt DEF EnrollInv
<1>2. EnrollTypeOK'
  BY <1>1 DEF EnrollInv, EnrollTypeOK
<1>3. a.pc \in PCs
  BY <1>1 DEF EnrollInv, PcChosen
<1>4. pc'[a.pc] # None /\ a.pc \notin doomed
          => cred'[a.pc] # None \/ pc'[a.pc].machine = a.machine
  BY <1>1, <1>3 DEF EnrollInv, EnrollingMatches
<1> QED
  BY <1>1, <1>2, <1>3, <1>4, SlotKeepsInv

LEMMA RenamePcKeepsInv ==
  ASSUME EnrollInv, NEW s \in Slots, RenamePc(s) PROVE EnrollInv'
<1>1. /\ UNCHANGED <<cred, code, doomed, agent, desk, gaveUp>>
      /\ slot[s] # None /\ slot[s].code = None /\ slot[s].step = "known"
  BY DEF RenamePc, Enrolls, budgets
<1>2. CASE Moves(s, "failed") /\ UNCHANGED pc
  BY <1>1, <1>2, RefusalKeepsInv
<1>3. CASE ~(Moves(s, "failed") /\ UNCHANGED pc)
  <2>1. PICK p \in PCs : p = slot[s].pc
    BY <1>1 DEF EnrollInv, PcChosen
  <2>2. PICK name \in Names : name = <<slot[s].machine, 1>>
    BY <1>1 DEF EnrollInv, EnrollTypeOK, Attempt, Names
  <2>3. /\ Moves(s, "named")
        /\ pc' = IF pc[p] = None THEN pc ELSE [pc EXCEPT ![p].name = name]
    BY <1>3, <2>1, <2>2 DEF RenamePc
  <2>4. pc[p] # None => /\ [pc[p] EXCEPT !.name = name] \in PcRow
                        /\ [pc[p] EXCEPT !.name = name].machine = pc[p].machine
    BY DEF EnrollInv, EnrollTypeOK, PcRow
  <2>5. pc[p] # None => pc' = [pc EXCEPT ![p] = [pc[p] EXCEPT !.name = name]]
    BY <2>3
  <2>6. /\ pc' \in [PCs -> PcRow \cup {None}]
        /\ \A q \in PCs : pc'[q] # None => pc[q] # None /\ pc'[q].machine = pc[q].machine
    BY <2>3, <2>4, <2>5 DEF EnrollInv, EnrollTypeOK
  <2> QED
    BY <1>1, <2>3, <2>6, NextStepIsInv DEF EnrollInv, EnrollTypeOK
<1> QED
  BY <1>2, <1>3

LEMMA RevokeOldKeepsInv ==
  ASSUME EnrollInv, NEW s \in Slots, RevokeOld(s) PROVE EnrollInv'
<1>1. /\ UNCHANGED <<pc, code, doomed, agent, desk, gaveUp>>
      /\ slot[s] # None /\ slot[s].code = None /\ slot[s].step = "named"
      /\ Moves(s, "revoked")
  BY DEF RevokeOld, Enrolls, budgets
<1>2. PICK p \in PCs : p = slot[s].pc
  BY <1>1 DEF EnrollInv, PcChosen
<1>3. cred' = IF cred[p] = None THEN cred ELSE [cred EXCEPT ![p].revoked = TRUE]
  BY <1>2 DEF RevokeOld
<1>4. cred[p] # None => /\ [cred[p] EXCEPT !.revoked = TRUE] \in Credential
                        /\ [cred[p] EXCEPT !.revoked = TRUE].token = cred[p].token
  BY DEF EnrollInv, EnrollTypeOK, Credential
<1>5. cred[p] # None => cred' = [cred EXCEPT ![p] = [cred[p] EXCEPT !.revoked = TRUE]]
  BY <1>3
<1>6. /\ cred' \in [PCs -> Credential \cup {None}]
      /\ \A q \in PCs : cred'[q] # None <=> cred[q] # None
      /\ \A q \in PCs : cred[q] # None => cred'[q].token = cred[q].token
  BY <1>3, <1>4, <1>5, EnrollmentNone DEF EnrollInv, EnrollTypeOK
<1> QED
  BY <1>1, <1>6, NextStepIsInv DEF EnrollInv, EnrollTypeOK

LEMMA InsertPcKeepsInv ==
  ASSUME EnrollInv, NEW s \in Slots, InsertPc(s) PROVE EnrollInv'
<1>1. /\ UNCHANGED <<cred, code, doomed, agent, desk, gaveUp>>
      /\ slot[s] # None /\ slot[s] \in Attempt
  BY DEF InsertPc, Enrolls, budgets, EnrollInv, EnrollTypeOK
<1>2. CASE Moves(s, "failed") /\ UNCHANGED pc
  BY <1>1, <1>2, RefusalKeepsInv
<1>3. CASE ~(Moves(s, "failed") /\ UNCHANGED pc)
  <2>1. PICK p \in PCs, i \in 1 .. Cardinality(PCs) :
            /\ FreshPc(p)
            /\ pc' = [pc EXCEPT ![p] = [name |-> <<slot[s].machine, i>>,
                       machine |-> slot[s].machine, status |-> "online", reported |-> FALSE]]
            /\ Chooses(s, "named", p)
    BY <1>3 DEF InsertPc
  <2>2. PICK row \in PcRow : /\ pc' = [pc EXCEPT ![p] = row]
                             /\ row.machine = slot[s].machine
    <3>1. [name |-> <<slot[s].machine, i>>, machine |-> slot[s].machine,
           status |-> "online", reported |-> FALSE] \in PcRow
      BY <1>1 DEF Attempt, PcRow, Names, Status
    <3> QED
      BY <2>1, <3>1
  <2>3. PICK a \in Attempt : /\ slot' = [slot EXCEPT ![s] = a]
                             /\ a.machine = slot[s].machine
                             /\ a.pc = p /\ a.step = "named"
    BY <1>1, <2>1, ChosenIsAttempt DEF EnrollInv
  <2>4. EnrollTypeOK'
    BY <1>1, <2>2, <2>3 DEF EnrollInv, EnrollTypeOK
  <2>5. pc'[p] = row /\ \A q \in PCs \ {p} : pc'[q] = pc[q]
    BY <2>2 DEF EnrollInv, EnrollTypeOK
  <2>6. /\ \A r \in Slots : slot[r] # None => slot[r].pc # p
        /\ \A m \in Machines : agent[m].pc # p
    BY <2>1, FreshPcIsNew
  <2> QED
    BY <1>1, <2>2, <2>3, <2>4, <2>5, <2>6, SlotKeepsInv
<1> QED
  BY <1>2, <1>3

LEMMA WritePairingKeepsInv ==
  ASSUME EnrollInv, NEW s \in Slots, WritePairing(s) PROVE EnrollInv'
<1>1. /\ UNCHANGED <<agent, desk, gaveUp>>
      /\ slot[s] # None /\ slot[s].step = "known" /\ slot[s].code # None
  BY DEF WritePairing, budgets
<1>2. CASE Moves(s, "failed") /\ UNCHANGED pcVars
  BY <1>1, <1>2, RefusalKeepsInv DEF pcVars
<1>3. CASE ~(Moves(s, "failed") /\ UNCHANGED pcVars)
  <2>1. PICK p \in PCs : p = slot[s].pc
    BY <1>1 DEF EnrollInv, PcChosen
  <2>2. PICK c \in Codes : c = slot[s].code
    BY <1>1 DEF EnrollInv, EnrollTypeOK, Attempt
  <2>3. PICK m \in Machines : m = slot[s].machine
    BY <1>1 DEF EnrollInv, EnrollTypeOK, Attempt
  <2>4. PICK t \in Tokens :
            /\ pc[p] # None /\ FreshToken(t) /\ UNCHANGED doomed
            /\ code' = IF code[c] = None THEN code ELSE [code EXCEPT ![c].used = TRUE]
            /\ cred' = [cred EXCEPT ![p] = [token |-> t, revoked |-> FALSE]]
            /\ pc' = Paired(p, m)
            /\ Answers(s, t)
    BY <1>3, <2>1, <2>2, <2>3 DEF WritePairing
  <2>5. PICK a \in Attempt : /\ slot' = [slot EXCEPT ![s] = a]
                             /\ a.machine = slot[s].machine /\ a.pc = slot[s].pc
                             /\ a.step = "issued" /\ a.token = t
    BY <1>1, <2>4, AnswerIsAttempt DEF EnrollInv
  <2>6. PICK row \in PcRow : pc' = [pc EXCEPT ![p] = row] /\ row.machine = m
    <3>1. pc[p] \in PcRow
      BY <2>4 DEF EnrollInv, EnrollTypeOK
    <3>2. [pc[p] EXCEPT !.machine = m] \in PcRow /\ [pc[p] EXCEPT !.machine = m].machine = m
      BY <3>1 DEF PcRow
    <3>3. pc' = [pc EXCEPT ![p] = [pc[p] EXCEPT !.machine = m]]
      BY <2>4 DEF Paired
    <3> QED
      BY <3>2, <3>3
  <2>7. code' \in [Codes -> Code \cup {None}]
    <3>1. code[c] # None => [code[c] EXCEPT !.used = TRUE] \in Code
      BY DEF EnrollInv, EnrollTypeOK, Code
    <3>2. code[c] # None => code' = [code EXCEPT ![c] = [code[c] EXCEPT !.used = TRUE]]
      BY <2>4
    <3> QED
      BY <2>4, <3>1, <3>2 DEF EnrollInv, EnrollTypeOK
  <2>8. [token |-> t, revoked |-> FALSE] \in Credential
    BY DEF Credential
  <2>9. EnrollTypeOK'
    <3>1. /\ pc' \in [PCs -> PcRow \cup {None}]
          /\ slot' \in [Slots -> Attempt \cup {None}]
      BY <2>5, <2>6 DEF EnrollInv, EnrollTypeOK
    <3>2. cred' \in [PCs -> Credential \cup {None}]
      BY <2>4, <2>8 DEF EnrollInv, EnrollTypeOK
    <3> QED
      BY <1>1, <2>4, <2>7, <3>1, <3>2 DEF EnrollInv, EnrollTypeOK
  <2>10. pc'[p].machine = m /\ \A q \in PCs \ {p} : pc'[q] = pc[q]
    BY <2>6 DEF EnrollInv, EnrollTypeOK
  <2>11. /\ UNCHANGED <<doomed, agent>> /\ slot[s] # None
         /\ a.machine = slot[s].machine /\ a.step = "issued" /\ a.pc = p /\ a.token = t
         /\ pc'[p] # None /\ p \notin doomed => pc'[p].machine = a.machine
    BY <1>1, <2>1, <2>3, <2>4, <2>5, <2>10
  <2> QED
    BY <2>4, <2>5, <2>9, <2>10, <2>11, IssueKeepsInv
<1> QED
  BY <1>2, <1>3

LEMMA InsertCredentialKeepsInv ==
  ASSUME EnrollInv, NEW s \in Slots, InsertCredential(s) PROVE EnrollInv'
<1>1. /\ UNCHANGED <<pc, code, doomed, agent, desk, gaveUp>>
      /\ slot[s] # None /\ slot[s].step = "revoked" /\ slot[s].code = None
  BY DEF InsertCredential, Enrolls, budgets
<1>2. CASE Moves(s, "failed") /\ UNCHANGED cred
  BY <1>1, <1>2, RefusalKeepsInv
<1>3. CASE ~(Moves(s, "failed") /\ UNCHANGED cred)
  <2>1. PICK p \in PCs : p = slot[s].pc
    BY <1>1 DEF EnrollInv, PcChosen
  <2>2. PICK t \in Tokens :
            /\ pc[p] # None /\ cred[p] = None /\ FreshToken(t)
            /\ cred' = [cred EXCEPT ![p] = [token |-> t, revoked |-> FALSE]]
            /\ Answers(s, t)
    BY <1>3, <2>1 DEF InsertCredential
  <2>3. PICK a \in Attempt : /\ slot' = [slot EXCEPT ![s] = a]
                             /\ a.machine = slot[s].machine /\ a.pc = slot[s].pc
                             /\ a.step = "issued" /\ a.token = t
    BY <1>1, <2>2, AnswerIsAttempt DEF EnrollInv
  <2>4. [token |-> t, revoked |-> FALSE] \in Credential
    BY DEF Credential
  <2>5. EnrollTypeOK'
    BY <1>1, <2>2, <2>3, <2>4 DEF EnrollInv, EnrollTypeOK
  <2>6. p \notin doomed => pc[p].machine = slot[s].machine
    BY <1>1, <2>1, <2>2 DEF EnrollInv, EnrollingMatches
  <2>7. /\ UNCHANGED <<doomed, agent>> /\ slot[s] # None
        /\ a.machine = slot[s].machine /\ a.step = "issued" /\ a.pc = p /\ a.token = t
        /\ \A q \in PCs \ {p} : pc'[q] = pc[q]
        /\ pc'[p] # None /\ p \notin doomed => pc'[p].machine = a.machine
    BY <1>1, <2>1, <2>3, <2>6
  <2> QED
    BY <2>2, <2>3, <2>5, <2>7, IssueKeepsInv
<1> QED
  BY <1>2, <1>3

-----------------------------------------------------------------------------
(* The theorems.                                                           *)

LEMMA NextKeepsInv == EnrollInv /\ [Next]_vars => EnrollInv'
<1> SUFFICES ASSUME EnrollInv, [Next]_vars PROVE EnrollInv'
  OBVIOUS
<1>1. ASSUME NEW p \in PCs, CreatePc(p) PROVE EnrollInv'
  BY <1>1, CreatePcKeepsInv
<1>2. ASSUME NEW p \in PCs, PatchPc(p) PROVE EnrollInv'
  BY <1>2, PatchPcKeepsInv
<1>3. ASSUME NEW p \in PCs, DeleteCredentials(p) PROVE EnrollInv'
  BY <1>3, DeleteCredentialsKeepsInv
<1>4. ASSUME NEW p \in PCs, DeletePc(p) PROVE EnrollInv'
  BY <1>4, DeletePcKeepsInv
<1>5. ASSUME NEW p \in PCs, NEW c \in Codes, CreatePairingCode(p, c) PROVE EnrollInv'
  BY <1>5, CreatePairingCodeKeepsInv
<1>6. ASSUME NEW c \in Codes, ExpireCode(c) PROVE EnrollInv'
  BY <1>6, ExpireCodeKeepsInv
<1>7. ASSUME NEW m \in Machines, Ask(m) PROVE EnrollInv'
  BY <1>7, SendRequestKeepsInv DEF Ask
<1>8. ASSUME NEW m \in Machines, ReceiveAnswer(m) PROVE EnrollInv'
  BY <1>8, ReceiveAnswerKeepsInv
<1>9. ASSUME NEW m \in Machines, GiveUp(m) PROVE EnrollInv'
  BY <1>9, GiveUpKeepsInv
<1>10. ASSUME NEW m \in Machines, ClearIdentity(m) PROVE EnrollInv'
  BY <1>10, ClearIdentityKeepsInv
<1>11. ASSUME NEW m \in Machines, Health(m) PROVE EnrollInv'
  BY <1>11, HealthKeepsInv
<1>12. ASSUME NEW s \in Slots, DropAnswer(s) PROVE EnrollInv'
  BY <1>12, DropAnswerKeepsInv
<1>13. ASSUME NEW s \in Slots, Serve(s) PROVE EnrollInv'
  BY <1>13, ReadCodeKeepsInv, WritePairingKeepsInv, FindPcKeepsInv, RenamePcKeepsInv,
     InsertPcKeepsInv, RevokeOldKeepsInv, InsertCredentialKeepsInv DEF Serve
<1>14. CASE MarkStalePcsOffline
  BY <1>14, MarkStalePcsOfflineKeepsInv
<1>15. CASE UNCHANGED vars
  BY <1>15 DEF vars, pcVars, budgets, EnrollInv, EnrollTypeOK, AwaitsOwn, PcChosen,
               HoldersMatch, Holds, EnrollingMatches
<1> QED
  BY <1>1, <1>2, <1>3, <1>4, <1>5, <1>6, <1>7, <1>8, <1>9, <1>10, <1>11, <1>12, <1>13,
     <1>14, <1>15 DEF Next, Desk

\* The invariant with its strengthening.
THEOREM EnrollInvCorrect == Spec => []EnrollInv
<1> QED
  BY EnrollInvInitially, NextKeepsInv, PTL DEF Spec

\* handleDevicePair, handleDeviceEnroll and delete-pc never leave a machine
\* with a credential for a PC that is another machine's.
THEOREM MachinesCorrect == Spec => []CredentialMatchesMachine
<1>1. EnrollInv => CredentialMatchesMachine
  <2> SUFFICES ASSUME EnrollInv, NEW m \in Machines, Accepted(m), agent[m].pc \notin doomed
               PROVE  pc[agent[m].pc].machine = m
    BY DEF CredentialMatchesMachine
  <2>1. PICK p \in PCs : /\ pc[p] # None /\ cred[p] # None
                         /\ agent[m].token = cred[p].token /\ agent[m].pc = p
    BY DEF Accepted, Rows
  <2> QED
    BY <2>1 DEF EnrollInv, HoldersMatch, Holds
<1> QED
  BY <1>1, EnrollInvCorrect, PTL

\* Of the writers of the status - PatchPc, Health, the sweep and the enrollment
\* - only the desk takes a PC out of maintenance.
THEOREM StatusCorrect == Spec => StatusKept
<1> DEFINE Kept == \A p \in PCs : pc[p] # None /\ pc[p].status = "maintenance"
                                /\ pc'[p] # None => pc'[p].status = pc[p].status
<1>1. ASSUME EnrollInv, [Next]_vars PROVE Kept \/ desk' > desk
  <2>1. desk \in Nat /\ pc \in [PCs -> PcRow \cup {None}]
    BY <1>1, EnrollmentBounds DEF EnrollInv, EnrollTypeOK
  <2>2. CASE Desk
    BY <2>1, <2>2 DEF Desk, CreatePc, PatchPc, DeleteCredentials, DeletePc,
                      CreatePairingCode, DeskActs
  <2>3. ASSUME NEW m \in Machines, Health(m) PROVE Kept
    <3>1. PICK p \in PCs : agent[m].pc = p /\ pc[p] # None
      BY <2>3 DEF Health, Accepted, Rows
    <3>2. PICK st \in {"online", pc[p].status} :
              /\ pc' = [pc EXCEPT ![p] = [pc[p] EXCEPT !.reported = TRUE, !.status = st]]
              /\ pc[p].status = "maintenance" => st = "maintenance"
      BY <2>3, <3>1 DEF Health
    <3>3. [pc[p] EXCEPT !.reported = TRUE] \in PcRow
      BY <2>1, <3>1 DEF PcRow
    <3>4. [pc[p] EXCEPT !.reported = TRUE, !.status = st].status = st
      BY <3>3 DEF PcRow
    <3> QED
      BY <2>1, <3>2, <3>4
  <2>4. ASSUME NEW s \in Slots, WritePairing(s) PROVE Kept
    <3>1. PICK p \in PCs \cup {None}, m \in Machines : p = slot[s].pc /\ m = slot[s].machine
      BY <1>1, <2>4 DEF WritePairing, EnrollInv, EnrollTypeOK, Attempt
    <3>2. UNCHANGED pc \/ pc' = Paired(p, m)
      BY <2>4, <3>1 DEF WritePairing, pcVars
    <3>3. \A q \in PCs : pc[q] # None => [pc[q] EXCEPT !.machine = m].status = pc[q].status
      BY <2>1 DEF PcRow
    <3> QED
      BY <2>1, <3>2, <3>3 DEF Paired
  <2>5. ASSUME NEW s \in Slots, RenamePc(s) PROVE Kept
    <3>1. PICK p \in PCs \cup {None} : p = slot[s].pc
      BY <1>1, <2>5 DEF RenamePc, Enrolls, EnrollInv, EnrollTypeOK, Attempt
    <3>2. PICK name : UNCHANGED pc \/ pc' = [pc EXCEPT ![p].name = name]
      BY <2>5, <3>1 DEF RenamePc
    <3>3. \A q \in PCs : pc[q] # None => [pc[q] EXCEPT !.name = name].status = pc[q].status
      BY <2>1 DEF PcRow
    <3> QED
      BY <2>1, <3>2, <3>3
  <2>6. ASSUME NEW s \in Slots, InsertPc(s) PROVE Kept
    <3>1. CASE UNCHANGED pc
      BY <3>1
    <3>2. CASE ~UNCHANGED pc
      <4>1. PICK p \in PCs : pc[p] = None /\ \A q \in PCs \ {p} : pc'[q] = pc[q]
        BY <2>1, <2>6, <3>2, FreshPcIsNew DEF InsertPc
      <4> QED
        BY <4>1
    <3> QED
      BY <3>1, <3>2
  <2>7. CASE MarkStalePcsOffline
    BY <2>1, <2>7 DEF MarkStalePcsOffline
  <2>8. CASE UNCHANGED pc
    BY <2>8
  <2> QED
    BY <1>1, <2>2, <2>3, <2>4, <2>5, <2>6, <2>7, <2>8
       DEF Next, Serve, Ask, ExpireCode, SendRequest, ReceiveAnswer, GiveUp, ClearIdentity,
           DropAnswer, ReadCode, FindPc, RevokeOld, InsertCredential, vars, pcVars
<1>2. ASSUME EnrollInv, [Next]_vars
      PROVE  [\A p \in Rows :
                (/\ pc[p].status = "maintenance"
                 /\ pc'[p] # None /\ pc'[p].status # pc[p].status) => desk' > desk]_vars
  BY <1>1, <1>2 DEF Rows
<1> QED
  BY <1>2, EnrollInvCorrect, PTL DEF Spec, StatusKept
=============================================================================

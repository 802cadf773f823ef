-------------------------- MODULE PcCommandsProofs --------------------------
(***************************************************************************)
(* Proofs about PcCommands, for any number of commands, any ring and any   *)
(* faults.                                                                 *)
(*                                                                         *)
(* A verdict reaches the table by way of requests that may lie at the      *)
(* server for long, abandoned and overtaken: a request that says "applied" *)
(* was made after the effect, wherever it is (AcksAreTrue).                *)
(*                                                                         *)
(* Every open command reaches a live connection because the query lists    *)
(* all of them behind the replay, and from then on a command is opened     *)
(* before it is published: it is not published yet, among what this        *)
(* connection missed, on the wire, or at the agent (OpenCommandsHeard).    *)
(***************************************************************************)
EXTENDS PcCommands, FiniteSetTheorems, SequenceTheorems, TLAPS

TableTypeOK ==
    /\ status \in [Commands -> Statuses]
    /\ effects \in [Commands -> 0 .. 2]
    /\ \A r \in acks :
           r = [command |-> r.command, verdict |-> r.verdict,
                foundOpen |-> r.foundOpen, awaited |-> r.awaited]
    /\ \A r \in acks : r.verdict \in Verdicts

\* A request that reports success was made after the success.
AcksAreTrue ==
    \A r \in acks : r.verdict = "applied" /\ r.command \in Commands =>
        effects[r.command] > 0

CommandsInv == TableTypeOK /\ AcksAreTrue /\ AppliedMeansEffect

\* Steps that make no request, other than one that reports a failure, and only
\* abandon, look up or drop those there are.
LEMMA OldNewsKeepsInv ==
  ASSUME CommandsInv, UNCHANGED <<status, effects>>,
         \A q \in acks' :
             \/ q.verdict = "failed"
             \/ \E r \in acks : q.command = r.command /\ q.verdict = r.verdict,
         \A q \in acks' :
             q = [command |-> q.command, verdict |-> q.verdict,
                  foundOpen |-> q.foundOpen, awaited |-> q.awaited]
  PROVE  CommandsInv'
<1>1. TableTypeOK'
  BY DEF CommandsInv, TableTypeOK, Verdicts
<1>2. AcksAreTrue' /\ AppliedMeansEffect'
  BY DEF CommandsInv, AcksAreTrue, AppliedMeansEffect
<1> QED
  BY <1>1, <1>2 DEF CommandsInv

\* The success comes with the request that reports it.
LEMMA ApplyKeepsInv ==
  ASSUME CommandsInv, Apply
  PROVE  CommandsInv'
<1>1. PICK ok \in BOOLEAN :
          /\ acks' = acks \cup {Ack(agent.command, IF ok THEN "applied" ELSE "failed")}
          /\ effects' = IF ok /\ effects[agent.command] < 2
                        THEN [effects EXCEPT ![agent.command] = @ + 1]
                        ELSE effects
  BY DEF Apply
<1>2. status' = status
  BY DEF Apply, tableVars
<1>3. PICK c : c = agent.command
  OBVIOUS
<1>4. \A d \in Commands :
          /\ effects[d] \in 0 .. 2 /\ effects'[d] \in 0 .. 2
          /\ effects'[d] >= effects[d]
          /\ ok /\ d = c => effects'[d] > 0
  BY <1>1, <1>3 DEF CommandsInv, TableTypeOK
<1>5. effects' \in [Commands -> 0 .. 2]
  BY <1>1, <1>4 DEF CommandsInv, TableTypeOK
<1>6. PICK a : /\ acks' = acks \cup {a} /\ a.command = c
               /\ a.verdict = IF ok THEN "applied" ELSE "failed"
               /\ a = [command |-> a.command, verdict |-> a.verdict,
                       foundOpen |-> a.foundOpen, awaited |-> a.awaited]
  <2>1. PICK v : v = IF ok THEN "applied" ELSE "failed"
    OBVIOUS
  <2>2. PICK a : a = [command |-> c, verdict |-> v, foundOpen |-> FALSE,
                      awaited |-> TRUE]
    OBVIOUS
  <2>3. /\ a.command = c /\ a.verdict = v
        /\ a = [command |-> a.command, verdict |-> a.verdict,
                foundOpen |-> a.foundOpen, awaited |-> a.awaited]
    BY <2>2
  <2>4. acks' = acks \cup {a}
    BY <1>1, <1>3, <2>1, <2>2 DEF Ack
  <2> QED
    BY <2>1, <2>3, <2>4
<1>7. TableTypeOK'
  BY <1>2, <1>5, <1>6 DEF CommandsInv, TableTypeOK, Verdicts
<1>8. AcksAreTrue'
  BY <1>4, <1>6 DEF CommandsInv, AcksAreTrue
<1>9. AppliedMeansEffect'
  BY <1>2, <1>4 DEF CommandsInv, AppliedMeansEffect
<1> QED
  BY <1>7, <1>8, <1>9 DEF CommandsInv

LEMMA AckFailsKeepsInv ==
  ASSUME CommandsInv, AckFails \/ RestartAgent
  PROVE  CommandsInv'
<1>1. UNCHANGED <<status, effects>>
  BY DEF AckFails, RestartAgent, tableVars
<1>2. PICK left \in Outstanding :
          acks' = left \/ acks' = left \cup {Ack(agent.command, "failed")}
  BY DEF AckFails, RestartAgent
<1>3. \A q \in left :
          /\ q = [command |-> q.command, verdict |-> q.verdict,
                  foundOpen |-> q.foundOpen, awaited |-> q.awaited]
          /\ \E r \in acks : q.command = r.command /\ q.verdict = r.verdict
  <2>1. CASE left = acks \ Awaited
    BY <2>1 DEF CommandsInv, TableTypeOK
  <2>2. CASE left = Abandoned
    <3> SUFFICES ASSUME NEW r \in acks, NEW q, q = [r EXCEPT !.awaited = FALSE]
                 PROVE  /\ q = [command |-> q.command, verdict |-> q.verdict,
                                foundOpen |-> q.foundOpen, awaited |-> q.awaited]
                        /\ q.command = r.command /\ q.verdict = r.verdict
      BY <2>2 DEF Abandoned
    <3>1. r = [command |-> r.command, verdict |-> r.verdict,
               foundOpen |-> r.foundOpen, awaited |-> r.awaited]
      BY DEF CommandsInv, TableTypeOK
    <3>2. q = [command |-> r.command, verdict |-> r.verdict,
               foundOpen |-> r.foundOpen, awaited |-> FALSE]
      BY <3>1
    <3> QED
      BY <3>2
  <2> QED
    BY <2>1, <2>2 DEF Outstanding
<1>4. \A q \in {Ack(agent.command, "failed")} :
          /\ q = [command |-> q.command, verdict |-> q.verdict,
                  foundOpen |-> q.foundOpen, awaited |-> q.awaited]
          /\ q.verdict = "failed"
  BY DEF Ack
<1> QED
  BY <1>1, <1>2, <1>3, <1>4, OldNewsKeepsInv

LEMMA ReadKeepsInv ==
  ASSUME CommandsInv, NEW r \in acks, ReadCommand(r)
  PROVE  CommandsInv'
<1>1. UNCHANGED <<status, effects>>
  BY DEF ReadCommand, tableVars
<1>2. PICK found : found = [command |-> r.command, verdict |-> r.verdict,
                            foundOpen |-> TRUE, awaited |-> r.awaited]
  OBVIOUS
<1>3. r = [command |-> r.command, verdict |-> r.verdict,
           foundOpen |-> r.foundOpen, awaited |-> r.awaited]
  BY DEF CommandsInv, TableTypeOK
<1>4. [r EXCEPT !.foundOpen = TRUE] = found
  <2>1. PICK q : q = [r EXCEPT !.foundOpen = TRUE]
    OBVIOUS
  <2>2. q = [command |-> r.command, verdict |-> r.verdict,
             foundOpen |-> TRUE, awaited |-> r.awaited]
    BY <1>3, <2>1
  <2> QED
    BY <1>2, <2>1, <2>2
<1>5. /\ found = [command |-> found.command, verdict |-> found.verdict,
                  foundOpen |-> found.foundOpen, awaited |-> found.awaited]
      /\ found.command = r.command /\ found.verdict = r.verdict
  BY <1>2
<1>6. acks' \in {acks \ {r}, (acks \ {r}) \cup {found}}
  BY <1>4 DEF ReadCommand
<1> QED
  BY <1>1, <1>5, <1>6, OldNewsKeepsInv DEF CommandsInv, TableTypeOK

LEMMA WriteKeepsInv ==
  ASSUME CommandsInv, NEW r \in acks, WriteVerdict(r)
  PROVE  CommandsInv'
<1>1. /\ status' = [status EXCEPT ![r.command] = r.verdict]
      /\ acks' = acks \ {r} /\ effects' = effects
  BY DEF WriteVerdict
<1>2. r.verdict \in Verdicts
  BY DEF CommandsInv, TableTypeOK
<1>3. TableTypeOK'
  BY <1>1, <1>2 DEF CommandsInv, TableTypeOK, Statuses
<1>4. AcksAreTrue'
  BY <1>1 DEF CommandsInv, AcksAreTrue
<1>5. AppliedMeansEffect'
  BY <1>1, <1>2 DEF CommandsInv, TableTypeOK, AcksAreTrue, AppliedMeansEffect
<1> QED
  BY <1>3, <1>4, <1>5 DEF CommandsInv

\* The worker and the desk write neither verdict.
LEMMA OpenOrCloseKeepsInv ==
  ASSUME CommandsInv,
         \/ \E c \in Commands : Issue(c)
         \/ \E c \in Commands : ExpireCommands(c)
  PROVE  CommandsInv'
<1>1. UNCHANGED <<acks, effects>>
  BY DEF Issue, ExpireCommands, agentVars
<1>2. /\ status' \in [Commands -> Statuses]
      /\ \A d \in Commands : status'[d] = "applied" => status[d] = "applied"
  BY DEF Issue, InsertCommand, ExpireCommands, CommandsInv, TableTypeOK, Statuses
<1> QED
  BY <1>1, <1>2 DEF CommandsInv, TableTypeOK, AcksAreTrue, AppliedMeansEffect

\* What the desk reads as applied did happen on the PC.
THEOREM AppliedCorrect == Spec => []AppliedMeansEffect
<1>1. Init => CommandsInv
  BY DEF Init, CommandsInv, TableTypeOK, Statuses, AcksAreTrue, AppliedMeansEffect
<1>2. CommandsInv /\ [Next]_vars => CommandsInv'
  <2> SUFFICES ASSUME CommandsInv, [Next]_vars PROVE CommandsInv'
    OBVIOUS
  <2>1. CASE \E c \in Commands : Issue(c) \/ ExpireCommands(c)
    BY <2>1, OpenOrCloseKeepsInv
  <2>2. CASE Apply
    BY <2>2, ApplyKeepsInv
  <2>3. CASE AckFails \/ RestartAgent
    BY <2>3, AckFailsKeepsInv
  <2>4. ASSUME NEW r \in acks, ReadCommand(r) \/ WriteVerdict(r)
        PROVE  CommandsInv'
    BY <2>4, ReadKeepsInv, WriteKeepsInv
  <2>5. CASE \/ \E c \in Commands : Publish(c)
             \/ Connect \/ ResendPending \/ Subscribe \/ Disconnect \/ Deliver
             \/ RestartApi \/ UNCHANGED vars
    <3>1. UNCHANGED <<status, effects>> /\ (acks' = acks \/ acks' = {})
      <4>1. CASE \E c \in Commands : Publish(c)
        BY <4>1 DEF Publish, agentVars
      <4>2. CASE Connect \/ Deliver
        BY <4>2 DEF Connect, Deliver, tableVars
      <4>3. CASE ResendPending
        BY <4>3 DEF ResendPending, Resend, tableVars, agentVars
      <4>4. CASE Subscribe \/ Disconnect
        BY <4>4 DEF Subscribe, Disconnect, tableVars, agentVars
      <4>5. CASE RestartApi \/ UNCHANGED vars
        BY <4>5 DEF RestartApi, vars, tableVars, agentVars
      <4> QED
        BY <2>5, <4>1, <4>2, <4>3, <4>4, <4>5
    <3> QED
      BY <3>1, OldNewsKeepsInv DEF CommandsInv, TableTypeOK
  <2> QED
    BY <2>1, <2>2, <2>3, <2>4, <2>5 DEF Next
<1>3. CommandsInv => AppliedMeansEffect
  BY DEF CommandsInv
<1> QED
  BY <1>1, <1>2, <1>3, PTL DEF Spec

-----------------------------------------------------------------------------
(***************************************************************************)
(* The stream: the types, and what the agent hears of.                     *)
(***************************************************************************)

LEMMA PartOfInterval ==
  ASSUME NEW n \in Nat, NEW S, S \subseteq 1 .. n
  PROVE  IsFiniteSet(S)
<1>1. IsFiniteSet(1 .. n)
  BY FS_Interval
<1> QED
  BY <1>1, FS_Subset

\* A listing of a finite set is a sequence in which every element occurs.
LEMMA ListingIsComplete ==
  ASSUME NEW S, IsFiniteSet(S), NEW xs \in InOrder(S)
  PROVE  /\ xs \in Seq(S)
         /\ \A x \in S : \E i \in 1 .. Len(xs) : xs[i] = x
<1>1. PICK n \in Nat : n = Cardinality(S)
  BY FS_CardinalityType
<1>2. /\ xs \in [1 .. n -> S]
      /\ \A x \in S : \E i \in DOMAIN xs : xs[i] = x
  BY <1>1 DEF InOrder
<1>3. xs \in Seq(S)
  BY <1>2
<1>4. DOMAIN xs = 1 .. Len(xs)
  BY <1>3
<1> QED
  BY <1>2, <1>3, <1>4

\* The entries for a sequence of commands carry these commands.
LEMMA NumberedEntries ==
  ASSUME counter \in Nat, NEW cs \in Seq(Commands)
  PROVE  /\ Numbered(cs) \in Seq(Entries)
         /\ Len(Numbered(cs)) = Len(cs)
         /\ \A i \in 1 .. Len(cs) : Numbered(cs)[i].command = cs[i]
<1>1. PICK n \in Nat : n = Len(cs)
  BY LenProperties
<1>2. \A i \in 1 .. n : cs[i] \in Commands
  BY <1>1, ElementOfSeq
<1>3. \A i \in 1 .. n : [id |-> counter + i, command |-> cs[i]] \in Entries
  BY <1>2 DEF Entries
<1>4. PICK f : f = [i \in 1 .. n |-> [id |-> counter + i, command |-> cs[i]]]
  OBVIOUS
<1>5. f \in [1 .. n -> Entries]
  BY <1>3, <1>4
<1>6. f \in Seq(Entries) /\ Len(f) = n
  BY <1>5
<1>7. \A i \in 1 .. n : f[i].command = cs[i]
  BY <1>4
<1>8. Numbered(cs) = f
  BY <1>1, <1>4 DEF Numbered
<1> QED
  BY <1>1, <1>6, <1>7, <1>8

\* The ring never holds more than its size.
LEMMA RingKeepsItsSize ==
  ASSUME counter \in Nat, ring \in Seq(Entries),
         NEW entries \in Seq(Entries), Remember(entries)
  PROVE  /\ ring' \in Seq(Entries) /\ Len(ring') <= RingSize
         /\ counter' \in Nat
<1>1. PICK all : all = ring \o entries
  OBVIOUS
<1>2. all \in Seq(Entries)
  BY <1>1, ConcatProperties
<1>3. PICK first : first = IF Len(all) > RingSize
                           THEN Len(all) - RingSize + 1 ELSE 1
  OBVIOUS
<1>4. ring' = SubSeq(all, first, Len(all)) /\ counter' = counter + Len(entries)
  BY <1>1, <1>3 DEF Remember
<1>5. Len(all) \in Nat /\ Len(entries) \in Nat /\ RingSize \in Nat \ {0}
  BY <1>2, LenProperties, RingAssumption
<1>6. first \in Nat \ {0} /\ first <= Len(all) + 1 /\ Len(all) - first + 1 <= RingSize
  BY <1>3, <1>5
<1>7. \A i \in first .. Len(all) : all[i] \in Entries
  BY <1>2, <1>5, <1>6, ElementOfSeq
<1>8. /\ ring' \in Seq(Entries)
      /\ Len(ring') = IF first <= Len(all) THEN Len(all) - first + 1 ELSE 0
  BY <1>4, <1>5, <1>6, <1>7, SubSeqProperties
<1> QED
  BY <1>4, <1>5, <1>6, <1>8

\* What arrives of a broken connection is what was sent first.
LEMMA CutOffKeepsEntries ==
  ASSUME wire \in Seq(Entries), CutOff
  PROVE  wire' \in Seq(Entries)
<1>1. PICK n \in 0 .. Len(wire) : wire' = SubSeq(wire, 1, n)
  BY DEF CutOff
<1>2. n \in Int /\ \A i \in 1 .. n : wire[i] \in Entries
  BY LenProperties, ElementOfSeq
<1> QED
  BY <1>1, <1>2, SubSeqProperties

\* The replay holds entries of the ring.
LEMMA ReplayedEntries ==
  ASSUME ring \in Seq(Entries), NEW last, NEW w \in Replay(last)
  PROVE  w \in Seq(Entries)
<1>1. PICK places \in InOrder(Newer(last)) :
          w = [i \in 1 .. Len(places) |-> ring[places[i]]]
  BY DEF Replay
<1>2. Newer(last) \subseteq 1 .. Len(ring) /\ Len(ring) \in Nat
  BY LenProperties DEF Newer
<1>3. IsFiniteSet(Newer(last))
  BY <1>2, PartOfInterval
<1>4. places \in Seq(Newer(last))
  BY <1>1, <1>3, ListingIsComplete
<1>5. PICK n \in Nat : n = Len(places)
  BY <1>4, LenProperties
<1>6. \A i \in 1 .. n : ring[places[i]] \in Entries
  BY <1>2, <1>4, <1>5, ElementOfSeq
<1>7. w \in [1 .. n -> Entries]
  BY <1>1, <1>5, <1>6
<1> QED
  BY <1>7

\* The pending commands and those of the mutant can be listed.
LEMMA ListedCommands ==
  ASSUME NEW S, S \subseteq Commands, NEW cs \in InOrder(S)
  PROVE  /\ cs \in Seq(Commands)
         /\ \A c \in S : \E i \in 1 .. Len(cs) : cs[i] = c
<1>1. IsFiniteSet(S)
  BY PartOfInterval, NumCommandsAssumption DEF Commands
<1>2. /\ cs \in Seq(S)
      /\ \A c \in S : \E i \in 1 .. Len(cs) : cs[i] = c
  BY <1>1, ListingIsComplete
<1> QED
  BY <1>2, SeqMonotonic

\* Besides its type: the agent that is at work has a command.
StreamTypeOK == TypeOK /\ (agent.step # "idle" => agent.command \in Commands)

\* The table and the requests, apart from what stays.
LEMMA TableStepTypes ==
  ASSUME StreamTypeOK,
         \/ \E c \in Commands : Issue(c)
         \/ \E c \in Commands : ExpireCommands(c)
  PROVE  StreamTypeOK'
<1>1. status' \in [Commands -> Statuses] /\ unpublished' \subseteq Commands
  BY DEF Issue, InsertCommand, ExpireCommands, StreamTypeOK, TypeOK, Statuses
<1>2. UNCHANGED <<channelVars, linkVars, agentVars, acks, faults>>
  BY DEF Issue, ExpireCommands
<1> QED
  BY <1>1, <1>2 DEF StreamTypeOK, TypeOK, channelVars, linkVars, agentVars

LEMMA PublishTypes ==
  ASSUME StreamTypeOK, NEW c \in Commands, Publish(c)
  PROVE  StreamTypeOK'
<1>1. ring \in Seq(Entries) /\ counter \in Nat /\ wire \in Seq(Entries)
  BY DEF StreamTypeOK, TypeOK
<1>2. PICK entry : entry = Numbered(<<c>>)
  OBVIOUS
<1>3. entry \in Seq(Entries)
  <2>1. PICK one : one = <<c>>
    OBVIOUS
  <2>2. one \in Seq(Commands)
    BY <2>1
  <2> QED
    BY <1>1, <1>2, <2>1, <2>2, NumberedEntries
<1>4. Remember(entry)
  BY <1>2 DEF Publish
<1>5. ring' \in Seq(Entries) /\ Len(ring') <= RingSize /\ counter' \in Nat
  BY <1>1, <1>3, <1>4, RingKeepsItsSize
<1>6. wire' = wire \o entry \/ wire' = wire
  BY <1>2 DEF Publish
<1>7. wire' \in Seq(Entries)
  BY <1>1, <1>3, <1>6, ConcatProperties
<1>8. /\ unpublished' \subseteq Commands /\ missed' \subseteq Commands
      /\ faults' \in Nat
  BY DEF Publish, StreamTypeOK, TypeOK
<1>9. UNCHANGED <<status, stream, agentVars, acks>>
  BY DEF Publish
<1> QED
  BY <1>5, <1>7, <1>8, <1>9 DEF StreamTypeOK, TypeOK, agentVars

LEMMA ConnectTypes ==
  ASSUME StreamTypeOK, Connect
  PROVE  StreamTypeOK'
<1>1. ring \in Seq(Entries)
  BY DEF StreamTypeOK, TypeOK
<1>2. wire' \in Seq(Entries)
  BY <1>1, ReplayedEntries DEF Connect
<1>3. stream' = "replayed" /\ missed' = {} /\ delivered' = {}
  BY DEF Connect
<1>4. UNCHANGED <<tableVars, channelVars, lastEventId, agent, effects, acks,
                  faults>>
  BY DEF Connect
<1> QED
  BY <1>2, <1>3, <1>4 DEF StreamTypeOK, TypeOK, tableVars, channelVars

LEMMA ResendTypes ==
  ASSUME StreamTypeOK, ResendPending
  PROVE  StreamTypeOK'
<1>1. ring \in Seq(Entries) /\ counter \in Nat /\ wire \in Seq(Entries)
  BY DEF StreamTypeOK, TypeOK
<1>2. PICK cs \in InOrder(Pending) :
          Remember(Numbered(cs)) /\ wire' = wire \o Numbered(cs)
  BY DEF ResendPending, Resend
<1>3. cs \in Seq(Commands)
  BY ListedCommands DEF Pending
<1>4. PICK entries : entries = Numbered(cs)
  OBVIOUS
<1>5. entries \in Seq(Entries)
  BY <1>1, <1>3, <1>4, NumberedEntries
<1>6. ring' \in Seq(Entries) /\ Len(ring') <= RingSize /\ counter' \in Nat
  BY <1>1, <1>2, <1>4, <1>5, RingKeepsItsSize
<1>7. wire' \in Seq(Entries)
  BY <1>1, <1>2, <1>4, <1>5, ConcatProperties
<1>8. stream' = "queried" /\ UNCHANGED <<tableVars, missed, agentVars, acks, faults>>
  BY DEF ResendPending, Resend
<1> QED
  BY <1>6, <1>7, <1>8 DEF StreamTypeOK, TypeOK, tableVars, agentVars

LEMMA DeliverTypes ==
  ASSUME StreamTypeOK, Deliver
  PROVE  StreamTypeOK'
<1>1. wire \in Seq(Entries) /\ wire # <<>>
  BY DEF StreamTypeOK, TypeOK, Deliver
<1>2. PICK e : e = Head(wire)
  OBVIOUS
<1>3. e \in Entries /\ wire' \in Seq(Entries)
  BY <1>1, <1>2, HeadTailProperties DEF Deliver
<1>4. e.id \in Nat /\ e.command \in Commands
  BY <1>3 DEF Entries
<1>5. agent' = [step |-> "applying", command |-> e.command, verdict |-> "failed"]
  BY <1>2 DEF Deliver
<1>6. agent' \in AgentStates /\ agent'.command \in Commands
  BY <1>4, <1>5 DEF AgentStates, AgentSteps, Verdicts
<1>7. lastEventId' \in Nat /\ delivered' \subseteq Commands
  BY <1>2, <1>4 DEF Deliver, StreamTypeOK, TypeOK
<1>8. UNCHANGED <<tableVars, channelVars, stream, missed, effects, acks, faults>>
  BY DEF Deliver
<1> QED
  BY <1>3, <1>6, <1>7, <1>8 DEF StreamTypeOK, TypeOK, tableVars, channelVars

LEMMA LinkTypes ==
  ASSUME StreamTypeOK, Subscribe \/ Disconnect
  PROVE  StreamTypeOK'
<1>1. wire \in Seq(Entries)
  BY DEF StreamTypeOK, TypeOK
<1>2. wire' \in Seq(Entries)
  BY <1>1, CutOffKeepsEntries DEF Subscribe, Disconnect
<1>3. /\ stream' \in {"live", "down"} /\ faults' \in Nat
      /\ missed' \subseteq Commands
  BY DEF Subscribe, Disconnect, StreamTypeOK, TypeOK
<1>4. UNCHANGED <<tableVars, channelVars, agentVars, acks>>
  BY DEF Subscribe, Disconnect
<1> QED
  BY <1>2, <1>3, <1>4 DEF StreamTypeOK, TypeOK, tableVars, channelVars, agentVars

\* A request of the agent is one.
LEMMA AckIsRequest ==
  ASSUME NEW c \in Commands, NEW v \in Verdicts
  PROVE  Ack(c, v) \in AckRequests
BY DEF Ack, AckRequests

LEMMA ApplyTypes ==
  ASSUME StreamTypeOK, Apply
  PROVE  StreamTypeOK'
<1>1. agent \in AgentStates /\ agent.command \in Commands
  BY DEF StreamTypeOK, TypeOK, Apply
<1>2. PICK v \in Verdicts :
          /\ agent' = [agent EXCEPT !.step = "waiting", !.verdict = v]
          /\ acks' = acks \cup {Ack(agent.command, v)}
  BY DEF Apply, Verdicts
<1>3. Ack(agent.command, v) \in AckRequests
  BY <1>1, AckIsRequest
<1>4. acks' \subseteq AckRequests
  BY <1>2, <1>3 DEF StreamTypeOK, TypeOK
<1>5. agent' \in AgentStates /\ agent'.command \in Commands
  <2>1. PICK c, s, w : /\ agent = [step |-> s, command |-> c, verdict |-> w]
                       /\ c = agent.command
    BY <1>1 DEF AgentStates
  <2>2. agent' = [step |-> "waiting", command |-> c, verdict |-> v]
    BY <1>2, <2>1
  <2> QED
    BY <1>1, <2>1, <2>2 DEF AgentStates, AgentSteps
<1>6. effects' \in [Commands -> 0 .. 2]
  <2>1. effects \in [Commands -> 0 .. 2]
    BY DEF StreamTypeOK, TypeOK
  <2>2. PICK c \in Commands : c = agent.command
    BY <1>1
  <2>3. \/ effects' = effects
        \/ effects[c] < 2 /\ effects' = [effects EXCEPT ![c] = @ + 1]
    BY <2>2 DEF Apply
  <2>4. effects[c] \in 0 .. 2
    BY <2>1
  <2>5. effects[c] < 2 => effects[c] + 1 \in 0 .. 2
    BY <2>4
  <2> QED
    BY <2>1, <2>3, <2>5
<1>7. UNCHANGED <<tableVars, channelVars, linkVars, lastEventId, delivered, faults>>
  BY DEF Apply
<1> QED
  BY <1>4, <1>5, <1>6, <1>7 DEF StreamTypeOK, TypeOK, tableVars, channelVars, linkVars

\* What is left of the requests when nobody waits any more.
LEMMA OutstandingTypes ==
  ASSUME acks \subseteq AckRequests, NEW left \in Outstanding
  PROVE  left \subseteq AckRequests
<1>1. CASE left = acks \ Awaited
  BY <1>1
<1>2. CASE left = Abandoned
  <2> SUFFICES ASSUME NEW r \in acks
               PROVE  [r EXCEPT !.awaited = FALSE] \in AckRequests
    BY <1>2 DEF Abandoned
  <2>1. r \in AckRequests
    OBVIOUS
  <2> QED
    BY <2>1 DEF AckRequests
<1> QED
  BY <1>1, <1>2 DEF Outstanding

LEMMA IdleType == Idle \in AgentStates /\ Idle.step = "idle"
BY DEF Idle, AgentStates, AgentSteps, Verdicts

LEMMA AckFailsTypes ==
  ASSUME StreamTypeOK, AckFails
  PROVE  StreamTypeOK'
<1>1. agent \in AgentStates /\ agent.command \in Commands
  BY DEF StreamTypeOK, TypeOK, AckFails
<1>2. PICK left \in Outstanding :
          \/ /\ agent' = [agent EXCEPT !.verdict = "failed"]
             /\ acks' = left \cup {Ack(agent.command, "failed")}
          \/ agent' = Idle /\ acks' = left
  BY DEF AckFails
<1>3. left \subseteq AckRequests
  BY OutstandingTypes DEF StreamTypeOK, TypeOK
<1>4. Ack(agent.command, "failed") \in AckRequests
  BY <1>1, AckIsRequest DEF Verdicts
<1>5. acks' \subseteq AckRequests
  BY <1>2, <1>3, <1>4
<1>6. agent' \in AgentStates /\ (agent'.step # "idle" => agent'.command \in Commands)
  <2>1. CASE agent' = Idle
    BY <2>1, IdleType
  <2>2. CASE agent' = [agent EXCEPT !.verdict = "failed"]
    <3>1. PICK c, s, w : /\ agent = [step |-> s, command |-> c, verdict |-> w]
                         /\ c = agent.command /\ s = agent.step
      BY <1>1 DEF AgentStates
    <3>2. agent' = [step |-> s, command |-> c, verdict |-> "failed"]
      BY <2>2, <3>1
    <3> QED
      BY <1>1, <3>1, <3>2 DEF AgentStates, Verdicts
  <2> QED
    BY <1>2, <2>1, <2>2
<1>7. faults' \in Nat
  BY DEF AckFails, StreamTypeOK, TypeOK
<1>8. UNCHANGED <<tableVars, channelVars, linkVars, lastEventId, effects, delivered>>
  BY DEF AckFails
<1> QED
  BY <1>5, <1>6, <1>7, <1>8 DEF StreamTypeOK, TypeOK, tableVars, channelVars, linkVars

LEMMA ServerAckTypes ==
  ASSUME StreamTypeOK, NEW r \in acks, ReadCommand(r) \/ WriteVerdict(r)
  PROVE  StreamTypeOK'
<1>1. r \in AckRequests /\ acks \subseteq AckRequests
  BY DEF StreamTypeOK, TypeOK
<1>2. [r EXCEPT !.foundOpen = TRUE] \in AckRequests
  BY <1>1 DEF AckRequests
<1>3. acks' \subseteq AckRequests
  BY <1>1, <1>2 DEF ReadCommand, WriteVerdict
<1>4. agent' = agent \/ agent' = Idle
  BY DEF ReadCommand, WriteVerdict
<1>5. agent' \in AgentStates /\ (agent'.step # "idle" => agent'.command \in Commands)
  BY <1>4, IdleType DEF StreamTypeOK, TypeOK
<1>6. r.verdict \in Verdicts
  BY <1>1 DEF AckRequests
<1>7. status' \in [Commands -> Statuses]
  BY <1>6 DEF ReadCommand, WriteVerdict, StreamTypeOK, TypeOK, Statuses, tableVars
<1>8. UNCHANGED <<unpublished, channelVars, linkVars, lastEventId, effects,
                  delivered, faults>>
  BY DEF ReadCommand, WriteVerdict, tableVars
<1> QED
  BY <1>3, <1>5, <1>7, <1>8 DEF StreamTypeOK, TypeOK, channelVars, linkVars

LEMMA RestartTypes ==
  ASSUME StreamTypeOK, RestartAgent \/ RestartApi
  PROVE  StreamTypeOK'
<1>1. wire \in Seq(Entries) /\ <<>> \in Seq(Entries)
  BY EmptySeq DEF StreamTypeOK, TypeOK
<1>2. wire' \in Seq(Entries)
  BY <1>1, CutOffKeepsEntries DEF RestartAgent, RestartApi
<1>3. acks' \subseteq AckRequests
  BY OutstandingTypes DEF RestartAgent, RestartApi, StreamTypeOK, TypeOK
<1>4. agent' \in AgentStates /\ (agent'.step # "idle" => agent'.command \in Commands)
  BY IdleType DEF RestartAgent, RestartApi, StreamTypeOK, TypeOK, agentVars
<1>5. ring' \in Seq(Entries) /\ Len(ring') <= RingSize /\ counter' \in Nat
  <2>1. CASE RestartAgent
    BY <2>1 DEF RestartAgent, StreamTypeOK, TypeOK, channelVars
  <2>2. CASE RestartApi
    <3>1. ring' = <<>> /\ counter' = 0
      BY <2>2 DEF RestartApi
    <3>2. Len(<<>>) = 0 /\ RingSize \in Nat
      BY RingAssumption
    <3> QED
      BY <1>1, <3>1, <3>2
  <2> QED
    BY <2>1, <2>2
<1>6. /\ status' = status /\ effects' = effects /\ unpublished' \subseteq Commands
      /\ stream' = "down" /\ lastEventId' \in Nat /\ faults' \in Nat
      /\ missed' \subseteq Commands /\ delivered' \subseteq Commands
  BY DEF RestartAgent, RestartApi, StreamTypeOK, TypeOK, tableVars, agentVars
<1> QED
  BY <1>2, <1>3, <1>4, <1>5, <1>6 DEF StreamTypeOK, TypeOK

LEMMA StreamTypesKept ==
  ASSUME StreamTypeOK, [Next]_vars
  PROVE  StreamTypeOK'
<1>1. CASE \E c \in Commands : Issue(c) \/ ExpireCommands(c)
  BY <1>1, TableStepTypes
<1>2. ASSUME NEW c \in Commands, Publish(c) PROVE StreamTypeOK'
  BY <1>2, PublishTypes
<1>3. CASE Connect
  BY <1>3, ConnectTypes
<1>4. CASE ResendPending
  BY <1>4, ResendTypes
<1>5. CASE Subscribe \/ Disconnect
  BY <1>5, LinkTypes
<1>6. CASE Deliver
  BY <1>6, DeliverTypes
<1>7. CASE Apply
  BY <1>7, ApplyTypes
<1>8. CASE AckFails
  BY <1>8, AckFailsTypes
<1>9. ASSUME NEW r \in acks, ReadCommand(r) \/ WriteVerdict(r)
      PROVE  StreamTypeOK'
  BY <1>9, ServerAckTypes
<1>10. CASE RestartAgent \/ RestartApi
  BY <1>10, RestartTypes
<1>11. CASE UNCHANGED vars
  BY <1>11 DEF StreamTypeOK, TypeOK, vars, tableVars, channelVars, linkVars, agentVars
<1> QED
  BY <1>1, <1>2, <1>3, <1>4, <1>5, <1>6, <1>7, <1>8, <1>9, <1>10, <1>11 DEF Next

LEMMA StreamTypesAtFirst == Init => StreamTypeOK
<1> SUFFICES ASSUME Init PROVE StreamTypeOK
  OBVIOUS
<1>1. <<>> \in Seq(Entries) /\ Len(<<>>) = 0 /\ RingSize \in Nat
  BY RingAssumption
<1>2. ring \in Seq(Entries) /\ Len(ring) <= RingSize /\ wire \in Seq(Entries)
  BY <1>1 DEF Init
<1>3. agent \in AgentStates /\ agent.step = "idle"
  BY IdleType DEF Init
<1> QED
  BY <1>2, <1>3 DEF Init, StreamTypeOK, TypeOK, Statuses

\* Every variable keeps its type: the ring its size, and the stream carries
\* commands and nothing else.
THEOREM TypeCorrect == Spec => []TypeOK
<1>1. Init => StreamTypeOK
  BY StreamTypesAtFirst
<1>2. StreamTypeOK /\ [Next]_vars => StreamTypeOK'
  BY StreamTypesKept
<1>3. StreamTypeOK => TypeOK
  BY DEF StreamTypeOK
<1> QED
  BY <1>1, <1>2, <1>3, PTL DEF Spec

-----------------------------------------------------------------------------
(***************************************************************************)
(* No open command is left out.  Only the query for the open commands      *)
(* looks at the table; what holds when the stream is live has to hold from *)
(* then on, while it is not subscribed yet.                                *)
(***************************************************************************)

Heard(c) == c \in delivered \/ \E i \in 1 .. Len(wire) : wire[i].command = c

OpenCommandsHeard ==
    stream \in {"queried", "live"} =>
        \A c \in Pending \ (unpublished \cup missed) : Heard(c)

ReachInv == StreamTypeOK /\ OpenCommandsHeard

\* What is put behind the entries on the wire hides none of them.
LEMMA LongerWireKeepsHeard ==
  ASSUME wire \in Seq(Entries), NEW es \in Seq(Entries), wire' = wire \o es,
         delivered' = delivered
  PROVE  /\ \A c : Heard(c) => Heard(c)'
         /\ \A i \in 1 .. Len(es) : Heard(es[i].command)'
<1>1. PICK m \in Nat, n \in Nat : m = Len(wire) /\ n = Len(es)
  BY LenProperties
<1>2. /\ Len(wire') = m + n
      /\ \A i \in 1 .. m + n :
             wire'[i] = IF i <= m THEN wire[i] ELSE es[i - m]
  BY <1>1, ConcatProperties
<1>3. ASSUME NEW c, Heard(c) PROVE Heard(c)'
  BY <1>1, <1>2, <1>3 DEF Heard
<1>4. ASSUME NEW i \in 1 .. Len(es) PROVE Heard(es[i].command)'
  <2>1. m + i \in 1 .. m + n /\ ~(m + i <= m) /\ m + i - m = i
    BY <1>1
  <2>2. wire'[m + i] = es[i]
    BY <1>2, <2>1
  <2>3. wire'[m + i].command = es[i].command
    BY <2>2
  <2> QED
    BY <1>2, <2>1, <2>3 DEF Heard
<1> QED
  BY <1>3, <1>4

\* The agent takes the first entry from the wire and knows its command.
LEMMA DeliverKeepsHeard ==
  ASSUME wire \in Seq(Entries), Deliver
  PROVE  \A c : Heard(c) => Heard(c)'
<1>1. PICK n \in Nat : n = Len(wire)
  BY LenProperties
<1>2. /\ wire # <<>> /\ wire' = Tail(wire)
      /\ delivered' = delivered \cup {Head(wire).command}
  BY DEF Deliver
<1>3. /\ Len(wire') = n - 1
      /\ \A i \in 1 .. n - 1 : wire'[i] = wire[i + 1]
      /\ Head(wire) = wire[1]
  BY <1>1, <1>2, HeadTailProperties
<1> SUFFICES ASSUME NEW c, NEW i \in 1 .. n, wire[i].command = c
             PROVE  Heard(c)'
  BY <1>1, <1>2 DEF Heard
<1>4. CASE i = 1
  BY <1>2, <1>3, <1>4 DEF Heard
<1>5. CASE i # 1
  <2>1. i - 1 \in 1 .. n - 1 /\ (i - 1) + 1 = i
    BY <1>5
  <2>2. wire'[i - 1] = wire[i]
    BY <1>3, <2>1
  <2>3. wire'[i - 1].command = c
    BY <2>2
  <2> QED
    BY <1>3, <2>1, <2>3 DEF Heard
<1> QED
  BY <1>4, <1>5

\* The query finds every open command, the ones just replayed too.
LEMMA ResendReachesAll ==
  ASSUME StreamTypeOK, ResendPending
  PROVE  OpenCommandsHeard'
<1>1. counter \in Nat /\ wire \in Seq(Entries)
  BY DEF StreamTypeOK, TypeOK
<1>2. PICK cs \in InOrder(Pending) : wire' = wire \o Numbered(cs)
  BY DEF ResendPending, Resend
<1>3. /\ cs \in Seq(Commands)
      /\ \A c \in Pending : \E i \in 1 .. Len(cs) : cs[i] = c
  BY ListedCommands DEF Pending
<1>4. PICK entries : entries = Numbered(cs)
  OBVIOUS
<1>5. /\ entries \in Seq(Entries) /\ Len(entries) = Len(cs)
      /\ \A i \in 1 .. Len(cs) : entries[i].command = cs[i]
  BY <1>1, <1>3, <1>4, NumberedEntries
<1>6. status' = status /\ delivered' = delivered
  BY DEF ResendPending, Resend, tableVars, agentVars
<1>7. \A i \in 1 .. Len(entries) : Heard(entries[i].command)'
  BY <1>1, <1>2, <1>4, <1>5, <1>6, LongerWireKeepsHeard
<1>8. \A c \in Pending : Heard(c)'
  BY <1>3, <1>5, <1>7
<1>9. Pending' = Pending
  BY <1>6 DEF Pending
<1> QED
  BY <1>8, <1>9 DEF OpenCommandsHeard

\* What is published is on the wire, or among what this connection missed.
LEMMA PublishReaches ==
  ASSUME ReachInv, NEW c \in Commands, Publish(c)
  PROVE  OpenCommandsHeard'
<1>1. counter \in Nat /\ wire \in Seq(Entries)
  BY DEF ReachInv, StreamTypeOK, TypeOK
<1>2. PICK one : one = <<c>>
  OBVIOUS
<1>3. one \in Seq(Commands) /\ Len(one) = 1 /\ one[1] = c
  BY <1>2
<1>4. PICK entry : entry = Numbered(one)
  OBVIOUS
<1>5. /\ entry \in Seq(Entries) /\ Len(entry) = 1 /\ entry[1].command = c
  BY <1>1, <1>3, <1>4, NumberedEntries
<1>6. /\ status' = status /\ stream' = stream /\ delivered' = delivered
      /\ unpublished' = unpublished \ {c}
  BY DEF Publish, agentVars
<1>7. Pending' = Pending
  BY <1>6 DEF Pending
<1>8. CASE wire' = wire \o entry /\ missed' = missed
  <2>1. \A d : Heard(d) => Heard(d)'
    BY <1>1, <1>5, <1>6, <1>8, LongerWireKeepsHeard
  <2>2. \A i \in 1 .. Len(entry) : Heard(entry[i].command)'
    BY <1>1, <1>5, <1>6, <1>8, LongerWireKeepsHeard
  <2>3. Heard(c)'
    BY <1>5, <2>2
  <2> QED
    BY <1>6, <1>7, <1>8, <2>1, <2>3 DEF ReachInv, OpenCommandsHeard
<1>9. CASE wire' = wire
  <2>1. stream \in {"queried", "live"} =>
            missed' = missed \cup {c} \/ wire' = wire \o entry
    BY <1>2, <1>4 DEF Publish
  <2>2. \A d : Heard(d) => Heard(d)'
    BY <1>6, <1>9 DEF Heard
  <2>3. CASE stream \in {"queried", "live"} /\ missed' = missed \cup {c}
    BY <1>6, <1>7, <2>2, <2>3 DEF ReachInv, OpenCommandsHeard
  <2>4. CASE stream \notin {"queried", "live"}
    BY <1>6, <2>4 DEF OpenCommandsHeard
  <2>5. CASE wire' = wire \o entry /\ missed' = missed
    BY <1>8, <2>5
  <2> QED
    BY <1>2, <1>4, <2>3, <2>4, <2>5 DEF Publish
<1> QED
  BY <1>2, <1>4, <1>8, <1>9 DEF Publish

\* The table only closes commands, except for a new one, not published yet.
LEMMA TableStepReaches ==
  ASSUME ReachInv,
         \/ \E c \in Commands : Issue(c) \/ ExpireCommands(c)
         \/ \E r \in acks : ReadCommand(r) \/ WriteVerdict(r)
         \/ Apply \/ AckFails \/ UNCHANGED vars
  PROVE  OpenCommandsHeard'
<1>1. UNCHANGED <<stream, wire, missed, delivered>>
  BY DEF Issue, ExpireCommands, ReadCommand, WriteVerdict, Apply, AckFails, vars,
         linkVars, agentVars
<1>2. \A r \in acks : r.verdict \in Verdicts
  BY DEF ReachInv, StreamTypeOK, TypeOK, AckRequests
<1>3. /\ status \in [Commands -> Statuses]
      /\ unpublished \subseteq unpublished'
  BY DEF ReachInv, StreamTypeOK, TypeOK, Issue, InsertCommand, ExpireCommands,
         ReadCommand, WriteVerdict, Apply, AckFails, vars, tableVars
<1>4. Pending' \ unpublished' \subseteq Pending \ unpublished
  <2>1. CASE \E c \in Commands : Issue(c) \/ ExpireCommands(c)
    BY <1>3, <2>1 DEF Issue, InsertCommand, ExpireCommands, Pending
  <2>2. CASE \E r \in acks : WriteVerdict(r)
    BY <1>2, <1>3, <2>2 DEF WriteVerdict, Pending, Verdicts
  <2>3. CASE \/ \E r \in acks : ReadCommand(r)
             \/ Apply \/ AckFails \/ UNCHANGED vars
    BY <2>3 DEF ReadCommand, Apply, AckFails, vars, tableVars, Pending
  <2> QED
    BY <2>1, <2>2, <2>3
<1>5. \A c : Heard(c) => Heard(c)'
  BY <1>1 DEF Heard
<1> QED
  BY <1>1, <1>4, <1>5 DEF ReachInv, OpenCommandsHeard

\* A live connection has brought every open command to the agent, or carries
\* it: replay, query and subscription leave out only what is published between
\* the query and the subscription, or lost in Redis.
THEOREM OpenCommandsCorrect == Spec => []OpenCommandsReachAgent
<1>1. Init => OpenCommandsHeard
  BY DEF Init, OpenCommandsHeard
<1>2. ReachInv /\ [Next]_vars => OpenCommandsHeard'
  <2> SUFFICES ASSUME ReachInv, [Next]_vars PROVE OpenCommandsHeard'
    OBVIOUS
  <2>1. CASE \/ \E c \in Commands : Issue(c) \/ ExpireCommands(c)
             \/ \E r \in acks : ReadCommand(r) \/ WriteVerdict(r)
             \/ Apply \/ AckFails \/ UNCHANGED vars
    BY <2>1, TableStepReaches
  <2>2. ASSUME NEW c \in Commands, Publish(c) PROVE OpenCommandsHeard'
    BY <2>2, PublishReaches
  <2>3. CASE ResendPending
    BY <2>3, ResendReachesAll DEF ReachInv
  <2>4. CASE Subscribe
    <3>1. /\ stream = "queried"
          /\ UNCHANGED <<status, unpublished, missed, wire, delivered>>
      BY <2>4 DEF Subscribe, tableVars, agentVars
    <3> QED
      BY <3>1 DEF ReachInv, OpenCommandsHeard, Pending, Heard
  <2>5. CASE Deliver
    <3>1. UNCHANGED <<status, unpublished, missed, stream>>
      BY <2>5 DEF Deliver, tableVars
    <3>2. \A c : Heard(c) => Heard(c)'
      BY <2>5, DeliverKeepsHeard DEF ReachInv, StreamTypeOK, TypeOK
    <3> QED
      BY <3>1, <3>2 DEF ReachInv, OpenCommandsHeard, Pending
  <2>6. CASE Connect \/ Disconnect \/ RestartAgent \/ RestartApi
    BY <2>6 DEF Connect, Disconnect, RestartAgent, RestartApi, OpenCommandsHeard
  <2> QED
    BY <2>1, <2>2, <2>3, <2>4, <2>5, <2>6 DEF Next
<1>3. ReachInv => OpenCommandsReachAgent
  BY DEF ReachInv, OpenCommandsHeard, OpenCommandsReachAgent, Heard
<1>4. Spec => []StreamTypeOK
  <2>1. Init => StreamTypeOK
    BY StreamTypesAtFirst
  <2>2. StreamTypeOK /\ [Next]_vars => StreamTypeOK'
    BY StreamTypesKept
  <2> QED
    BY <2>1, <2>2, PTL DEF Spec
<1> QED
  BY <1>1, <1>2, <1>3, <1>4, PTL DEF Spec, ReachInv
=============================================================================

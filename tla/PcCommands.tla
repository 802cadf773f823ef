----------------------------- MODULE PcCommands -----------------------------
(***************************************************************************)
(* The commands an administrator gives one PC: they are inserted in        *)
(* pc_commands, published to the event stream, replayed and sent again on  *)
(* every connection, applied by the agent, acknowledged, and expired by    *)
(* the worker.                                                             *)
(*                                                                         *)
(* One API process is modelled; other events of the stream are left out.   *)
(* TCP keeps the order of a connection and loses its end when it breaks.   *)
(***************************************************************************)
EXTENDS Naturals, Sequences, FiniteSets

CONSTANTS
    NumCommands,    \* commands issued, numbered in the order of issued_at
    NoCommand,
    RingSize,       \* entries kept for replay
    MaxFaults       \* bound on broken connections, restarts of the agent and
                    \* the API, lost publications and acknowledgements

Commands == 1 .. NumCommands

ASSUME NumCommandsAssumption == NumCommands \in Nat
ASSUME NoCommandAssumption == NoCommand \notin Commands
ASSUME RingAssumption == RingSize \in Nat \ {0}
ASSUME BoundsAssumption == MaxFaults \in Nat

VARIABLES
    status,         \* table pc_commands
    unpublished,    \* inserted by a request that has not published yet
    ring,           \* the API's replay buffer
    counter,        \* the API's last event id
    stream,         \* how far the API is with the connection
    wire,           \* entries on the way to the agent
    lastEventId,    \* the agent's; 0 for none
    agent,          \* the command it is handling
    acks,           \* acknowledgements at the server
    effects,        \* how often each command took effect, counted up to two
    missed,         \* published after this connection's query, unheard
    delivered,      \* taken by the agent since it connected
    faults

tableVars == <<status, unpublished>>
channelVars == <<ring, counter>>
linkVars == <<stream, wire, missed>>
agentVars == <<lastEventId, agent, effects, delivered>>
vars == <<tableVars, channelVars, linkVars, agentVars, acks, faults>>

Verdicts == {"applied", "failed"}
Statuses == Verdicts \cup {"none", "pending", "expired"}
Entries == [id : Nat \ {0}, command : Commands]
AgentSteps == {"idle", "applying", "waiting"}
AgentStates ==
    [step : AgentSteps, command : Commands \cup {NoCommand},
     verdict : Verdicts]
\* Abandoned requests that do the same are one.
AckRequests ==
    [command : Commands, verdict : Verdicts,
     foundOpen : BOOLEAN, awaited : BOOLEAN]

Idle == [step |-> "idle", command |-> NoCommand, verdict |-> "failed"]

TypeOK ==
    /\ status \in [Commands -> Statuses]
    /\ unpublished \subseteq Commands
    /\ ring \in Seq(Entries) /\ Len(ring) <= RingSize
    /\ counter \in Nat
    /\ stream \in {"down", "replayed", "queried", "live"}
    /\ wire \in Seq(Entries)
    /\ lastEventId \in Nat
    /\ agent \in AgentStates
    /\ acks \subseteq AckRequests
    /\ effects \in [Commands -> 0 .. 2]
    /\ missed \subseteq Commands /\ delivered \subseteq Commands
    /\ faults \in Nat

Init ==
    /\ status = [c \in Commands |-> "none"]
    /\ unpublished = {}
    /\ ring = <<>> /\ counter = 0
    /\ stream = "down" /\ wire = <<>>
    /\ lastEventId = 0 /\ agent = Idle
    /\ acks = {}
    /\ effects = [c \in Commands |-> 0]
    /\ missed = {} /\ delivered = {}
    /\ faults = 0

-----------------------------------------------------------------------------
(***************************************************************************)
(* handleIssueCommand, issuePcCommand: the INSERT, then publishToCafe.     *)
(***************************************************************************)

Pending == {c \in Commands : status[c] = "pending"}

InsertCommand(c) ==
    /\ status[c] = "none"
    /\ \A d \in 1 .. c - 1 : status[d] # "none"
    /\ status' = [status EXCEPT ![c] = "pending"]
    /\ unpublished' = unpublished \cup {c}

\* For any PC of the cafe; a dangerous command that is not confirmed is turned
\* down and changes nothing.
Issue(c) ==
    /\ InsertCommand(c)
    /\ UNCHANGED <<channelVars, linkVars, agentVars, acks, faults>>

\* allocateEntry for each command of a sequence.
Numbered(cs) ==
    [i \in 1 .. Len(cs) |-> [id |-> counter + i, command |-> cs[i]]]

\* ORDER BY, filter: the listing of a set of numbers, the least one first.
InOrder(S) ==
    {xs \in [1 .. Cardinality(S) -> S] :
        /\ \A i, j \in DOMAIN xs : i < j => xs[i] < xs[j]
        /\ \A x \in S : \E i \in DOMAIN xs : xs[i] = x}

Remember(entries) ==
    LET all == ring \o entries IN
    /\ counter' = counter + Len(entries)
    /\ ring' = SubSeq(all, IF Len(all) > RingSize
                           THEN Len(all) - RingSize + 1 ELSE 1, Len(all))

\* Only a subscribed connection hears it; the Redis message may be lost.
Publish(c) ==
    LET entry == Numbered(<<c>>) IN
    /\ c \in unpublished
    /\ unpublished' = unpublished \ {c}
    /\ Remember(entry)
    /\ \/ /\ stream = "live"
          /\ wire' = wire \o entry
          /\ UNCHANGED <<missed, faults>>
       \/ /\ stream = "live" /\ faults < MaxFaults
          /\ faults' = faults + 1
          /\ missed' = missed \cup {c}
          /\ UNCHANGED wire
       \/ /\ stream # "live"
          /\ missed' = IF stream = "queried" THEN missed \cup {c} ELSE missed
          /\ UNCHANGED <<wire, faults>>
    /\ UNCHANGED <<status, stream, agentVars, acks>>

(***************************************************************************)
(* streamEvents: the replay, the pending commands, the subscription.       *)
(***************************************************************************)

\* The loop of SseClient handles an event before it reads on, so it connects
\* again when everything it received is handled.
AgentConnects == stream = "down" /\ wire = <<>> /\ agent.step = "idle"

\* getReplay.  Without a last event id everything is new.
Newer(last) == {i \in 1 .. Len(ring) : ring[i].id > last}
Replay(last) ==
    {[i \in 1 .. Len(places) |-> ring[places[i]]] :
        places \in InOrder(Newer(last))}

Connect ==
    /\ AgentConnects
    /\ stream' = "replayed"
    /\ wire' \in Replay(lastEventId)
    /\ missed' = {} /\ delivered' = {}
    /\ UNCHANGED <<tableVars, channelVars, lastEventId, agent, effects, acks,
                   faults>>

Resend(commands) ==
    /\ stream = "replayed"
    /\ stream' = "queried"
    /\ \E cs \in InOrder(commands) :
        /\ Remember(Numbered(cs))
        /\ wire' = wire \o Numbered(cs)
    /\ UNCHANGED <<tableVars, missed, agentVars, acks, faults>>

\* Mutant: what the ring holds is not sent again.
ResendUnlessReplayed ==
    Resend(Pending \ {ring[i].command : i \in 1 .. Len(ring)})

\* Pending commands get new ids, also those just replayed; expires_at is not
\* looked at.
ResendPending == Resend(Pending)

Subscribe ==
    /\ stream = "queried"
    /\ stream' = "live"
    /\ UNCHANGED <<tableVars, channelVars, wire, missed, agentVars, acks,
                   faults>>

\* What was sent last does not arrive; the agent reads what did.
CutOff == \E n \in 0 .. Len(wire) : wire' = SubSeq(wire, 1, n)

\* The subscription ends with the connection.
Disconnect ==
    /\ stream # "down"
    /\ faults < MaxFaults
    /\ faults' = faults + 1
    /\ stream' = "down"
    /\ CutOff
    /\ missed' = {}
    /\ UNCHANGED <<tableVars, channelVars, agentVars, acks>>

(***************************************************************************)
(* The agent: SseClient, ApplySseEvent, CommandHandler.HandleAsync.        *)
(***************************************************************************)

Deliver ==
    /\ wire # <<>> /\ agent.step = "idle"
    /\ lastEventId' = Head(wire).id
    /\ agent' = [step |-> "applying", command |-> Head(wire).command,
                 verdict |-> "failed"]
    /\ delivered' = delivered \cup {Head(wire).command}
    /\ wire' = Tail(wire)
    /\ UNCHANGED <<tableVars, channelVars, stream, missed, effects, acks,
                   faults>>

\* ackApplied or ackFailed: the request that the agent waits for.
Ack(c, verdict) ==
    [command |-> c, verdict |-> verdict, foundOpen |-> FALSE, awaited |-> TRUE]

\* Mutant: an exception of ApplyAsync is swallowed.
ApplyOrIgnore ==
    /\ agent.step = "applying"
    /\ \E ok \in BOOLEAN :
        /\ agent' = [agent EXCEPT !.step = "waiting", !.verdict = "applied"]
        /\ acks' = acks \cup {Ack(agent.command, "applied")}
        /\ effects' = IF ok /\ effects[agent.command] < 2
                      THEN [effects EXCEPT ![agent.command] = @ + 1]
                      ELSE effects
    /\ UNCHANGED <<tableVars, channelVars, linkVars, lastEventId, delivered,
                   faults>>

\* ApplyAsync does not look whether the command was applied before; it may
\* throw (no active session).
Apply ==
    /\ agent.step = "applying"
    /\ \E ok \in BOOLEAN :
        LET verdict == IF ok THEN "applied" ELSE "failed" IN
        /\ agent' = [agent EXCEPT !.step = "waiting", !.verdict = verdict]
        /\ acks' = acks \cup {Ack(agent.command, verdict)}
        /\ effects' = IF ok /\ effects[agent.command] < 2
                      THEN [effects EXCEPT ![agent.command] = @ + 1]
                      ELSE effects
    /\ UNCHANGED <<tableVars, channelVars, linkVars, lastEventId, delivered,
                   faults>>

Awaited == {r \in acks : r.awaited}

\* The server works on with what nobody waits for any more, unless it never
\* arrived.
Abandoned == {[r EXCEPT !.awaited = FALSE] : r \in acks}
Outstanding == {Abandoned, acks \ Awaited}

\* A timeout or a broken connection. After an exception of ackApplied the
\* command is reported as failed, after one of ackFailed nothing is.
AckFails ==
    /\ agent.step = "waiting"
    /\ \/ Awaited = {} /\ UNCHANGED faults
       \/ Awaited # {} /\ faults < MaxFaults /\ faults' = faults + 1
    /\ \E left \in Outstanding :
        IF agent.verdict = "applied"
        THEN /\ agent' = [agent EXCEPT !.verdict = "failed"]
             /\ acks' = left \cup {Ack(agent.command, "failed")}
        ELSE /\ agent' = Idle
             /\ acks' = left
    /\ UNCHANGED <<tableVars, channelVars, linkVars, lastEventId, effects,
                   delivered>>

(***************************************************************************)
(* handleCommandAck: the SELECT, then an UPDATE that looks at nothing.     *)
(***************************************************************************)

\* A command that is closed is answered at once.
ReadCommand(r) ==
    /\ ~r.foundOpen
    /\ IF status[r.command] = "pending"
       THEN /\ acks' = (acks \ {r}) \cup {[r EXCEPT !.foundOpen = TRUE]}
            /\ UNCHANGED agent
       ELSE /\ acks' = acks \ {r}
            /\ agent' = IF r.awaited THEN Idle ELSE agent
    /\ UNCHANGED <<tableVars, channelVars, linkVars, lastEventId, effects,
                   delivered, faults>>

WriteVerdict(r) ==
    /\ r.foundOpen
    /\ status' = [status EXCEPT ![r.command] = r.verdict]
    /\ acks' = acks \ {r}
    /\ agent' = IF r.awaited THEN Idle ELSE agent
    /\ UNCHANGED <<unpublished, channelVars, linkVars, lastEventId, effects,
                   delivered, faults>>

(***************************************************************************)
(* The worker, once a minute                                               *)
(***************************************************************************)

\* expires_at follows issued_at: what is over are the commands up to one.
Stale(last) == {c \in Pending : c <= last}

ExpireCommands(last) ==
    /\ Stale(last) # {}
    /\ status' = [c \in Commands |->
                     IF c \in Stale(last) THEN "expired" ELSE status[c]]
    /\ UNCHANGED <<unpublished, channelVars, linkVars, agentVars, acks,
                   faults>>

(***************************************************************************)
(* Restarts                                                                *)
(***************************************************************************)

\* lastEventId is not stored.
RestartAgent ==
    /\ faults < MaxFaults
    /\ faults' = faults + 1
    /\ agent' = Idle /\ lastEventId' = 0
    /\ stream' = "down" /\ wire' = <<>> /\ missed' = {} /\ delivered' = {}
    /\ acks' \in Outstanding
    /\ UNCHANGED <<tableVars, channelVars, effects>>

\* Ring, counter and the requests at work are in memory.
RestartApi ==
    /\ faults < MaxFaults
    /\ faults' = faults + 1
    /\ ring' = <<>> /\ counter' = 0
    /\ stream' = "down" /\ missed' = {}
    /\ CutOff
    /\ unpublished' = {} /\ acks' = {}
    /\ UNCHANGED <<status, agentVars>>

-----------------------------------------------------------------------------

Next ==
    \/ \E c \in Commands : Issue(c)
    \/ \E c \in Commands : Publish(c)
    \/ Connect
    \/ ResendPending
    \/ Subscribe
    \/ Disconnect
    \/ Deliver
    \/ Apply
    \/ AckFails
    \/ \E r \in acks : ReadCommand(r)
    \/ \E r \in acks : WriteVerdict(r)
    \/ \E c \in Commands : ExpireCommands(c)
    \/ RestartAgent
    \/ RestartApi

Spec == Init /\ [][Next]_vars

-----------------------------------------------------------------------------
(***************************************************************************)
(* Properties.                                                             *)
(***************************************************************************)

\* What the desk reads as applied did happen on the PC, whatever requests were
\* lost, abandoned and overtaken (HandleAsync, handleCommandAck).
AppliedMeansEffect ==
    \A c \in Commands : status[c] = "applied" => effects[c] > 0

\* A connection brings the agent every command that is open: replay, query
\* and subscription leave out only what is published between the query and
\* the subscription or lost in Redis (streamEvents).
OpenCommandsReachAgent ==
    stream = "live" =>
        \A c \in Pending \ (unpublished \cup missed) :
            c \in delivered \/ \E i \in 1 .. Len(wire) : wire[i].command = c
=============================================================================

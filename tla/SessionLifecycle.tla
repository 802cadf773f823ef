-------------------------- MODULE SessionLifecycle --------------------------
(***************************************************************************)
(* What the session endpoints promise about each session of a PC: it is    *)
(* opened once, gains time only while it runs, and is closed once.         *)
(*                                                                         *)
(* ServerSessions implements this specification when no offline events     *)
(* are applied (see ServerSessions!Lifecycle).                             *)
(***************************************************************************)
EXTENDS Naturals

CONSTANTS
    Sessions,        \* sessions of one PC
    Minutes          \* amounts of time that can be bought at once

VARIABLES
    phase,           \* "none" before the session is opened
    granted          \* minutes bought in all

lifeVars == <<phase, granted>>

Open == {"active", "paused"}
Closed == {"ended", "cancelled", "expired"}

Init ==
    /\ phase = [s \in Sessions |-> "none"]
    /\ granted = [s \in Sessions |-> 0]

Start(s, m) ==
    /\ phase[s] = "none"
    /\ phase' = [phase EXCEPT ![s] = "active"]
    /\ granted' = [granted EXCEPT ![s] = m]

Grant(s, m) ==
    /\ phase[s] = "active"
    /\ granted' = [granted EXCEPT ![s] = @ + m]
    /\ UNCHANGED phase

\* Pausing, resuming and closing one session.
Switch(s, to) ==
    /\ phase[s] \in Open
    /\ to \in Open \cup {"ended", "cancelled"}
    /\ phase' = [phase EXCEPT ![s] = to]
    /\ UNCHANGED granted

\* Several sessions may lapse at the same time; a paused one does not.
Lapse(S) ==
    /\ \A s \in S : phase[s] = "active"
    /\ phase' = [s \in Sessions |-> IF s \in S THEN "expired" ELSE phase[s]]
    /\ UNCHANGED granted

Next ==
    \/ \E s \in Sessions, m \in Minutes : Start(s, m)
    \/ \E s \in Sessions, m \in Minutes : Grant(s, m)
    \/ \E s \in Sessions, to \in Open \cup Closed : Switch(s, to)
    \/ \E S \in SUBSET Sessions : Lapse(S)

Spec == Init /\ [][Next]_lifeVars
=============================================================================

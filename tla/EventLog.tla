------------------------------ MODULE EventLog ------------------------------
(***************************************************************************)
(* What the offline-event protocol promises, without saying how: an        *)
(* operation queued on a PC is held there until the server has settled it, *)
(* it is settled exactly once, and afterwards only an administrator's      *)
(* review of a conflict changes what was decided.                          *)
(*                                                                         *)
(* OutboxSync implements this specification (see OutboxSync!Abstract).     *)
(***************************************************************************)

CONSTANT Ops         \* the offline operations, one event each

VARIABLES
    held,            \* operations the PC still holds
    verdict,         \* what the server decided, "none" before it did
    disputed         \* operations it settled as a conflict

logVars == <<held, verdict, disputed>>

Final == {"accepted", "duplicate"}
Verdicts == Final \cup {"conflicted"}

Init ==
    /\ held = {}
    /\ verdict = [o \in Ops |-> "none"]
    /\ disputed = {}

\* An operation is queued once and never after it was settled.
Submit(o) ==
    /\ o \notin held
    /\ verdict[o] = "none"
    /\ held' = held \cup {o}
    /\ UNCHANGED <<verdict, disputed>>

\* The server decides about an operation the PC still holds.
Settle(o, v) ==
    /\ o \in held
    /\ verdict[o] = "none"
    /\ verdict' = [verdict EXCEPT ![o] = v]
    /\ disputed' = IF v = "conflicted" THEN disputed \cup {o} ELSE disputed
    /\ UNCHANGED held

\* Administrators close a conflict, the last one deciding.
Review(o, v) ==
    /\ o \in disputed
    /\ verdict' = [verdict EXCEPT ![o] = v]
    /\ UNCHANGED <<held, disputed>>

\* The PC forgets settled operations.
Forget(S) ==
    /\ S \subseteq held
    /\ \A o \in S : verdict[o] # "none"
    /\ held' = held \ S
    /\ UNCHANGED <<verdict, disputed>>

Next ==
    \/ \E o \in Ops : Submit(o)
    \/ \E o \in Ops, v \in Verdicts : Settle(o, v)
    \/ \E o \in Ops, v \in Final : Review(o, v)
    \/ \E S \in SUBSET Ops : Forget(S)

Spec == Init /\ [][Next]_logVars
=============================================================================

-------------------------- MODULE MCServerSessions --------------------------
(* Instances of ServerSessions for TLC.  Sessions, start requests and keys *)
(* are interchangeable; symmetry is used by the safety runs only.          *)
EXTENDS ServerSessions, TLC

Symmetry ==
    Permutations(Sessions) \cup Permutations(Starts) \cup Permutations(Keys)
=============================================================================

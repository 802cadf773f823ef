---------------------------- MODULE MCOutboxSync ----------------------------
(* Instances of OutboxSync for TLC.  Operations, threads and requests are  *)
(* interchangeable; symmetry is used by the safety runs only.              *)
EXTENDS OutboxSync, TLC

Symmetry ==
    Permutations(Ops) \cup Permutations(Threads) \cup Permutations(Reqs)
    \cup Permutations(Admins)
=============================================================================

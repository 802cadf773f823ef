----------------------------- MODULE MCRollout -----------------------------
(* Instances of Rollout for TLC: PCs are interchangeable, and jobs.         *)
EXTENDS Rollout, TLC

Symmetry == Permutations(PCs) \cup Permutations(Jobs)
=============================================================================

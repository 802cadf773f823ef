--------------------------- MODULE MCSessionSync ---------------------------
(* Instances of SessionSync for TLC.  Sessions are interchangeable when    *)
(* all of them begin in the same place.                                    *)
EXTENDS SessionSync, TLC

\* What the steps depend on: the rest is kept for properties only.
WithoutHistory ==
    <<vars, event, applying, review, local, published, answers>>

Symmetry == Permutations(Sessions)
=============================================================================

--------------------------- MODULE MCFoodOrders ---------------------------
(* Instances of FoodOrders for TLC.  Orders are interchangeable; the       *)
(* symmetry is used by the run without liveness only.                      *)
EXTENDS FoodOrders, TLC

OrderSymmetry == Permutations(Orders)
=============================================================================

--------------------------- MODULE MCSleeveOrders ---------------------------
(* Instances of SleeveOrders for TLC: orders are model values. *)
EXTENDS SleeveOrders, TLC

OrderSymmetry == Permutations(Order)
=============================================================================

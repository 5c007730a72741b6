-------------------------- MODULE MCSleeveControl ---------------------------
(* The instance of SleeveControl that TLC checks. *)
EXTENDS SleeveControl, TLC

Alike == Permutations(Requests)
=============================================================================

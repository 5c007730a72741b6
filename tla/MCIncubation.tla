---------------------------- MODULE MCIncubation ----------------------------
(* The instances of Incubation that TLC checks. *)
EXTENDS Incubation, TLC

Points == {-1, 1}
Alike == Permutations(Candidates) \cup Permutations(Builders)
=============================================================================

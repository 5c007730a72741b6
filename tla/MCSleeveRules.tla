--------------------------- MODULE MCSleeveRules ----------------------------
(* The instance of SleeveRules that TLC checks: rule 1 buys, rule 2 exits. *)
EXTENDS SleeveRules
=============================================================================

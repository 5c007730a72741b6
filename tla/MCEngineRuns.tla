---------------------------- MODULE MCEngineRuns ----------------------------
(* EngineRuns on two processes and one symphony. *)
EXTENDS EngineRuns
=============================================================================

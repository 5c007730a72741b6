-------------------------- MODULE MCRetirementRuns --------------------------
EXTENDS RetirementRuns
=============================================================================

--------------------------- MODULE MCOrchestrator ---------------------------
(***************************************************************************)
(* Small instances of the orchestrator for TLC.                            *)
(***************************************************************************)
EXTENDS OrchestratorProperties, TLC

\* Workers differ in nothing but their names.
WorkerSymmetry == Permutations(Workers)
=============================================================================

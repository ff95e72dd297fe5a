------------------------ MODULE MC_ExecutionEngine ------------------------
(***************************************************************************)
(* Model for ExecutionEngine: the pipelines of MC_TopologicalSort, sorted  *)
(* and then executed with every combination of executor failures.          *)
(***************************************************************************)
EXTENDS ExecutionEngine, MC_TopologicalSort
=============================================================================

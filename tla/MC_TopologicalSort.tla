------------------------ MODULE MC_TopologicalSort ------------------------
(***************************************************************************)
(* Model for TopologicalSort: three blocks, up to two pipe statements of   *)
(* up to three blocks each (so up to four semantic pipes, chained          *)
(* statements, self pipes and repeated pipes included), and every          *)
(* combination of block types with and without input and output.          *)
(***************************************************************************)
EXTENDS TopologicalSort

CONSTANTS b1, b2, b3

MCBlockOrder == <<b1, b2, b3>>

HasValidationError(p) ==
  \E b \in Blocks : "error" \in ToSet(ValidateBlockDefinition(p, b))

(* The pipelines that pass validateBlockDefinition without errors and in   *)
(* which every block with an input has a pipe into it.                     *)
WellConnected(p) ==
  /\ ~HasValidationError(p)
  /\ EveryInputConnected(p)

MCWellConnectedPipelines == {p \in Pipeline : WellConnected(p)}

(* The pipelines that pass validateBlockDefinition with at most warnings.  *)
MCValidatedPipelines == {p \in Pipeline : ~HasValidationError(p)}

(* The pipelines that pass validateBlockDefinition with at most warnings  *)
(* and have a starting block.                                              *)
MCValidatedStartedPipelines ==
  {p \in MCValidatedPipelines : CollectStartingBlocks(p) # <<>>}
=============================================================================

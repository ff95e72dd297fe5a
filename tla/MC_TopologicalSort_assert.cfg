\* The cycle assertion on pipelines that pass block validation with warnings.
CONSTANTS
  b1 = b1
  b2 = b2
  b3 = b3
  NoBlock = NoBlock
  BlockOrder <- MCBlockOrder
  MaxStatements = 2
  MaxChainLen = 3
  Pipelines <- MCValidatedStartedPipelines
SPECIFICATION Spec
INVARIANTS
  AssertOnlyOnCycle
\* getBlocksInTopologicalSorting returns (or fails its assert) and stops.
CHECK_DEADLOCK FALSE

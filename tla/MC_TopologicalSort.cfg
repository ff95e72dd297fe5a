\* Kahn's algorithm on every pipeline of three blocks that passes block
\* validation, warnings allowed.
CONSTANTS
  b1 = b1
  b2 = b2
  b3 = b3
  NoBlock = NoBlock
  BlockOrder <- MCBlockOrder
  MaxStatements = 2
  MaxChainLen = 3
  Pipelines <- MCValidatedPipelines
SPECIFICATION Spec
INVARIANTS
  TypeOK
  ParentsSortedFirst
  AssertIffCycle
\* getBlocksInTopologicalSorting returns (or fails its assert) and stops.
CHECK_DEADLOCK FALSE

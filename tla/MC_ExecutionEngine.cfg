\* Sorting and executing every well-connected pipeline of three blocks, any
\* executor may fail.
CONSTANTS
  b1 = b1
  b2 = b2
  b3 = b3
  NoBlock = NoBlock
  BlockOrder <- MCBlockOrder
  MaxStatements = 2
  MaxChainLen = 3
  Pipelines <- MCWellConnectedPipelines
SPECIFICATION EngineSpec
INVARIANTS
  SkippedIffAncestorFailed
\* The run ends once it has reported its result (or the sort's assert failed).
CHECK_DEADLOCK FALSE

\* Runtime parameter resolution for up to three placeholders over two names.
CONSTANTS
  p = p
  q = q
  Names <- MCNames
  Required <- MCRequired
  Environments <- MCEnvironments
  Unset = Unset
  MaxValue = 99
SPECIFICATION Spec
INVARIANTS
  BatchDiagnostics
  ResolvedValuesRoundTrip
\* extractRuntimeParameters returns and stops.
CHECK_DEADLOCK FALSE

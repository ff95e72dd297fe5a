\* Inference and evaluation of every expression up to two operators deep.
CONSTANTS
  Leaves <- MCLeaves
  Operands <- MCOperands
  MaxDepth = 2
SPECIFICATION Spec
INVARIANTS
  TypeOK
  TypeSoundness
  EvaluationMatchesReference
  ErrorIffUndefined
\* The parser stops producing larger expressions at MaxDepth.
CHECK_DEADLOCK FALSE

--------------------------- MODULE MC_RunOptions ---------------------------
EXTENDS RunOptions

Kinds == {"str", "strTrue", "strFalse", "granularity", "bool", "num", "map", "badMap"}

\* Objects with every required field, of any kind, plus ones missing a field.
MCRawOptions ==
  {NotAnObject} \cup [RequiredFields -> Kinds]
  \cup {[f \in RequiredFields \ {g} |-> "str"] : g \in RequiredFields}
=============================================================================

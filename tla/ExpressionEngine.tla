-------------------------- MODULE ExpressionEngine --------------------------
(***************************************************************************)
(* Type inference and constant evaluation of expressions (model-util.ts:   *)
(* inferTypeFromValue and the inferTypeFrom...Expression functions,        *)
(* evaluateExpression; type-inference.ts: inferTypeFromExpressionLiteral). *)
(*                                                                         *)
(* An expression is a record:                                              *)
(*   [op |-> "lit", val |-> v]                     a literal               *)
(*   [op |-> "not", arg |-> e]                     unary expression        *)
(*   [op |-> o, left |-> l, right |-> r]           binary expression       *)
(* A runtime value v is a pair <<typeof, payload>>: <<"boolean", b>>,      *)
(* <<"string", s>> or <<"number", n>>.  Numbers are kept in half units     *)
(* (n = 3 is 1.5) so that integer and decimal literals compare exactly;    *)
(* Number.isInteger(n / 2) is n % 2 = 0.                                   *)
(*                                                                         *)
(* Inference returns [type |-> t, diags |-> ds] where t is a               *)
(* PropertyValuetype or Undefined and ds is the sequence of diagnostics    *)
(* passed to context.accept, each [sev |-> "error"/"warning", node |-> e]. *)
(* Evaluation returns [ok |-> FALSE] when an assert throws and             *)
(* [ok |-> TRUE, val |-> v] otherwise.                                     *)
(*                                                                         *)
(* The one variable, expr, is the expression the parser hands to          *)
(* inference and evaluation; the actions build every expression up to      *)
(* MaxDepth nested operators from a literal of Leaves and Operands.        *)
(***************************************************************************)
EXTENDS Integers, Sequences

CONSTANTS
  Leaves,    \* the literal expressions
  Operands,  \* the expressions an operator may combine expr with
  MaxDepth   \* bound on the nesting of operators

EqualityOps == {"==", "!="}
RelationalOps == {"<", "<=", ">", ">="}
LogicalOps == {"and", "or", "xor"}
BinaryOps == EqualityOps \cup RelationalOps \cup LogicalOps

Undefined == "undefined"

Lit(v) == [op |-> "lit", val |-> v]
Not(e) == [op |-> "not", arg |-> e]
Bin(o, l, r) == [op |-> o, left |-> l, right |-> r]

Diag(sev, n) == [sev |-> sev, node |-> n]
Inferred(t, ds) == [type |-> t, diags |-> ds]

\* isNumericType
IsNumericType(t) == t \in {"integer", "decimal"}

\* Mutant: the runtime typeof is returned instead of the PropertyValuetype.
InferTypeFromExpressionLiteralTypeof(e) == e.val[1]

\* inferTypeFromExpressionLiteral: a number is integer iff Number.isInteger.
InferTypeFromExpressionLiteral(e) ==
  CASE e.val[1] = "string"  -> "text"
    [] e.val[1] = "boolean" -> "boolean"
    [] e.val[1] = "number"  -> IF e.val[2] % 2 = 0 THEN "integer" ELSE "decimal"

RECURSIVE InferTypeFromExpression(_), InferTypeFromUnaryLogicalExpression(_),
          InferTypeFromBinaryEqualityExpression(_),
          InferTypeFromBinaryRelationalExpression(_),
          InferTypeFromBinaryLogicalExpression(_)

\* Mutant: the error for a non-boolean operand is not accepted.
InferTypeFromUnaryLogicalExpressionSilent(e) ==
  LET inner == InferTypeFromExpression(e.arg) IN
  IF inner.type = Undefined THEN inner
  ELSE IF inner.type # "boolean" THEN Inferred(Undefined, inner.diags)
       ELSE Inferred("boolean", inner.diags)

InferTypeFromUnaryLogicalExpression(e) ==
  LET inner == InferTypeFromExpression(e.arg) IN
  IF inner.type = Undefined THEN inner
  ELSE IF inner.type # "boolean"
       THEN Inferred(Undefined, Append(inner.diags, Diag("error", e.arg)))
       ELSE Inferred("boolean", inner.diags)

\* Mutant: operands of any two different types are only warned about.
InferTypeFromBinaryEqualityExpressionLax(e) ==
  LET l == InferTypeFromExpression(e.left)
      r == InferTypeFromExpression(e.right)
      ds == l.diags \o r.diags
  IN
  IF l.type = Undefined \/ r.type = Undefined THEN Inferred(Undefined, ds)
  ELSE IF l.type = r.type THEN Inferred("boolean", ds)
  ELSE Inferred("boolean", Append(ds, Diag("warning", e)))

InferTypeFromBinaryEqualityExpression(e) ==
  LET l == InferTypeFromExpression(e.left)
      r == InferTypeFromExpression(e.right)
      ds == l.diags \o r.diags
  IN
  IF l.type = Undefined \/ r.type = Undefined THEN Inferred(Undefined, ds)
  ELSE IF l.type = r.type THEN Inferred("boolean", ds)
  ELSE IF IsNumericType(l.type) /\ IsNumericType(r.type)
       THEN Inferred("boolean", Append(ds, Diag("warning", e)))
       ELSE Inferred(Undefined, Append(ds, Diag("error", e)))

InferTypeFromBinaryRelationalExpression(e) ==
  LET l == InferTypeFromExpression(e.left)
      r == InferTypeFromExpression(e.right)
      ds == l.diags \o r.diags
  IN
  IF l.type = Undefined \/ r.type = Undefined THEN Inferred(Undefined, ds)
  ELSE IF ~IsNumericType(l.type) THEN Inferred(Undefined, Append(ds, Diag("error", e.left)))
  ELSE IF ~IsNumericType(r.type) THEN Inferred(Undefined, Append(ds, Diag("error", e.right)))
  ELSE IF l.type # r.type THEN Inferred("boolean", Append(ds, Diag("warning", e)))
  ELSE Inferred("boolean", ds)

\* Each operand that is not boolean gets its own error, left first.
InferTypeFromBinaryLogicalExpression(e) ==
  LET l == InferTypeFromExpression(e.left)
      r == InferTypeFromExpression(e.right)
      ds == l.diags \o r.diags
      errs == (IF l.type # "boolean" THEN <<Diag("error", e.left)>> ELSE <<>>)
           \o (IF r.type # "boolean" THEN <<Diag("error", e.right)>> ELSE <<>>)
  IN
  IF l.type = Undefined \/ r.type = Undefined THEN Inferred(Undefined, ds)
  ELSE IF errs # <<>> THEN Inferred(Undefined, ds \o errs)
  ELSE Inferred("boolean", ds)

InferTypeFromExpression(e) ==
  CASE e.op = "lit"           -> Inferred(InferTypeFromExpressionLiteral(e), <<>>)
    [] e.op = "not"           -> InferTypeFromUnaryLogicalExpression(e)
    [] e.op \in EqualityOps   -> InferTypeFromBinaryEqualityExpression(e)
    [] e.op \in RelationalOps -> InferTypeFromBinaryRelationalExpression(e)
    [] e.op \in LogicalOps    -> InferTypeFromBinaryLogicalExpression(e)

-----------------------------------------------------------------------------
(* evaluateExpression *)

Failed == [ok |-> FALSE, val |-> <<"none", 0>>]
Value(v) == [ok |-> TRUE, val |-> v]
Boolean(b) == Value(<<"boolean", b>>)

\* A value whose typeof is t; assert(typeof v === t) throws otherwise.
HasTypeof(r, t) == r.ok /\ r.val[1] = t

\* The cases xor, and, or of evaluateExpression on the operand results l
\* and r; r is only looked at when the left operand does not decide.
\* Mutant: xor computed as (l && !r) || (!l && !r).
EvaluateLogicalExpressionXorTypo(op, l, r) ==
  LET lv == l.val[2]  rv == r.val[2] IN
  IF ~HasTypeof(l, "boolean") THEN Failed
  ELSE CASE op = "xor" -> IF HasTypeof(r, "boolean")
                          THEN Boolean((lv /\ ~rv) \/ (~lv /\ ~rv)) ELSE Failed
         [] op = "and" -> IF ~lv THEN Boolean(FALSE)
                          ELSE IF HasTypeof(r, "boolean") THEN r ELSE Failed
         [] op = "or"  -> IF lv THEN Boolean(TRUE)
                          ELSE IF HasTypeof(r, "boolean") THEN r ELSE Failed

EvaluateLogicalExpression(op, l, r) ==
  LET lv == l.val[2]  rv == r.val[2] IN
  IF ~HasTypeof(l, "boolean") THEN Failed
  ELSE CASE op = "xor" -> IF HasTypeof(r, "boolean")
                          THEN Boolean((lv /\ ~rv) \/ (~lv /\ rv)) ELSE Failed
         [] op = "and" -> IF ~lv THEN Boolean(FALSE)
                          ELSE IF HasTypeof(r, "boolean") THEN r ELSE Failed
         [] op = "or"  -> IF lv THEN Boolean(TRUE)
                          ELSE IF HasTypeof(r, "boolean") THEN r ELSE Failed

\* The cases ==, !=, <, <=, >, >= of evaluateExpression.
EvaluateComparisonExpression(op, l, r) ==
  LET lv == l.val[2]  rv == r.val[2] IN
  IF op \in EqualityOps
  THEN IF l.ok /\ r.ok /\ l.val[1] = r.val[1]
       THEN Boolean(IF op = "==" THEN lv = rv ELSE lv # rv) ELSE Failed
  ELSE IF HasTypeof(l, "number") /\ HasTypeof(r, "number")
       THEN Boolean(CASE op = "<"  -> lv < rv  [] op = "<=" -> lv <= rv
                      [] op = ">"  -> lv > rv  [] op = ">=" -> lv >= rv)
       ELSE Failed

RECURSIVE EvaluateExpression(_)
EvaluateExpression(e) ==
  IF e.op = "lit" THEN Value(e.val)
  ELSE IF e.op = "not" THEN
    LET inner == EvaluateExpression(e.arg) IN
    IF HasTypeof(inner, "boolean") THEN Boolean(~inner.val[2]) ELSE Failed
  ELSE IF e.op \in LogicalOps
  THEN EvaluateLogicalExpression(e.op, EvaluateExpression(e.left), EvaluateExpression(e.right))
  ELSE EvaluateComparisonExpression(e.op, EvaluateExpression(e.left), EvaluateExpression(e.right))

-----------------------------------------------------------------------------
(* The expressions handed to inference and evaluation *)

VARIABLE expr

RECURSIVE Depth(_)
Depth(e) ==
  CASE e.op = "lit" -> 0
    [] e.op = "not" -> 1 + Depth(e.arg)
    [] OTHER        -> 1 + IF Depth(e.left) > Depth(e.right)
                           THEN Depth(e.left) ELSE Depth(e.right)

Init == expr \in Leaves

WrapNot ==
  /\ Depth(expr) < MaxDepth
  /\ expr' = Not(expr)

WrapLeft ==
  /\ Depth(expr) < MaxDepth
  /\ \E o \in BinaryOps, l \in Operands : expr' = Bin(o, l, expr)

WrapRight ==
  /\ Depth(expr) < MaxDepth
  /\ \E o \in BinaryOps, r \in Operands : expr' = Bin(o, expr, r)

Next == WrapNot \/ WrapLeft \/ WrapRight

Spec == Init /\ [][Next]_expr

-----------------------------------------------------------------------------
(* Properties *)

PropertyValuetypes == {"text", "integer", "decimal", "boolean"}

TypeOK ==
  /\ expr.op \in {"lit", "not"} \cup BinaryOps
  /\ Depth(expr) <= MaxDepth
  /\ InferTypeFromExpression(expr).type \in PropertyValuetypes \cup {Undefined}
  /\ \A i \in DOMAIN InferTypeFromExpression(expr).diags :
       InferTypeFromExpression(expr).diags[i].sev \in {"error", "warning"}

\* The typeof a value of each PropertyValuetype has at runtime.
TypeofOf(t) ==
  CASE t = "text" -> "string" [] t = "boolean" -> "boolean" [] OTHER -> "number"

(* The meaning of an expression by the definitions of its operators, the   *)
(* reference evaluateExpression is checked against: and, or and xor are    *)
(* conjunction, disjunction and inequality of booleans, the comparisons    *)
(* those of numbers, == and != (in)equality of values of one typeof.       *)
RECURSIVE Reference(_)
Reference(e) ==
  IF e.op = "lit" THEN e.val
  ELSE IF e.op = "not" THEN <<"boolean", ~Reference(e.arg)[2]>>
  ELSE LET a == Reference(e.left)[2]
           b == Reference(e.right)[2]
       IN <<"boolean", CASE e.op = "==" -> a = b   [] e.op = "!=" -> a # b
                         [] e.op = "<"  -> a < b   [] e.op = "<=" -> a <= b
                         [] e.op = ">"  -> a > b   [] e.op = ">=" -> a >= b
                         [] e.op = "and" -> a /\ b [] e.op = "or" -> a \/ b
                         [] e.op = "xor" -> a # b>>

(* Inference is sound for evaluation: an expression whose type inference  *)
(* succeeds evaluates without any of evaluateExpression's typeof asserts  *)
(* throwing, to a value whose typeof is that of the inferred type.         *)
TypeSoundness ==
  LET t == InferTypeFromExpression(expr).type
      v == EvaluateExpression(expr)
  IN  t # Undefined => v.ok /\ v.val[1] = TypeofOf(t)

(* evaluateExpression computes the reference meaning of every expression  *)
(* that passes inference.                                                   *)
EvaluationMatchesReference ==
  InferTypeFromExpression(expr).type # Undefined =>
    EvaluateExpression(expr).val = Reference(expr)

(* Inference fails exactly when it reports an error: no expression is     *)
(* silently untyped, and no error leaves a type behind (spec 4.4, 8).     *)
ErrorIffUndefined ==
  LET r == InferTypeFromExpression(expr)
  IN  (r.type = Undefined) <=> (\E i \in DOMAIN r.diags : r.diags[i].sev = "error")
=============================================================================

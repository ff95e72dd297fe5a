------------------------- MODULE RuntimeParameters -------------------------
(***************************************************************************)
(* extractRuntimeParameters (runtime-parameter-util.ts): the loop over the *)
(* required runtime parameters, one step per iteration, each parsed by     *)
(* parseParameterAsMatchingType, and the final return.                     *)
(*                                                                         *)
(*   ExtractParameter - one iteration: missing -> diagnostic and continue; *)
(*                      rejected by the type -> diagnostic and continue;   *)
(*                      else parameters.set(name, value)                   *)
(*   Return           - E.left(diagnostics) if any, else E.right(map)      *)
(*                                                                         *)
(* Environment values are strings, modelled as sequences of characters     *)
(* over a small alphabet so that the integer pattern ^[1-9][0-9]*$ and      *)
(* Number.parseInt(value, 10) are modelled by what they do.  The required  *)
(* parameters are the placeholders in AST order: the same name may occur    *)
(* twice.  An attribute's type is STRING or INT (a LAYOUT attribute is      *)
(* rejected by validation before the interpreter runs).                    *)
(***************************************************************************)
EXTENDS Integers, SequencesExt

CONSTANTS
  Names,        \* the runtime parameter names (model values)
  Required,     \* the possible lists of required parameters, [name, type]
  Environments, \* the possible env maps: functions from a subset of Names
  Unset,        \* model value: no entry in the parameters map
  MaxValue      \* the largest integer an environment string can spell

DigitChar == <<"0", "1", "2", "3", "4", "5", "6", "7", "8", "9">>
Digits == ToSet(DigitChar)
DigitValue == [c \in Digits |-> SelectInSeq(DigitChar, LAMBDA d : d = c) - 1]

VARIABLES
  requiredParameters, env,  \* the inputs, fixed for a run
  next,         \* index of the next required parameter the loop visits
  parameters,   \* the map name -> parsed value, Unset where no entry
  diagnostics,  \* the names of the parameters that got a diagnostic, in order
  result        \* "running", "left" (diagnostics) or "right" (the map)

vars == <<requiredParameters, env, next, parameters, diagnostics, result>>

\* Mutant: leading zeros are accepted (^[0-9]+$).
IsIntegerLiteralLeadingZero(value) ==
  Len(value) > 0 /\ \A i \in DOMAIN value : value[i] \in Digits

\* /^[1-9][0-9]*$/.test(value)
IsIntegerLiteral(value) ==
  /\ Len(value) > 0
  /\ value[1] \in Digits \ {"0"}
  /\ \A i \in DOMAIN value : value[i] \in Digits

\* Number.parseInt(value, 10) of a string of digits.
ParseInt(value) == FoldLeft(LAMBDA acc, c : 10 * acc + DigitValue[c], 0, value)

\* parseParameterAsMatchingType: [ok, value]; a STRING attribute takes the
\* value unchanged, an INT attribute must match the integer pattern.
ParseParameterAsMatchingType(value, requiredType) ==
  CASE requiredType = "STRING" -> [ok |-> TRUE, value |-> <<"STRING", value>>]
    [] IsIntegerLiteral(value) -> [ok |-> TRUE, value |-> <<"INT", ParseInt(value)>>]
    [] OTHER                   -> [ok |-> FALSE, value |-> Unset]

Init ==
  /\ requiredParameters \in Required
  /\ env \in Environments
  /\ next = 1
  /\ parameters = [n \in Names |-> Unset]
  /\ diagnostics = <<>>
  /\ result = "running"

\* Mutant: a missing parameter ends the loop (fail-fast, no continue).
ExtractParameterFailFast ==
  LET required == requiredParameters[next]
      parseResult == ParseParameterAsMatchingType(env[required.name], required.type)
  IN
  /\ result = "running"
  /\ next <= Len(requiredParameters)
  /\ IF required.name \notin DOMAIN env
       THEN /\ diagnostics' = Append(diagnostics, required.name)
            /\ next' = Len(requiredParameters) + 1
            /\ UNCHANGED parameters
     ELSE IF ~parseResult.ok
       THEN /\ diagnostics' = Append(diagnostics, required.name)
            /\ next' = next + 1
            /\ UNCHANGED parameters
     ELSE /\ parameters' = [parameters EXCEPT ![required.name] = parseResult.value]
          /\ next' = next + 1
          /\ UNCHANGED diagnostics
  /\ UNCHANGED <<requiredParameters, env, result>>

ExtractParameter ==
  LET required == requiredParameters[next]
      parseResult == ParseParameterAsMatchingType(env[required.name], required.type)
  IN
  /\ result = "running"
  /\ next <= Len(requiredParameters)
  /\ IF required.name \notin DOMAIN env \/ ~parseResult.ok
       THEN /\ diagnostics' = Append(diagnostics, required.name)
            /\ UNCHANGED parameters
       ELSE /\ parameters' = [parameters EXCEPT ![required.name] = parseResult.value]
            /\ UNCHANGED diagnostics
  /\ next' = next + 1
  /\ UNCHANGED <<requiredParameters, env, result>>

Return ==
  /\ result = "running"
  /\ next = Len(requiredParameters) + 1
  /\ result' = IF diagnostics # <<>> THEN "left" ELSE "right"
  /\ UNCHANGED <<requiredParameters, env, next, parameters, diagnostics>>

Next == ExtractParameter \/ Return

Spec == Init /\ [][Next]_vars

-----------------------------------------------------------------------------
(* Properties *)

\* The decimal notation of a natural number: the reference for the integer
\* literals a user writes.
RECURSIVE Decimal(_)
Decimal(n) == IF n < 10 THEN <<DigitChar[n + 1]>>
              ELSE Decimal(n \div 10) \o <<DigitChar[(n % 10) + 1]>>

\* The strings that denote a positive integer in decimal notation.
CanonicalIntegers == {Decimal(k) : k \in 1..MaxValue}

\* A required parameter that cannot be resolved: no env entry, or an INT
\* attribute whose value is not the decimal notation of a positive integer.
Unresolvable(r) ==
  \/ r.name \notin DOMAIN env
  \/ r.type = "INT" /\ env[r.name] \notin CanonicalIntegers

(* Batch reporting (spec 4.3): when extractRuntimeParameters returns, there *)
(* is one diagnostic for every unresolvable placeholder, in the order of    *)
(* the placeholders, and none for another; the map is returned exactly     *)
(* when every placeholder resolves.                                        *)
BatchDiagnostics ==
  result # "running" =>
    /\ diagnostics = [i \in DOMAIN SelectSeq(requiredParameters, Unresolvable) |->
                       SelectSeq(requiredParameters, Unresolvable)[i].name]
    /\ (result = "right" <=> \A i \in DOMAIN requiredParameters :
                               ~Unresolvable(requiredParameters[i]))

(* Every value in the resolved map denotes the env string it came from: a  *)
(* STRING is the string itself, an INT is a number whose decimal notation  *)
(* is that string, so no value is silently coerced (e.g. "07" to 7).        *)
ResolvedValuesRoundTrip ==
  \A n \in Names :
    /\ parameters[n] # Unset => n \in DOMAIN env
    /\ parameters[n] # Unset /\ parameters[n][1] = "STRING" => parameters[n][2] = env[n]
    /\ parameters[n] # Unset /\ parameters[n][1] = "INT" => Decimal(parameters[n][2]) = env[n]
=============================================================================

----------------------------- MODULE RunOptions -----------------------------
(***************************************************************************)
(* parseRunOptions (run-options.ts): the interpreter's command-line        *)
(* options object is checked and turned into RunOptions in one call.       *)
(*                                                                         *)
(* A raw option value is abstracted to its kind, the only thing the        *)
(* validators look at:                                                     *)
(*   "str"          a string with no special meaning                       *)
(*   "strTrue"      the string "true"     "strFalse"  the string "false"   *)
(*   "granularity"  a string that isDebugGranularity accepts               *)
(*   "bool"         a boolean             "num"       a number             *)
(*   "map"          a Map of strings      "badMap"    a Map with a         *)
(*                                                    non-string value     *)
(* A raw object is a function from the fields present to their kinds, or   *)
(* NotAnObject.                                                            *)
(***************************************************************************)
EXTENDS FiniteSets

CONSTANTS
  RawOptions,   \* the possible raw option objects
  NotAnObject   \* model value: optionsRaw is not an object, or null

RequiredFields == {"pipeline", "env", "debug", "debugGranularity", "debugTarget", "parseOnly"}

StringKinds == {"str", "strTrue", "strFalse", "granularity"}

\* The is*Argument type guards: TRUE iff the value has the declared type;
\* each logs an error when it returns FALSE.
IsPipelineArgument(v) == v \in StringKinds
IsEnvArgument(v) == v = "map"
IsDebugArgument(v) == v \in {"bool", "strTrue", "strFalse"}
IsDebugGranularityArgument(v) == v = "granularity"
IsDebugTargetArgument(v) == v \in StringKinds
IsParseOnlyArgument(v) == v \in {"bool", "strTrue", "strFalse"}

\* The guard parseRunOptions calls for field f, applied to value v.
IsArgument(f, v) ==
  CASE f = "pipeline" -> IsPipelineArgument(v)
    [] f = "env" -> IsEnvArgument(v)
    [] f = "debug" -> IsDebugArgument(v)
    [] f = "debugGranularity" -> IsDebugGranularityArgument(v)
    [] f = "debugTarget" -> IsDebugTargetArgument(v)
    [] f = "parseOnly" -> IsParseOnlyArgument(v)

VARIABLES
  optionsRaw,   \* the argument
  loggedErrors, \* the fields whose validator logged an error
  returned      \* "none" (not yet), "undefined", "options", or "typeError"

vars == <<optionsRaw, loggedErrors, returned>>

Init ==
  /\ optionsRaw \in RawOptions
  /\ loggedErrors = {}
  /\ returned = "none"

(***************************************************************************)
(* The whole call: not an object or a missing field returns undefined;     *)
(* otherwise every validator runs, its result unused, and the options are  *)
(* built.  getDebugTargets calls debugTarget.split, which throws a         *)
(* TypeError when debugTarget is not a string.                             *)
(***************************************************************************)
ParseRunOptions ==
  /\ returned = "none"
  /\ IF optionsRaw = NotAnObject \/ ~(RequiredFields \subseteq DOMAIN optionsRaw)
       THEN /\ returned' = "undefined"
            /\ UNCHANGED loggedErrors
       ELSE /\ loggedErrors' = {f \in RequiredFields : ~IsArgument(f, optionsRaw[f])}
            /\ returned' = IF optionsRaw["debugTarget"] \in StringKinds
                           THEN "options" ELSE "typeError"
  /\ UNCHANGED optionsRaw

Next == ParseRunOptions

Spec == Init /\ [][Next]_vars

-----------------------------------------------------------------------------
(* Properties *)

(* parseRunOptions returns RunOptions only for an options object whose     *)
(* every field passed its type guard (isPipelineArgument, isEnvArgument,   *)
(* ...): the guards' "arg is T" signatures and the RunOptions type say the *)
(* returned object has those types, and undefined is the declared way to   *)
(* reject invalid options.                                                 *)
OnlyValidOptionsReturned ==
  returned = "options" => \A f \in RequiredFields : IsArgument(f, optionsRaw[f])

(* parseRunOptions either returns RunOptions or undefined and never throws *)
(* (its return type RunOptions | undefined): an invalid debugTarget must   *)
(* be rejected before getDebugTargets calls split on it.                   *)
ParseNeverThrows == returned # "typeError"
=============================================================================

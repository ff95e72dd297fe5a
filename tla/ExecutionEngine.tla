-------------------------- MODULE ExecutionEngine --------------------------
(***************************************************************************)
(* The Execution Engine (spec 4.5, 5) composed with the topological sort   *)
(* it consumes: the interpreter first runs getBlocksInTopologicalSorting   *)
(* (the actions of TopologicalSort), then walks the sorted blocks in       *)
(* order, awaiting each executor before the next.                          *)
(*                                                                         *)
(*   ExecuteBlock - the next block in the order: invoked when every parent *)
(*                  produced an artifact, its Result ok or an error;       *)
(*                  otherwise skipped (children of a failed block are not  *)
(*                  invoked, sibling branches continue)                    *)
(*   CompleteRun  - the run fails iff some block's executor failed         *)
(*                                                                         *)
(* The engine is not part of this source tree: its actions are written    *)
(* from the spec.  Which executor fails is a nondeterministic choice.      *)
(***************************************************************************)
EXTENDS TopologicalSort

VARIABLES
  execIndex,    \* position in sortedNodes of the next block to execute
  outcome,      \* per block: "pending", "ok", "failed" or "skipped"
  invocations,  \* per block: how often its executor was invoked
  runResult     \* "running", "succeeded" or "failed"

engineVars == <<execIndex, outcome, invocations, runResult>>
allVars == <<vars, engineVars>>

\* The blocks whose output is the input of b.
Parents(p, b) == {e[1] : e \in ToSet(CollectIngoingPipes(p, b))}

EngineInit ==
  /\ Init
  /\ execIndex = 1
  /\ outcome = [b \in Blocks |-> "pending"]
  /\ invocations = [b \in Blocks |-> 0]
  /\ runResult = "running"

\* Mutant: after the first failure every later block is skipped.
ExecuteBlockAbortAll ==
  LET b == sortedNodes[execIndex] IN
  /\ status = "done"
  /\ execIndex <= Len(sortedNodes)
  /\ IF \A a \in Blocks : outcome[a] # "failed"
       THEN /\ \E r \in {"ok", "failed"} : outcome' = [outcome EXCEPT ![b] = r]
            /\ invocations' = [invocations EXCEPT ![b] = @ + 1]
       ELSE /\ outcome' = [outcome EXCEPT ![b] = "skipped"]
            /\ UNCHANGED invocations
  /\ execIndex' = execIndex + 1
  /\ UNCHANGED <<vars, runResult>>

ExecuteBlock ==
  LET b == sortedNodes[execIndex] IN
  /\ status = "done"
  /\ execIndex <= Len(sortedNodes)
  /\ IF \A a \in Parents(pipeline, b) : outcome[a] = "ok"
       THEN /\ \E r \in {"ok", "failed"} : outcome' = [outcome EXCEPT ![b] = r]
            /\ invocations' = [invocations EXCEPT ![b] = @ + 1]
       ELSE /\ outcome' = [outcome EXCEPT ![b] = "skipped"]
            /\ UNCHANGED invocations
  /\ execIndex' = execIndex + 1
  /\ UNCHANGED <<vars, runResult>>

CompleteRun ==
  /\ status = "done"
  /\ execIndex = Len(sortedNodes) + 1
  /\ runResult = "running"
  /\ runResult' = IF \E b \in Blocks : outcome[b] = "failed" THEN "failed" ELSE "succeeded"
  /\ UNCHANGED <<vars, execIndex, outcome, invocations>>

EngineNext ==
  \/ Next /\ UNCHANGED engineVars
  \/ ExecuteBlock
  \/ CompleteRun

(* The interpreter is one sequential task that awaits each step; only     *)
(* safety is checked, so no fairness is assumed.                           *)
EngineSpec == EngineInit /\ [][EngineNext]_allVars

-----------------------------------------------------------------------------
(* Properties *)

(* Partial-failure tolerance (spec 4.5 step 3): once a block is settled it *)
(* was skipped exactly when one of its ancestors failed, and invoked       *)
(* (ok or failed) otherwise, so a failure stops only its own downstream    *)
(* path.                                                                   *)
SkippedIffAncestorFailed ==
  \A b \in Blocks :
    outcome[b] # "pending" =>
      (outcome[b] = "skipped" <=>
         \E a \in Ancestors(AsGraph(pipeline), b) : outcome[a] = "failed")
=============================================================================

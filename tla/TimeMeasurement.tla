-------------------------- MODULE TimeMeasurement --------------------------
(***************************************************************************)
(* TimeMeasurementExecutor.doExecute (time-measurement-executor.ts), one   *)
(* action per stretch between awaits:                                      *)
(*                                                                         *)
(*   StartMeasurement  - read blockType, startTimer(blockType + label)     *)
(*   ResolveExecutor   - await getExecutorForBlockType; undefined ->       *)
(*                       return R.err                                      *)
(*   FinishMeasurement - the (empty) switch, stopTimer, return null        *)
(*                                                                         *)
(* The timer facility of the ExecutionContext is not in this source tree: *)
(* it is a set of running labels, as spec 4.5 describes it.                *)
(***************************************************************************)
CONSTANTS
  BlockTypes,     \* the values the blockType property may have
  KnownTypes      \* the block types the execution extension has executors for

VARIABLES
  blockType,      \* the blockType property of the TimeMeasurement block
  runningTimers,  \* labels of timers started and not stopped
  pc,             \* "start", "lookup", "finish" or "returned"
  returned        \* "none", "err" or "null"

tmVars == <<blockType, runningTimers, pc, returned>>

\* `${blockType}-Execution-Time`: one label per block type.
BlockLabel(t) == <<t, "Execution-Time">>

TMInit ==
  /\ blockType \in BlockTypes
  /\ runningTimers = {}
  /\ pc = "start"
  /\ returned = "none"

StartMeasurement ==
  /\ pc = "start"
  /\ runningTimers' = runningTimers \cup {BlockLabel(blockType)}
  /\ pc' = "lookup"
  /\ UNCHANGED <<blockType, returned>>

ResolveExecutor ==
  /\ pc = "lookup"
  /\ IF blockType \notin KnownTypes
       THEN pc' = "returned" /\ returned' = "err"
       ELSE pc' = "finish" /\ UNCHANGED returned
  /\ UNCHANGED <<blockType, runningTimers>>

FinishMeasurement ==
  /\ pc = "finish"
  /\ runningTimers' = runningTimers \ {BlockLabel(blockType)}
  /\ pc' = "returned"
  /\ returned' = "null"
  /\ UNCHANGED blockType

TMNext == StartMeasurement \/ ResolveExecutor \/ FinishMeasurement

TMSpec == TMInit /\ [][TMNext]_tmVars

-----------------------------------------------------------------------------
(* Properties *)

(* The timer doExecute starts is stopped on every path by which it returns *)
(* (the spec's scoped timer facility): otherwise a later measurement of    *)
(* the same block type finds its label still running.                      *)
TimerStoppedOnReturn ==
  pc = "returned" => BlockLabel(blockType) \notin runningTimers
=============================================================================

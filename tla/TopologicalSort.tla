-------------------------- MODULE TopologicalSort --------------------------
(***************************************************************************)
(* getBlocksInTopologicalSorting (model-util.ts): Kahn's algorithm over    *)
(* the semantic pipes of one pipeline, one step per loop iteration.        *)
(*                                                                         *)
(*   Pop        - currentNodes.pop(), sortedNodes.push(node) and the       *)
(*                start of the loop over collectChildren(node)             *)
(*   VisitChild - one iteration of that loop: mark the pipes node->child   *)
(*                visited, push child when none of its ingoing pipes is    *)
(*                unvisited                                                *)
(*   Finish     - the loop has ended: the final assert on unvisitedEdges   *)
(*                                                                         *)
(* The pipeline is fixed for a run and chosen in Init from Pipelines.      *)
(***************************************************************************)
EXTENDS PipelineGraph

CONSTANTS
  Pipelines,  \* the pipelines a run may sort (a subset of Pipeline)
  NoBlock     \* model value: no block is being expanded

ASSUME Pipelines \subseteq Pipeline /\ NoBlock \notin Blocks

VARIABLES
  pipeline,        \* the pipeline being sorted (never changes)
  sortedNodes,     \* the output list
  currentNodes,    \* the stack of ready blocks (pop takes the last)
  unvisitedEdges,  \* semantic pipes not yet marked visited
  node,            \* the block whose children are being visited
  children,        \* the rest of collectChildren(node) still to visit
  status           \* "running", "done" (returned) or "assertFailed"

vars == <<pipeline, sortedNodes, currentNodes, unvisitedEdges, node, children, status>>

Init ==
  /\ pipeline \in Pipelines
  /\ sortedNodes = <<>>
  /\ currentNodes = CollectStartingBlocks(pipeline)
  /\ unvisitedEdges = CollectAllPipes(pipeline)
  /\ node = NoBlock
  /\ children = <<>>
  /\ status = "running"

Pop ==
  /\ status = "running"
  /\ children = <<>>
  /\ currentNodes # <<>>
  /\ node' = Last(currentNodes)
  /\ currentNodes' = Front(currentNodes)
  /\ sortedNodes' = Append(sortedNodes, node')
  /\ children' = CollectChildren(pipeline, node')
  /\ UNCHANGED <<pipeline, unvisitedEdges, status>>

VisitChild ==
  LET child == Head(children)
      \* the filter over unvisitedEdges for every ingoing pipe of child from node
      visited == SelectSeq(unvisitedEdges, LAMBDA e : e # <<node, child>>)
      notRemovedEdges ==
        SelectSeq(CollectIngoingPipes(pipeline, child),
                  LAMBDA e : \E i \in DOMAIN visited : visited[i] = e)
  IN
  /\ status = "running"
  /\ children # <<>>
  /\ unvisitedEdges' = visited
  /\ currentNodes' = IF notRemovedEdges = <<>> THEN Append(currentNodes, child)
                                               ELSE currentNodes
  /\ children' = Tail(children)
  /\ UNCHANGED <<pipeline, sortedNodes, node, status>>

\* Mutant: the final assert on unvisitedEdges is missing.
FinishNoAssert ==
  /\ status = "running"
  /\ children = <<>>
  /\ currentNodes = <<>>
  /\ status' = "done"
  /\ UNCHANGED <<pipeline, sortedNodes, currentNodes, unvisitedEdges, node, children>>

Finish ==
  /\ status = "running"
  /\ children = <<>>
  /\ currentNodes = <<>>
  /\ status' = IF unvisitedEdges = <<>> THEN "done" ELSE "assertFailed"
  /\ UNCHANGED <<pipeline, sortedNodes, currentNodes, unvisitedEdges, node, children>>

Next == Pop \/ VisitChild \/ Finish

Spec == Init /\ [][Next]_vars

-----------------------------------------------------------------------------
(* Properties *)

TypeOK ==
  /\ pipeline \in Pipelines
  /\ sortedNodes \in Seq(Blocks)
  /\ currentNodes \in Seq(Blocks)
  /\ unvisitedEdges \in Seq(Blocks \X Blocks)
  /\ node \in Blocks \cup {NoBlock}
  /\ children \in Seq(Blocks)
  /\ status \in {"running", "done", "assertFailed"}

Edges == ToSet(CollectAllPipes(pipeline))

(* Every block that is output or ready has all its parents already in the   *)
(* output, before it: Kahn's invariant that a child enters the stack only   *)
(* once every pipe into it has been visited.                                *)
ParentsSortedFirst ==
  \A e \in Edges :
    /\ e[2] \in ToSet(currentNodes) => e[1] \in ToSet(sortedNodes)
    /\ e[2] \in ToSet(sortedNodes) => Precedes(sortedNodes, e[1], e[2])

\* Every block that declares an input has a pipe into it.
EveryInputConnected(p) ==
  \A b \in Blocks : p.hasInput[b] => CollectIngoingPipes(p, b) # <<>>

(* On a pipeline where every block with an input has a pipe into it, the  *)
(* final assert fires exactly when the pipes contain a cycle (spec 4.1:     *)
(* "if any edge remains unvisited ... the graph contains a cycle"), and     *)
(* when it does not fire the result lists every block.                     *)
AssertIffCycle ==
  EveryInputConnected(pipeline) =>
    /\ status = "assertFailed" => HasCycle(AsGraph(pipeline))
    /\ status = "done" => ~HasCycle(AsGraph(pipeline)) /\ ToSet(sortedNodes) = Blocks

(* The cycle assertion only fires on a pipeline whose pipes form a cycle:  *)
(* the assert message "is expected to have no cycles" and spec 4.1 ("if    *)
(* any edge remains unvisited ... the graph contains a cycle") read it as a *)
(* cycle detector.                                                          *)
AssertOnlyOnCycle ==
  status = "assertFailed" => HasCycle(AsGraph(pipeline))
=============================================================================

--------------------------- MODULE PipelineGraph ---------------------------
(***************************************************************************)
(* The pipeline graph model of model-util.ts and the per-block pipe        *)
(* validation of checks/block-definition.ts.                               *)
(*                                                                         *)
(* A pipeline is a record                                                  *)
(*   [hasInput  : [Blocks -> BOOLEAN],   meta information of each block    *)
(*    hasOutput : [Blocks -> BOOLEAN],   type (BlockMetaInformation)       *)
(*    pipes     : Seq(Statement)]        the declared pipe statements      *)
(* where a Statement is a chain  a -> b (-> c ...)  of blocks.  The        *)
(* blocks themselves are the constant sequence BlockOrder (the order of    *)
(* pipeline.blocks).  Every block type is assumed to resolve to meta       *)
(* information: an unknown type is a validation error (checkBlockType)     *)
(* after which the pipe checks are skipped.                                *)
(***************************************************************************)
EXTENDS Graphs

CONSTANTS
  BlockOrder,     \* pipeline.blocks: a sequence of distinct model values
  MaxStatements,  \* bound on the number of declared pipe statements
  MaxChainLen     \* bound on the number of blocks in one chained statement

Blocks == ToSet(BlockOrder)

ASSUME /\ BlockOrder \in Seq(Blocks) /\ Len(BlockOrder) = Cardinality(Blocks)
       /\ MaxStatements \in Nat /\ MaxChainLen \in Nat \ {0, 1}

\* The declared pipe statements  a -> b -> ... of at most MaxChainLen blocks.
Statement == UNION {[1..n -> Blocks] : n \in 2..MaxChainLen}

Pipeline ==
  [hasInput : [Blocks -> BOOLEAN],
   hasOutput : [Blocks -> BOOLEAN],
   pipes : UNION {[1..n -> Statement] : n \in 0..MaxStatements}]

(***************************************************************************)
(* createSemanticPipes: a chained statement a -> b -> c is the semantic    *)
(* pipes <<a, b>> and <<b, c>>.  Two semantic pipes are equal              *)
(* (PipeWrapper.equals) iff their from and to blocks are equal, which is   *)
(* equality of the pairs.                                                  *)
(***************************************************************************)
SemanticPipes(stmt) == [i \in 1..Len(stmt) - 1 |-> <<stmt[i], stmt[i + 1]>>]

\* collectAllPipes: the semantic pipes of all statements, in order.
CollectAllPipes(p) == FlattenSeq([i \in DOMAIN p.pipes |-> SemanticPipes(p.pipes[i])])

\* Mutant: the hasInput filter is missing.
CollectStartingBlocksUnfiltered(p) == BlockOrder

\* collectStartingBlocks: the blocks whose type has no input.
CollectStartingBlocks(p) == SelectSeq(BlockOrder, LAMBDA b : ~p.hasInput[b])

\* collectOutgoingPipes / collectIngoingPipes: allPipes filtered by endpoint.
CollectOutgoingPipes(p, b) == SelectSeq(CollectAllPipes(p), LAMBDA e : e[1] = b)
CollectIngoingPipes(p, b) == SelectSeq(CollectAllPipes(p), LAMBDA e : e[2] = b)

\* Mutant: the outgoing pipes are returned without mapping them to pipe.to.
CollectChildrenUnmapped(p, b) == CollectOutgoingPipes(p, b)

\* collectChildren: one entry per outgoing pipe, so a block reached by two
\* equal pipes is listed twice.
CollectChildren(p, b) ==
  LET out == CollectOutgoingPipes(p, b) IN [i \in DOMAIN out |-> out[i][2]]

(***************************************************************************)
(* checkPipesOfBlock: the severities of the diagnostics issued for the     *)
(* input or output side of block b, in order.  A pipe into a block type    *)
(* without input (out of one without output) is an error per pipe; more    *)
(* than one ingoing pipe is an error per pipe; a side with no pipe at all  *)
(* is only a warning.                                                      *)
(***************************************************************************)
CheckPipesOfBlock(p, b, whatToCheck) ==
  LET pipes == IF whatToCheck = "input" THEN CollectIngoingPipes(p, b)
                                        ELSE CollectOutgoingPipes(p, b)
      allowed == IF whatToCheck = "input" THEN p.hasInput[b] ELSE p.hasOutput[b]
      each(sev) == [i \in DOMAIN pipes |-> sev]
  IN  IF ~allowed THEN each("error")
      ELSE IF Len(pipes) > 1 /\ whatToCheck = "input" THEN each("error")
      ELSE IF Len(pipes) = 0 THEN <<"warning">>
      ELSE <<>>

\* validateBlockDefinition: the input side is checked before the output side.
ValidateBlockDefinition(p, b) ==
  CheckPipesOfBlock(p, b, "input") \o CheckPipesOfBlock(p, b, "output")

\* The pipes as a graph in the representation of the Graphs module.
AsGraph(p) == [node |-> Blocks, edge |-> ToSet(CollectAllPipes(p))]

\* The order of a sequence of blocks: a precedes b.
Precedes(s, a, b) == \E i, j \in DOMAIN s : i < j /\ s[i] = a /\ s[j] = b
=============================================================================

# TLA+ models of the Jayvee interpreter core

This directory holds TLA+ specifications of the parts of Jayvee (the `src/` tree) whose behaviour depends on control flow, iteration order and edge cases. The TLC model checker checks them exhaustively over small but complete inputs.

## 1. The system and how its parts interact

A Jayvee program is a pipeline of blocks connected by pipes (`a -> b -> c`). The language server parses and validates the program. The interpreter then runs the blocks in topological order, each through its block executor.

| Part | Source | What it does | State / operations |
|---|---|---|---|
| Pipeline Graph Model | `ast/model-util.ts` 39-98 | Starting blocks, children, ingoing/outgoing pipes, all semantic pipes of a pipeline | Pure queries over the AST |
| Block validation | `validation/checks/block-definition.ts` | Per block, diagnostics for pipes into a block without input, out of a block without output, more than one ingoing pipe, or no pipe on a side (warning only) | Emits diagnostics |
| Topological sort | `ast/model-util.ts` 115-154 | Kahn's algorithm with a LIFO stack; asserts that no edge is left unvisited | Loop over `sortedNodes`, `currentNodes`, `unvisitedEdges` |
| Expression Engine | `ast/model-util.ts` 197-512 | Recursive type inference with diagnostics; constant evaluation with `assert`s on operand types and short-circuit `and`/`or` | Pure recursion, diagnostics accepted in order |
| Runtime Parameter Resolver | `apps/interpreter/src/runtime-parameter-util.ts` | Matches `-e NAME=value` entries against placeholders and parses them to the attribute type, collecting every diagnostic | Loop over the placeholders, a `Map` and a diagnostics list |
| Table construction | `tabular/exec/.../table-interpreter-executor.ts` | Derives column entries from the header or by position, validates row by row, drops invalid rows whole | `columnEntries`, `iterateRows` callbacks, `tableData` |
| Run options | `apps/interpreter/src/run-options.ts` | Checks the CLI options object and builds `RunOptions` | One call, validators log errors |
| Time measurement executor | `std/exec/src/time-measurement-executor.ts` | Starts a timer, looks up an executor, stops the timer | Timer per label |
| Execution Engine | not in this tree (spec 4.5, 5) | Walks the sorted blocks, invokes each executor once, skips the children of a failed block | Loop index, per-block outcome, run result |
| Scope provider | `lsp/jayvee-scope-provider.ts` | The global scope of a document: the exports of its imports and of the stdlib, cached per document | `DocumentCache` of exports per URI |
| Operator Registry | not in this tree (spec 4.4) | Per operator, type inference from operand types and evaluation | Constant tables |
| Completion, formatter, stdlib, wrappers, CLI, I/O | the other files | Editor services, generated tables, wiring | Not modelled (section 6) |

How the parts interact:
- Validation decides which pipelines reach the sort. A pipeline with only warnings is accepted.
- The sort's output order drives execution.
- The Expression Engine types and evaluates property values.
- The resolver supplies runtime parameter values before execution.
- The table executor turns a sheet into a table.
- The engine executes the blocks in the sort's order; the time measurement executor is one of its block executors.
- In the editor, the scope provider decides which imported elements a reference can resolve to, while documents are edited.

## 2. Modules and how they correspond to the code

| Module | Models | State (VARIABLES) | Actions |
|---|---|---|---|
| `PipelineGraph` | `collect*` functions, `checkPipesOfBlock`, `validateBlockDefinition` | none (operators over a pipeline record: `hasInput`, `hasOutput` per block, `pipes` as chained statements) | — |
| `TopologicalSort` | `getBlocksInTopologicalSorting` | `pipeline, sortedNodes, currentNodes, unvisitedEdges, node, children, status` | `Pop` (pop, push to output, start the child loop), `VisitChild` (one child-loop iteration), `Finish` (the final assert) |
| `ExpressionEngine` | model-util's inference (`inferTypeFrom*Expression`) and `evaluateExpression`, as RECURSIVE operators | `expr`, the parsed expression | `WrapNot`, `WrapLeft`, `WrapRight` build every expression up to `MaxDepth` operators |
| `TableConstruction` | the abstract promise of spec 4.6: one step from inputs to the error or the table | `inputSheet, header, columnDefinitions, result, table` | `Construct` |
| `TableInterpreter` | `TableInterpreterExecutor.execute` and its helpers | `inputSheet, header, columnDefinitions, columnEntries, sheetRowIndex, tableData, status` | `DeriveColumnEntries` (up to the two error returns), `ValidateRow` (one `iterateRows` callback; the `IsValidVisitor` verdict on an undefined cell is chosen nondeterministically), `ReturnTable` |
| `RuntimeParameters` | `extractRuntimeParameters`, `parseParameterAsMatchingType` | `requiredParameters, env, next, parameters, diagnostics, result` | `ExtractParameter` (one loop iteration, with both `continue`s), `Return` |
| `RunOptions` | `parseRunOptions` and its `is*Argument` guards | `optionsRaw, loggedErrors, returned` | `ParseRunOptions` (the whole call) |
| `ExecutionEngine` | the engine of spec 4.5, composed with `TopologicalSort` (EXTENDS) | the sort's variables and `execIndex, outcome, invocations, runResult` | the sort's steps, then `ExecuteBlock` (invoke the next block if all parents are ok, else skip it), `CompleteRun` |
| `TimeMeasurement` | `TimeMeasurementExecutor.doExecute` | `blockType, runningTimers, pc, returned` | `StartMeasurement` (line 29), `ResolveExecutor` (the await and the early return), `FinishMeasurement` (stop, return `null`) |
| `ScopeProvider` | `getGlobalScope`, `getExportedElements`, `followExportDefinitionChain`, `isElementExported`, `gatherImports`, `gatherBuiltins` | `published, exportDefs, imports, cache` | `GetGlobalScope(d)` (fills missing cache entries of the visited documents), `UpdateDocument(d)` (an edit, clearing `cache[d]`) |

Each `MC_*` module instantiates a specification with model values and the finite input sets. PROJECT.json's `map` gives, for each definition, the source lines it translates.

How data is abstracted:
- **Blocks:** model values. A block type is reduced to whether it has an input and an output.
- **Semantic pipes:** pairs of blocks, because `PipeWrapper.equals` compares from and to.
- **Runtime values:** the pairs `<<typeof, payload>>`.
- **Numbers:** kept in half units, so integer and decimal literals compare exactly.
- **Cells:** abstract strings with a validity table per value type. A cell read past the end of a short row is the model value `Absent` (JavaScript `undefined`).
- **Environment strings:** sequences of characters, so that the pattern `^[1-9][0-9]*$` and `parseInt` are modelled by what they do.
- **Raw CLI option values:** abstracted to their kind (string, `"true"`, boolean, Map, number, ...).
- **Executors in the engine:** each invocation returns ok or an error, chosen nondeterministically.
- **Documents in the scope provider:** the elements they define, which are published, their export definitions `[element, alias]` and their imports. A name is its element. An export definition's reference resolves when the element is local or defined in an imported document.
- **Spec-modelled parts:** the engine and the `ExecutionContext` timer are not in this tree, nor is Langium's `DocumentCache`; their actions are written from spec 4.5 and from the comment at `jayvee-scope-provider.ts:51` ("invalidated as soon the corresponding document is updated").

## 3. Runs

| Run | cfg | Expect | What it checks and shows |
|---|---|---|---|
| `topo_validated` | `MC_TopologicalSort.cfg` | pass | Every pipeline of three blocks that passes block validation with only warnings: self pipes and input blocks without an ingoing pipe are allowed. Duplicate pipes, joins and pipes into a starting block are validation errors (`checkPipesOfBlock`), so no validated pipeline has them and every block has at most one parent. Checks that parents precede children (`ParentsSortedFirst`). On the pipelines where every block with an input has a pipe into it, also checks that the assert fails exactly on cyclic pipelines and that otherwise every block is sorted (`AssertIffCycle`). |
| `topo_assert` | `MC_TopologicalSort_assert.cfg` | violation | `AssertOnlyOnCycle` is violated by an acyclic validated pipeline (finding 1). |
| `expression` | `MC_ExpressionEngine.cfg` | pass | Every expression up to two operators deep over boolean, text, integer and decimal literals. Checks three things:<br>• `TypeSoundness`: a well-typed expression evaluates without a failed assert to a value of the inferred type.<br>• `EvaluationMatchesReference`: evaluation agrees with an independent reference semantics.<br>• `ErrorIffUndefined`: an error diagnostic is issued exactly when inference yields undefined. |
| `table` | `MC_TableInterpreter.cfg` | pass | Every sheet of up to 3 rows × 2 columns over 3 cell strings, with and without a header, and 0-2 declared columns. Checks that every row has exactly one valid cell per column (`RowsMatchColumns`). Also checks that the row-by-row executor refines `TableConstruction` (`ImplementsTableConstruction`): same failure cases, same columns, same rows in the same order. |
| `runtime_parameters` | `MC_RuntimeParameters.cfg` | pass | Up to three placeholders over two names, repeats and both attribute types included, against every env over strings of up to two characters. Checks batch reporting (one diagnostic per unresolvable placeholder, in order) and that every resolved value denotes its env string (`"07"` is never read as 7). |
| `table_ragged` | `MC_TableInterpreter_ragged.cfg` | violation | Sheets whose rows have one or two cells: `RowsMatchColumns` is violated when the undefined read past a short row is accepted (finding 6). |
| `run_options` | `MC_RunOptions.cfg` | violation | `OnlyValidOptionsReturned` is violated: invalid options are returned (finding 2). |
| `run_options_throws` | `MC_RunOptions_throws.cfg` | violation | `ParseNeverThrows` is violated: a non-string `debugTarget` makes the call throw (finding 3). |
| `engine` | `MC_ExecutionEngine.cfg` | pass | Sort, then execute, every well-connected pipeline (validated, with a pipe into every block that has an input), with every executor free to fail. `SkippedIffAncestorFailed`: a settled block was skipped exactly when one of its ancestors failed, so siblings of a failure still run. |
| `time_measurement` | `MC_TimeMeasurement.cfg` | violation | `TimerStoppedOnReturn` is violated: the unknown-block-type path returns with its timer running (finding 4). |
| `scope_local` | `MC_ScopeProvider.cfg` | pass | Three documents (two editable, one stdlib), every edit of published flags, local export definitions with and without alias, and imports including an unloaded URI, interleaved with scope lookups from every document. `CacheCoherent`: every cached exports entry equals a fresh `getExportedElements`. |
| `scope_reexport` | `MC_ScopeProvider_reexport.cfg` | violation | With `d1` allowed to re-export `b` of `d2`, `CacheCoherent` is violated (finding 5). |

Every property of a passing run has a mutant in PROJECT.json: a plausible bug in a mapped definition that makes TLC report the property violated. The mutants include:
- a dropped `hasInput` filter;
- a missing assert;
- a typo in `xor`;
- a missing header skip;
- fail-fast on a missing parameter;
- a regex that accepts leading zeros;
- a failure that aborts every later block;
- exports computed for the wrong document key.

### Findings
1. **The cycle assert fires on an acyclic pipeline** (`model-util.ts:148`, spec_code_divergence).
   - `checkPipesOfBlock` only warns when a block that has an input has no ingoing pipe. Such a block is never started.
   - Any pipe leaving that block therefore stays unvisited, and the "expected to have no cycles" assert crashes the run.
   - TLC's witness is b1 (no input, no output) plus a single pipe b3 → b2. b3 has an input but no pipe into it, so it is never started.
   - Spec 4.1 reads an unvisited edge as a cycle.
2. **`parseRunOptions` ignores its validators** (`run-options.ts:60-65`, code_bug).
   - Every validator's boolean result is discarded, so an options object whose fields have the wrong types is logged as invalid but still returned as `RunOptions`.
   - A non-string `debugTarget` then throws in `getDebugTargets` (`.split`).
3. **`parseRunOptions` throws** (`run-options.ts:84`, code_bug).
   - Its type says `RunOptions | undefined`, but with `debugTarget` a boolean or number, `getDebugTargets` calls `split` on it and throws a `TypeError`.
4. **The time measurement timer leaks** (`time-measurement-executor.ts:33`, code_bug).
   - The timer started at line 29 is not stopped when no executor exists for the block type; the error is returned with the label still running.
   - The same method never runs the executor it fetches (empty `switch`, line 42) and returns `null` rather than a `Result` (line 50).
5. **Stale exports after a re-exported document changes** (`jayvee-scope-provider.ts:85`, code_bug).
   - `getExportedElements(d1)` depends on `d2` when `d1` has `export b` for an element `b` of `d2`: `isElementExported(b)` reads `d2`'s published flag and exports.
   - The cache entry of `d1` is cleared only when `d1` is updated. TLC's trace: `d1`'s exports `{}` are cached while `b` is unpublished, then `d2` publishes `b`; `d1`'s cache still says `{}`, so documents importing `d1` cannot resolve `b` (or, the other way round, still resolve an element no longer published).

6. **A ragged row can put `undefined` into the table** (`table-interpreter-executor.ts:155`, spec_gap).
   - Spec 4.6 takes a sheet as rows of string cells, and every kept row as validated cells; it does not say rows have equal length.
   - For a row shorter than a column index, `sheetRow[sheetColumnIndex]!` is `undefined`. Whether the row is dropped then depends on `IsValidVisitor`'s verdict on `undefined`, which is not in this tree.
   - TLC's trace: no header, two integer columns, sheet `[["1","1"],["1"]]`; the table gets the row `["1", undefined]` when that verdict is true.

## 4. Bounds, and why they are enough

- **Sort:**
  - 3 blocks, up to 2 statements of up to 3 blocks each, so up to 4 semantic pipes.
  - Every combination of `hasInput`/`hasOutput`.
  - After validation each block has at most one parent, so the validated pipelines are forests of chains and forks, with 2- and 3-cycles, self pipes and input blocks that are never started. Diamonds, joins, duplicate pipes and pipes into starting blocks are generated but rejected by validation, as they are in the code. The hazards need at most 3 blocks and 3 pipes (a 3-cycle).
- **Expressions:**
  - Depth 2 gives every operator applied to every operator result.
  - Depth 2 reaches an ill-typed right operand under a short-circuiting `and`/`or`, mixed integer/decimal comparisons, and `not` of a non-boolean.
- **Tables:**
  - 3 rows, so one header and two data rows: a kept row and a dropped row, in both orders.
  - 2 columns, so header matching can reorder and omit columns.
  - Column names can repeat in the header.
  - The ragged run mixes rows of one and two cells, so a column index past the end of a row happens after a full row and before one.
- **Runtime parameters:**
  - 2 names and 3 placeholders give a missing parameter next to a present one, the same name twice, and an invalid INT after a missing one.
  - Strings over `0`, `1`, `-` of length ≤ 2 include `""`, `"0"`, `"07"`-style leading zeros, `"-1"` and `"10"`.
- **Engine:** the well-connected pipelines of three blocks, so chains and forks of 3 blocks (validation leaves no joins); every executor may fail, which covers a failure with a running sibling and a failure two levels above a block.
- **Scope provider:** two editable documents importing each other, a stdlib document, one element each; any sequence of edits and lookups (the state space is finite, so all interleavings are explored). Staleness needs one cached entry, one dependency and one edit.
- **Time measurement:** a known and an unknown block type.

## 5. Fairness and termination

The modelled functions are sequential: a loop or a recursion that the caller awaits, so their runs end in a terminal state and their cfgs say `CHECK_DEADLOCK FALSE` (the function has returned).

The engine is one sequential task that awaits each executor. Only safety is checked for it, so no fairness is assumed: on a validated pipeline each block is pushed at most once, so termination of the sort and of the engine loop holds by the shape of the model and would show nothing. The one input on which `model-util.ts:122` loops forever (a starting block on a cycle) is a validation error.

The scope provider's lookups and edits can go on forever and deadlock is checked; no liveness is claimed for it.

## 6. What is not modelled, and why

- **AST walks:** `extractRequiredRuntimeParameters` and `streamAst` are represented by their result, the list of placeholders.
- **Value-type visitors:** `IsValidVisitor` becomes a validity table. The operator registry classes become the operator cases.
- **Completion and formatter:** the completion provider builds suggestion lists from the AST and holds no state. The formatter only lays out text. Its `createIndentHiddenTextEdits` is not called anywhere in the tree. No interpreter property depends on either.
- **MapScope name resolution:** which of two descriptions with the same name a reference links to is decided inside Langium's `MapScope`, which is not in this tree. The model keeps each document's exports as a set of [element, name] pairs. The collision is listed as a hazard without a property.
- **Cell range validation:** `checkRangeLimits` is one comparison of corners computed by `CellRangeWrapper`, which is not in this tree.
- **ValueType catalogue:** constant tables and a type switch. `runtimeParameterAllowedForType` and `inferTypeFromValue` have no callers in the tree. The resolver uses its own `STRING`/`INT` enum.
- **Declarative and generated code:** the stdlib, block meta information, wrappers, the validation registry, the CLI, file I/O and the build configuration.
- **Sheet contents:** the `Sheet` class is not in this tree. `getNumberOfColumns` is taken as the length of the first row; the verdict of `IsValidVisitor` on `undefined` is left open.
- **Operator registry and `inferExpressionType`:** `operator-registry.ts` is not in this tree. Its `typeInference` functions could only be written from model-util's own rules, so comparing the registry-driven path of `type-inference.ts` with `inferTypeFromExpression` would hold by construction; neither is modelled. Arithmetic and string operators are not modelled.
- **Short-circuit `and`/`or`:** validation rejects a non-boolean right operand, and a well-typed right operand is pure, so evaluating it eagerly cannot be told apart; the hazard is listed without a property.

### Plan for later work
1. Compose `TimeMeasurement` with the engine, so that a leaked timer label meets a second measurement of the same block type.
2. A workspace of three editable documents for the scope provider, with chained re-exports.
3. Arithmetic operators, if the operator registry is brought into the tree.

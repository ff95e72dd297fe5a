--------------------------- MODULE ScopeProvider ---------------------------
(***************************************************************************)
(* JayveeScopeProvider (jayvee-scope-provider.ts): the global scope of a   *)
(* document is the exported elements of the documents it imports and of   *)
(* the builtin (stdlib) documents; the exports of each document are kept   *)
(* in a DocumentCache keyed by its URI.                                    *)
(*                                                                         *)
(*   GetGlobalScope(d) - a reference in document d is resolved: gather the *)
(*                       imports and builtins, and for each loaded document *)
(*                       take its exports from the cache, computing and    *)
(*                       storing them on a miss                            *)
(*   UpdateDocument(d) - the user edits document d: its published flags,   *)
(*                       export definitions and imports change, and the    *)
(*                       cache entry of d (only) is cleared, as the        *)
(*                       comment at line 51 says of Langium's DocumentCache *)
(*                                                                         *)
(* A document is abstracted to the elements it defines (Owner), which of  *)
(* them are published, its export definitions [element, alias] and the     *)
(* URIs it imports.  An export definition's reference resolves when the   *)
(* element is local or defined in a document the exporter imports          *)
(* (linking through this scope only narrows that to exported elements,    *)
(* which isElementExported checks again).  Names are the elements.         *)
(***************************************************************************)
EXTENDS FiniteSets

CONSTANTS
  Docs,          \* the documents loaded in the workspace (model values)
  Builtins,      \* the stdlib documents, a subset of Docs, never edited
  Elements,      \* exportable element definitions (model values)
  Owner,         \* Owner[e]: the document that defines e
  Aliases,       \* the aliases an export definition may give
  NoAlias,       \* model value: `export e` without `as`
  MissingUri,    \* model value: an import whose document is not loaded
  ExportChoices, \* ExportChoices[d]: the export definitions d may contain
  ImportChoices, \* ImportChoices[d]: the URIs d may import
  NotCached      \* model value: no cache entry for the document

Editable == Docs \ Builtins

VARIABLES
  published,     \* the element definitions marked `publish`
  exportDefs,    \* exportDefs[d]: the export definitions in d
  imports,       \* imports[d]: the URIs d imports
  cache          \* cache[d]: the cached exports of d, or NotCached

vars == <<published, exportDefs, imports, cache>>

-----------------------------------------------------------------------------
(* Scope computation *)

\* isElementExported: published, or named by an export definition of the
\* model that contains the element.
IsElementExported(e) ==
  \/ e \in published
  \/ \E x \in exportDefs[Owner[e]] : x[1] = e

\* exportDefinition.element.ref of an export definition in document d.
Resolves(d, e) == Owner[e] = d \/ Owner[e] \in imports[d]

\* followExportDefinitionChain: the referenced element if it resolves and
\* is exported where it is defined.
FollowExportDefinitionChain(d, x) ==
  Resolves(d, x[1]) /\ IsElementExported(x[1])

\* getExportedElements: [element, alias] for every published definition of
\* d and every export definition of d that can be followed.
GetExportedElements(d) ==
  {<<e, e>> : e \in {el \in published : Owner[el] = d}}
  \cup {<<x[1], IF x[2] = NoAlias THEN x[1] ELSE x[2]>> :
          x \in {y \in exportDefs[d] : FollowExportDefinitionChain(d, y)}}

\* gatherImports and gatherBuiltins: the set of imported URIs.
GatherImports(d) == imports[d]
GatherBuiltins == Builtins

\* The documents getGlobalScope visits: imported URIs with a loaded document.
ImportedDocuments(d) == (GatherImports(d) \cup GatherBuiltins) \cap Docs

-----------------------------------------------------------------------------
(* The specification *)

Init ==
  /\ published \in SUBSET Elements
  /\ \A e \in Elements : Owner[e] \in Builtins => e \in published
  /\ exportDefs \in [Docs -> SUBSET UNION {ExportChoices[d] : d \in Docs}]
  /\ \A d \in Docs : exportDefs[d] \subseteq ExportChoices[d]
  /\ imports \in [Docs -> SUBSET UNION {ImportChoices[d] : d \in Docs}]
  /\ \A d \in Docs : imports[d] \subseteq ImportChoices[d]
  /\ cache = [d \in Docs |-> NotCached]

\* Mutant: the cache entry of the updated document is not cleared.
UpdateDocumentNoInvalidate(d) ==
  /\ d \in Editable
  /\ \E pub \in SUBSET {e \in Elements : Owner[e] = d},
        ex \in SUBSET ExportChoices[d], im \in SUBSET ImportChoices[d] :
       /\ published' = {e \in published : Owner[e] # d} \cup pub
       /\ exportDefs' = [exportDefs EXCEPT ![d] = ex]
       /\ imports' = [imports EXCEPT ![d] = im]
  /\ UNCHANGED cache

UpdateDocument(d) ==
  /\ d \in Editable
  /\ \E pub \in SUBSET {e \in Elements : Owner[e] = d},
        ex \in SUBSET ExportChoices[d], im \in SUBSET ImportChoices[d] :
       /\ published' = {e \in published : Owner[e] # d} \cup pub
       /\ exportDefs' = [exportDefs EXCEPT ![d] = ex]
       /\ imports' = [imports EXCEPT ![d] = im]
  /\ cache' = [cache EXCEPT ![d] = NotCached]

\* Mutant: the exports are computed for the requesting document and
\* stored under each imported document's key.
GetGlobalScopeWrongKey(d) ==
  /\ cache' = [x \in Docs |->
                 IF x \in ImportedDocuments(d) /\ cache[x] = NotCached
                   THEN GetExportedElements(d) ELSE cache[x]]
  /\ UNCHANGED <<published, exportDefs, imports>>

GetGlobalScope(d) ==
  /\ cache' = [x \in Docs |->
                 IF x \in ImportedDocuments(d) /\ cache[x] = NotCached
                   THEN GetExportedElements(x) ELSE cache[x]]
  /\ UNCHANGED <<published, exportDefs, imports>>

Next == \E d \in Docs : UpdateDocument(d) \/ GetGlobalScope(d)

Spec == Init /\ [][Next]_vars

-----------------------------------------------------------------------------
(* Properties *)

(* Every cached exports entry is what getExportedElements computes from    *)
(* the current documents, so getGlobalScope never offers an element that  *)
(* is no longer exported, nor misses a new one: clearing the entry of the  *)
(* updated document must be enough for that.                               *)
CacheCoherent ==
  \A d \in Docs : cache[d] # NotCached => cache[d] = GetExportedElements(d)

=============================================================================

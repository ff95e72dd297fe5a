\* A document may re-export an element of a document it imports.
CONSTANTS
  d1 = d1
  d2 = d2
  lib = lib
  a = a
  b = b
  s = s
  al = al
  NoAlias = NoAlias
  MissingUri = MissingUri
  NotCached = NotCached
  Docs = {d1, d2, lib}
  Builtins = {lib}
  Elements = {a, b, s}
  Aliases = {al}
  Owner <- MCOwner
  ExportChoices <- MCReExports
  ImportChoices <- MCImports
SPECIFICATION Spec
INVARIANT CacheCoherent

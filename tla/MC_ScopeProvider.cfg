\* Documents that export only their own elements: is clearing the entry of the updated document enough?
CONSTANTS
  d1 = d1
  d2 = d2
  lib = lib
  a = a
  b = b
  s = s
  al = al
  NoAlias = NoAlias
  MissingUri = MissingUri
  NotCached = NotCached
  Docs = {d1, d2, lib}
  Builtins = {lib}
  Elements = {a, b, s}
  Aliases = {al}
  Owner <- MCOwner
  ExportChoices <- MCLocalExports
  ImportChoices <- MCImports
SPECIFICATION Spec
INVARIANT CacheCoherent

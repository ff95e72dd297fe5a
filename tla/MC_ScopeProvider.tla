------------------------- MODULE MC_ScopeProvider -------------------------
EXTENDS ScopeProvider

CONSTANTS d1, d2, lib, a, b, s, al

MCOwner == [e \in {a, b, s} |-> CASE e = a -> d1 [] e = b -> d2 [] e = s -> lib]

\* Export definitions of local elements only (`export a`, `export a as al`).
MCLocalExports == [d \in {d1, d2, lib} |->
                     CASE d = d1 -> {<<a, NoAlias>>, <<a, al>>}
                       [] d = d2 -> {<<b, NoAlias>>}
                       [] d = lib -> {}]

\* d1 may also re-export b, which d2 defines (`export b` after `use` of d2).
MCReExports == [MCLocalExports EXCEPT ![d1] = @ \cup {<<b, NoAlias>>}]

\* d1 may import d2 and an unloaded URI; d2 may import d1.
MCImports == [d \in {d1, d2, lib} |->
                CASE d = d1 -> {d2, MissingUri}
                  [] d = d2 -> {d1}
                  [] d = lib -> {}]
=============================================================================

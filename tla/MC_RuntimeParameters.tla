------------------------ MODULE MC_RuntimeParameters ------------------------
EXTENDS RuntimeParameters

CONSTANTS p, q

MCNames == {p, q}

\* Environment strings of at most two characters over digits and a sign.
MCStrings == UNION {[1..k -> {"0", "1", "-"}] : k \in 0..2}

\* Every env map over a subset of the names.
MCEnvironments == UNION {[S -> MCStrings] : S \in SUBSET MCNames}

\* Up to three placeholders in AST order; a name may repeat, with any type.
MCRequired == UNION {[1..k -> [name : MCNames, type : {"STRING", "INT"}]] : k \in 0..3}
=============================================================================

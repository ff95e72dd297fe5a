----------------------- MODULE MC_TableInterpreter -----------------------
(***************************************************************************)
(* Model for TableInterpreter: every rectangular sheet of up to three rows *)
(* and two columns over the cells "Id", "1" and "x", with or without a      *)
(* header, and up to two declared columns named "Id" (found in some        *)
(* headers) or "Nm" (never found) of type integer (valid: "1") or text     *)
(* (valid: every cell).                                                    *)
(***************************************************************************)
EXTENDS TableInterpreter

MCCells == {"Id", "1", "x"}

MCIsValidFor == [integer |-> {"1"}, text |-> MCCells]

MCSheets ==
  {<<>>} \cup
  UNION {[1..r -> [1..c -> MCCells]] : r \in 1..3, c \in 1..2}

\* Sheets whose rows have one or two cells each, in any mix.
MCRaggedSheets ==
  {<<>>} \cup
  UNION {[1..r -> UNION {[1..c -> MCCells] : c \in 1..2}] : r \in 1..3}

MCColumnDefinitions ==
  UNION {[1..n -> [name : {"Id", "Nm"}, type : {"integer", "text"}]] : n \in 0..2}
=============================================================================

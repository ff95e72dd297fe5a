------------------------- MODULE TableConstruction -------------------------
(***************************************************************************)
(* What table construction promises (spec 4.6), in one step: from a sheet, *)
(* the declared columns and the header flag, either an error or the table  *)
(* whose columns are the declared columns found in the sheet (by header    *)
(* name, else by position) and whose rows are the data rows, in order,     *)
(* restricted to those columns, that have a valid cell in every column.    *)
(* A row with any invalid cell is left out whole.                          *)
(***************************************************************************)
EXTENDS Integers, SequencesExt

CONSTANTS
  Sheets,      \* the possible input sheets (sequences of rows)
  ColumnLists, \* the possible lists of declared columns [name, type]
  IsValidFor,  \* IsValidFor[t]: the cell strings valid for value type t
  NoTable      \* model value: no table has been produced

VARIABLES inputSheet, header, columnDefinitions, result, table

abstractVars == <<inputSheet, header, columnDefinitions, result, table>>

NumberOfColumns(s) == IF s = <<>> THEN 0 ELSE Len(s[1])

\* The declared columns in the table: name, value type and sheet position.
TableColumns ==
  IF header
  THEN LET pos(d) == SelectInSeq(inputSheet[1], LAMBDA c : c = d.name)
           found == SelectSeq(columnDefinitions, LAMBDA d : pos(d) # 0)
       IN  [i \in DOMAIN found |->
              [name |-> found[i].name, type |-> found[i].type, at |-> pos(found[i])]]
  ELSE [i \in DOMAIN columnDefinitions |->
          [name |-> columnDefinitions[i].name, type |-> columnDefinitions[i].type, at |-> i]]

DataRows == IF header THEN Tail(inputSheet) ELSE inputSheet

Project(row) == [i \in DOMAIN TableColumns |-> row[TableColumns[i].at]]

AllCellsValid(row) ==
  \A i \in DOMAIN TableColumns : row[TableColumns[i].at] \in IsValidFor[TableColumns[i].type]

TableOf(rows) ==
  [columns |-> [i \in DOMAIN TableColumns |->
                  [name |-> TableColumns[i].name, type |-> TableColumns[i].type]],
   rows |-> rows]

ExpectedTable ==
  LET kept == SelectSeq(DataRows, AllCellsValid)
  IN  TableOf([i \in DOMAIN kept |-> Project(kept[i])])

Failing ==
  \/ header /\ Len(inputSheet) < 1
  \/ ~header /\ NumberOfColumns(inputSheet) < Len(columnDefinitions)

Init ==
  /\ inputSheet \in Sheets
  /\ header \in BOOLEAN
  /\ columnDefinitions \in ColumnLists
  /\ result = "pending"
  /\ table = NoTable

Construct ==
  /\ result = "pending"
  /\ IF Failing THEN result' = "err" /\ table' = NoTable
                ELSE result' = "ok" /\ table' = ExpectedTable
  /\ UNCHANGED <<inputSheet, header, columnDefinitions>>

Spec == Init /\ [][Construct]_abstractVars
=============================================================================

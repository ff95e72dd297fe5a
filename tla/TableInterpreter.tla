------------------------- MODULE TableInterpreter -------------------------
(***************************************************************************)
(* TableInterpreterExecutor.execute (table-interpreter-executor.ts): the   *)
(* column entries are derived from the header row or by position, then     *)
(* sheet.iterateRows calls back once per row, in order, and each row is    *)
(* validated cell by cell against its column's value type.                 *)
(*                                                                         *)
(*   DeriveColumnEntries - execute up to constructAndValidateTableData,    *)
(*                         with its two error returns                      *)
(*   ValidateRow         - one iterateRows callback                        *)
(*   ReturnTable         - execute after the loop: R.ok(new Table(...))    *)
(*                                                                         *)
(* Cells and names are abstract strings; IsValidFor stands for             *)
(* valuetype.acceptVisitor(new IsValidVisitor(value)).  Indices in column  *)
(* entries are 0-based as in the code.  A row of a ragged sheet may be     *)
(* shorter than a column index: sheetRow[i]! is then undefined (Absent),   *)
(* and whether IsValidVisitor (not in this tree) accepts undefined is a    *)
(* nondeterministic choice of each ValidateRow step.                       *)
(***************************************************************************)
EXTENDS Integers, SequencesExt

CONSTANTS Sheets, ColumnLists, IsValidFor, NoTable,
  Absent   \* model value: the undefined read past the end of a short row

ASSUME Absent \notin UNION {IsValidFor[t] : t \in DOMAIN IsValidFor}

VARIABLES
  inputSheet, header, columnDefinitions,  \* the inputs, fixed for a run
  columnEntries,   \* ColumnDefinitionEntry[]: sheetColumnIndex, name, type
  sheetRowIndex,   \* index of the next row iterateRows calls back with
  tableData,       \* the validated rows so far
  status           \* "deriving", "validating", "ok" or "err"

vars == <<inputSheet, header, columnDefinitions, columnEntries, sheetRowIndex,
          tableData, status>>

NumberOfRows(s) == Len(s)
NumberOfColumns(s) == IF s = <<>> THEN 0 ELSE Len(s[1])

Entry(index, def) == [sheetColumnIndex |-> index, columnName |-> def.name, valuetype |-> def.type]

\* Mutant: the column index is taken 1-based.
DeriveColumnDefinitionEntriesWithoutHeaderOneBased(defs) ==
  [i \in DOMAIN defs |-> Entry(i, defs[i])]

\* deriveColumnDefinitionEntriesWithoutHeader: the i-th definition reads column i.
DeriveColumnDefinitionEntriesWithoutHeader(defs) ==
  [i \in DOMAIN defs |-> Entry(i - 1, defs[i])]

\* deriveColumnDefinitionEntriesFromHeader: headerRow.findIndex of the name
\* (the first match); definitions whose name is not in the header are omitted.
DeriveColumnDefinitionEntriesFromHeader(defs, headerRow) ==
  LET findIndex(d) == SelectInSeq(headerRow, LAMBDA c : c = d.name) - 1
      matched == SelectSeq(defs, LAMBDA d : findIndex(d) # -1)
  IN  [i \in DOMAIN matched |-> Entry(findIndex(matched[i]), matched[i])]

\* sheetRow[sheetColumnIndex]!: undefined past the end of the row.
CellAt(sheetRow, index) ==
  IF index + 1 \in DOMAIN sheetRow THEN sheetRow[index + 1] ELSE Absent

\* Mutant: a row keeps its cells whether or not they are valid.
ConstructAndValidateTableRowUnchecked(sheetRow, entries, absentValid) ==
  [valid |-> TRUE,
   row |-> [i \in DOMAIN entries |-> CellAt(sheetRow, entries[i].sheetColumnIndex)]]

\* constructAndValidateTableRow: the row restricted to the entries, or
\* invalid (undefined) as soon as one cell is not valid for its type;
\* absentValid is the IsValidVisitor verdict on an undefined cell.
ConstructAndValidateTableRow(sheetRow, entries, absentValid) ==
  LET value(i) == CellAt(sheetRow, entries[i].sheetColumnIndex)
      isValid(i) == IF value(i) = Absent THEN absentValid
                    ELSE value(i) \in IsValidFor[entries[i].valuetype]
  IN  [valid |-> \A i \in DOMAIN entries : isValid(i),
       row |-> [i \in DOMAIN entries |-> value(i)]]

Init ==
  /\ inputSheet \in Sheets
  /\ header \in BOOLEAN
  /\ columnDefinitions \in ColumnLists
  /\ columnEntries = <<>>
  /\ sheetRowIndex = 0
  /\ tableData = <<>>
  /\ status = "deriving"

DeriveColumnEntries ==
  /\ status = "deriving"
  /\ CASE header /\ NumberOfRows(inputSheet) < 1 ->
            status' = "err" /\ UNCHANGED columnEntries
       [] header ->
            /\ columnEntries' = DeriveColumnDefinitionEntriesFromHeader(columnDefinitions, inputSheet[1])
            /\ status' = "validating"
       [] NumberOfColumns(inputSheet) < Len(columnDefinitions) ->
            status' = "err" /\ UNCHANGED columnEntries
       [] OTHER ->
            /\ columnEntries' = DeriveColumnDefinitionEntriesWithoutHeader(columnDefinitions)
            /\ status' = "validating"
  /\ UNCHANGED <<inputSheet, header, columnDefinitions, sheetRowIndex, tableData>>

\* Mutant: the header row is not skipped.
ValidateRowWithHeader ==
  \E absentValid \in BOOLEAN :
  LET tableRow == ConstructAndValidateTableRow(inputSheet[sheetRowIndex + 1], columnEntries, absentValid) IN
  /\ status = "validating"
  /\ sheetRowIndex < NumberOfRows(inputSheet)
  /\ tableData' = IF tableRow.valid THEN Append(tableData, tableRow.row) ELSE tableData
  /\ sheetRowIndex' = sheetRowIndex + 1
  /\ UNCHANGED <<inputSheet, header, columnDefinitions, columnEntries, status>>

ValidateRow ==
  \E absentValid \in BOOLEAN :
  LET tableRow == ConstructAndValidateTableRow(inputSheet[sheetRowIndex + 1], columnEntries, absentValid) IN
  /\ status = "validating"
  /\ sheetRowIndex < NumberOfRows(inputSheet)
  /\ tableData' = IF header /\ sheetRowIndex = 0 THEN tableData
                  ELSE IF tableRow.valid THEN Append(tableData, tableRow.row)
                  ELSE tableData
  /\ sheetRowIndex' = sheetRowIndex + 1
  /\ UNCHANGED <<inputSheet, header, columnDefinitions, columnEntries, status>>

ReturnTable ==
  /\ status = "validating"
  /\ sheetRowIndex = NumberOfRows(inputSheet)
  /\ status' = "ok"
  /\ UNCHANGED <<inputSheet, header, columnDefinitions, columnEntries, sheetRowIndex, tableData>>

Next == DeriveColumnEntries \/ ValidateRow \/ ReturnTable

Spec == Init /\ [][Next]_vars

-----------------------------------------------------------------------------
(* Properties *)

TypeOK ==
  /\ inputSheet \in Sheets /\ header \in BOOLEAN /\ columnDefinitions \in ColumnLists
  /\ \A i \in DOMAIN columnEntries :
       columnEntries[i].sheetColumnIndex \in 0..NumberOfColumns(inputSheet) - 1
  /\ sheetRowIndex \in 0..NumberOfRows(inputSheet)
  /\ tableData \in Seq(Seq(UNION {IsValidFor[t] : t \in DOMAIN IsValidFor}))
  /\ status \in {"deriving", "validating", "ok", "err"}

(* Every row of the table under construction has exactly one cell per     *)
(* column entry, and every cell is valid for its column's value type: the  *)
(* Table invariant of spec 3, kept by constructAndValidateTableRow for     *)
(* each row whatever the header matching produced.                         *)
RowsMatchColumns ==
  \A r \in DOMAIN tableData :
    /\ Len(tableData[r]) = Len(columnEntries)
    /\ \A i \in DOMAIN columnEntries :
         tableData[r][i] \in IsValidFor[columnEntries[i].valuetype]

(* The row-by-row construction implements the one-step TableConstruction: *)
(* it fails exactly when that fails, and returns the same columns and the  *)
(* same rows in the same order.                                            *)
Abstract == INSTANCE TableConstruction WITH
  result <- IF status \in {"deriving", "validating"} THEN "pending" ELSE status,
  table <- IF status = "ok"
           THEN [columns |-> [i \in DOMAIN columnEntries |->
                                [name |-> columnEntries[i].columnName,
                                 type |-> columnEntries[i].valuetype]],
                 rows |-> tableData]
           ELSE NoTable

ImplementsTableConstruction == Abstract!Spec
=============================================================================

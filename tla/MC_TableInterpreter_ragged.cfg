\* Row-by-row table construction on sheets whose rows differ in length.
CONSTANTS
  Sheets <- MCRaggedSheets
  ColumnLists <- MCColumnDefinitions
  IsValidFor <- MCIsValidFor
  NoTable = NoTable
  Absent = Absent
SPECIFICATION Spec
INVARIANT RowsMatchColumns
\* execute returns its result and stops.
CHECK_DEADLOCK FALSE

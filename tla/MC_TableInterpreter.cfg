\* Row-by-row table construction on every small sheet and column list.
CONSTANTS
  Sheets <- MCSheets
  ColumnLists <- MCColumnDefinitions
  IsValidFor <- MCIsValidFor
  NoTable = NoTable
  Absent = Absent
SPECIFICATION Spec
INVARIANTS
  TypeOK
  RowsMatchColumns
PROPERTIES
  ImplementsTableConstruction
\* execute returns its result and stops.
CHECK_DEADLOCK FALSE

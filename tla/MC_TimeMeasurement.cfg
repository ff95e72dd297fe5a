\* One TimeMeasurement block, measuring a known or an unknown block type.
CONSTANTS
  csv = csv
  sql = sql
  unknown = unknown
  BlockTypes = {csv, sql, unknown}
  KnownTypes = {csv, sql}
SPECIFICATION TMSpec
INVARIANT TimerStoppedOnReturn
\* doExecute returns and stops.
CHECK_DEADLOCK FALSE

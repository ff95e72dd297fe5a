\* parseRunOptions on every options object over the value kinds.
CONSTANTS
  RawOptions <- MCRawOptions
  NotAnObject = NotAnObject
SPECIFICATION Spec
INVARIANT OnlyValidOptionsReturned
\* parseRunOptions returns and stops.
CHECK_DEADLOCK FALSE

\* parseRunOptions on every options object: can the call throw?
CONSTANTS
  RawOptions <- MCRawOptions
  NotAnObject = NotAnObject
SPECIFICATION Spec
INVARIANT ParseNeverThrows
\* parseRunOptions returns and stops.
CHECK_DEADLOCK FALSE

\* The same array; a trace longer than a row.
CONSTANTS
  Rows = 3
  Cols = 2
  MaxDevices = 4
  MaxLength = 3
SPECIFICATION Spec
CHECK_DEADLOCK FALSE
INVARIANT EntireTraceFile

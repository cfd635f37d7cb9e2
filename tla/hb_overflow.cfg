\* The constants of the code, two monitored processes, two segments:
\* does the table hold a segment?
CONSTANTS
  HbMax = 50
  IntBits = 32
  SegLength = 4
  MaxEps = 5
  MaxProcesses = 2
  MaxLength = 8
SPECIFICATION Spec
INVARIANT TableHoldsSegment
CHECK_DEADLOCK FALSE

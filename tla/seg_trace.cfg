\* Up to two monitored processes, segments of 2, traces of up to 6 events
\* (three segments), each of its own length and the bound of the loop too,
\* eps from 0 past the segment length; the code's table and int.
CONSTANTS
  HbMax = 50
  IntBits = 32
  SegLength = 2
  MaxEps = 3
  MaxProcesses = 2
  MaxLength = 6
SPECIFICATION Spec
INVARIANTS TypeOK SkewedEventsMeet FirstTiesLast
PROPERTY PassCoversTrace
CHECK_DEADLOCK FALSE

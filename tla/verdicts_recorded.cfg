\* Are answers recorded in the verdicts?
CONSTANTS
  MaxNumbered = 2
  MaxEmptied = 1
  MonitorMax = 20
  HbMax = 50
  IntBits = 32
  SegLength = 4
  MaxEps = 2
  NumRooms = 2
  Lengths = {0, 3, 6}
SPECIFICATION RoomSpec
INVARIANT VerdictsRecorded
CHECK_DEADLOCK FALSE

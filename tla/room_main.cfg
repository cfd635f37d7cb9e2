\* The code's segment length; eps only up to 2, 8 monitors and a table of 16,
\* so that a run can overrun the list and leave the table (the central monitor
\* of the largest room has more names).  Rooms of up to two numbered files of
\* a kind and one without a number; each device has its own trace of no, 3 or
\* 6 events: none, a short segment, and two segments of which one is short.
CONSTANTS
  MaxNumbered = 2
  MaxEmptied = 1
  MonitorMax = 8
  HbMax = 16
  IntBits = 32
  SegLength = 4
  MaxEps = 2
  NumRooms = 2
  Lengths = {0, 3, 6}
SPECIFICATION RoomSpec
INVARIANTS RoomTypeOK CentralMatchesFormula EachPairOnce SharedIsDisjunction AnswerIsWindowSize AbortsJustOnEmptyWindow
PROPERTY CompleteRoomsFinish
CHECK_DEADLOCK FALSE

\* Up to 6 events and 3 entries: both sides of 2 and 4, ordered, cyclic and
\* unordered tables.  An int of 4 bits, so that names reach past it as names
\* of 33 and more do in the code.
CONSTANTS
  IntBits = 4
  MaxEvents = 6
  MaxEntries = 3
SPECIFICATION InputSpec
INVARIANTS ExactWhenSquareIsPower AnswerBySizeAlone
CHECK_DEADLOCK FALSE

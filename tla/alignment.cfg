\* The scripts of entrance and toilet, two of their starts in any order, with
\* interruptions, up to two failed statements the client goes on after, and
\* helpers dropped in between; every database of up to three values at two
\* times, two values of an item at one time included; the entrance light was
\* dimmed.
CONSTANTS
  Script <- TwoRooms
  Times = {t1, t2}
  Dimmed = {"item210"}
  MaxCopies = 2
  MaxRows = 3
  MaxRuns = 2
  MaxSkips = 2
SPECIFICATION MCSpec
SYMMETRY TimesAlike
INVARIANTS AlignTypeOK OwnHelperAligns AlignedUnlessSkipped OneRunMakesTables
CHECK_DEADLOCK FALSE

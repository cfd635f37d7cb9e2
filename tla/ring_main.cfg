\* Three monitors, as in main(); chains of one and of two operators.
CONSTANTS
  N = 3
  Subformulas <- MixedChains
SPECIFICATION MainSpec
INVARIANTS MainTypeOK SweepKnowledge FinalVerdictCorrect
CHECK_DEADLOCK FALSE

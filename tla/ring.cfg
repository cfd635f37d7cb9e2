\* Three monitors, as in main(); each an "and" or an "or" of two observations.
CONSTANTS
  N = 3
  Subformulas <- OneOperator
SPECIFICATION FairSpec
INVARIANTS TypeOK VerdictsCorrect KnowledgeIsArc TrueAnswerSound AnswerComplete
PROPERTIES KnowledgeStable ImplementsBoard EventuallyAgreed

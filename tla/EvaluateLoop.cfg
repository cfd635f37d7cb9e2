\* Every chain of at most 5 operators.
CONSTANT MaxOperators = 5
SPECIFICATION Spec
INVARIANTS TypeOK PrefixesCorrect VerdictCorrect ChainMatchesLoop
CHECK_DEADLOCK FALSE

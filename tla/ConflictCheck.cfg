SPECIFICATION Spec
CONSTANT
  Rounds <- MCRounds
INVARIANTS
  TypeOK
  Verdict
  ReportsReal
  LowestReported
PROPERTY
  Terminates
\* A call returns: the last state has no step.
CHECK_DEADLOCK FALSE

SPECIFICATION Spec
CONSTANTS
  Calls <- MCCalls
  Memories <- MCMemories
INVARIANTS
  TypeOK
  OnlyDestination
  MatchesBitcpy
  CopiesExactly
PROPERTY
  Terminates
\* A call returns: the last state has no step.
CHECK_DEADLOCK FALSE

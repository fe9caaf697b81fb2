SPECIFICATION Spec
CONSTANTS
  Calls <- MCHeadCalls
  Memories <- MCMemories
INVARIANT
  CopiesAsDocumented
\* A call returns: the last state has no step.
CHECK_DEADLOCK FALSE

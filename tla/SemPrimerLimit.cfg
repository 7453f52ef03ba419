SPECIFICATION Spec
CONSTANTS
  N = 2
  THRNUM = 4
INVARIANTS AtMostNThreads

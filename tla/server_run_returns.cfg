SPECIFICATION Spec
CONSTANTS
  c1 = c1
  c2 = c2
  NumThreads = 2
  Conns = {}
  Ways = {"Run"}
INVARIANT RunEndsLoops
CHECK_DEADLOCK FALSE

SPECIFICATION FairSpec
CONSTANTS
  c1 = c1
  c2 = c2
  NumThreads = 1
  Conns = {}
  Ways = {"RunInAnotherThread"}
PROPERTY StopReturns
CHECK_DEADLOCK FALSE

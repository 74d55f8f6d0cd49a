SPECIFICATION FairSpec
CONSTANTS
  c1 = c1
  c2 = c2
  NumThreads = 2
  Conns = {c1}
  Ways = {"Run"}
PROPERTY SignalEndsAllLoops
CHECK_DEADLOCK FALSE

SPECIFICATION FairSpec
CONSTANTS
  c1 = c1
  c2 = c2
  NumThreads = 2
  Conns = {c1, c2}
  Ways = {"Run", "RunInAnotherThread"}
CHECK_DEADLOCK FALSE
INVARIANTS
  OneAccept
  StopEndsLoops
PROPERTIES
  AcceptedIsServed
  SignalEndsLoops

SPECIFICATION FairSpec
CONSTANTS
  s1 = s1
  s2 = s2
  s3 = s3
  c1 = c1
  c2 = c2
  Conns = {c1, c2}
  Threshold = 1
  MaxRequests = 2
  Services = {s1}
  ServiceId <- OneService
  Strangers = {}
  Deferring = {}
  Endings = {"finish", "reset", "stop"}
CHECK_DEADLOCK FALSE
INVARIANTS
  CountIsHolders
  OneWriteInProgress
PROPERTIES
  AnsweredInTheEnd
  ClosedIsDeleted

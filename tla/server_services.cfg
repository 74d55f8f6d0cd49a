SPECIFICATION Spec
CONSTANTS
  s1 = s1
  s2 = s2
  s3 = s3
  c1 = c1
  c2 = c2
  Conns = {c1}
  Threshold = 1
  MaxRequests = 3
  Services = {s1, s2, s3}
  ServiceId <- Colliding
  Strangers = {s2, s3}
  Deferring = {s2}
  Endings = {"finish", "reset", "stop"}
CHECK_DEADLOCK FALSE
INVARIANTS
  AnswersInOrder
  NoFault

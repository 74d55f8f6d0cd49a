SPECIFICATION Spec
CONSTANTS
  s1 = s1
  s2 = s2
  s3 = s3
  c1 = c1
  c2 = c2
  Conns = {c1}
  Threshold = 1
  MaxRequests = 1
  Services = {s1, s2, s3}
  ServiceId <- Colliding
  Strangers = {s2}
  Deferring = {}
  Endings = {"finish"}
INVARIANT UnregisteredIsLogged
CHECK_DEADLOCK FALSE

SPECIFICATION Spec
CONSTANTS
  a = a
  b = b
  c = c
  Calls = {a, b}
  Size <- MCSize
  AutoReconnect = TRUE
  Faults = {"torn"}
  MaxBreaks = 1
CHECK_DEADLOCK FALSE
INVARIANT
  OwnAnswer

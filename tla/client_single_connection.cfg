SPECIFICATION FairSpec
CONSTANTS
  a = a
  b = b
  c = c
  Calls = {a, b, c}
  Size <- MCSize
  AutoReconnect = FALSE
  Faults = {"torn", "halfclose", "split"}
  MaxBreaks = 1
CHECK_DEADLOCK FALSE
INVARIANTS
  OwnAnswer
  NoCheckFails
PROPERTIES
  KeepsContract
  DoneOrDisconnected

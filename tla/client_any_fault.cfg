SPECIFICATION Spec
CONSTANTS
  a = a
  b = b
  c = c
  Calls = {a, b}
  Size <- MCSize
  AutoReconnect = TRUE
  Faults = {"torn", "halfclose", "split"}
  MaxBreaks = 2
CHECK_DEADLOCK FALSE
INVARIANTS
  DoneAtMostOnce
  NoCallForgotten
  SentOnThisConnection
  OnceAConnection
PROPERTIES
  SilentAfterTerminate

SPECIFICATION FairSpec
CONSTANTS
  a = a
  b = b
  c = c
  Calls = {a, b}
  Size <- MCSize
  AutoReconnect = TRUE
  Faults = {}
  MaxBreaks = 2
CHECK_DEADLOCK FALSE
INVARIANTS
  NoDanglingData
  WritesInOrder
  NoCheckFails
  OwnAnswer
PROPERTIES
  KeepsContract
  EveryCallDone
  DestroyReturns

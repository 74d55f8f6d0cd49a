SPECIFICATION FairSpec
CHECK_DEADLOCK FALSE
INVARIANTS
  NoHandlerAfterDestruction
  ShutDownOrNeverRan
PROPERTIES
  DestructorReturns

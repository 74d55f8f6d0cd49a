CONSTANTS
  Threads = {t1, t2, t3}
  MaxNotify = 5
SPECIFICATION FairSpec
CHECK_DEADLOCK FALSE
PROPERTIES
  KeepsContract
  NoLostWakeup

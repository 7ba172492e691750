SPECIFICATION FairSpec
CONSTANTS
  Threads = {t1, t2}
INVARIANTS
  OriginalRunsOnce
  AllOrNothing
PROPERTIES
  LaterCallsReturn
\* Threads may be lost to torn code or a null jump.
CHECK_DEADLOCK FALSE

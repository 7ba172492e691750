SPECIFICATION FairSpec
CONSTANTS
  Slots <- MCSlots
  Resolved <- MCResolved
  Main = "game"
  Skipped <- MCSkipped
  BadImage <- NoModules
  Protected <- RecvSlot
  SnapshotMayFail = TRUE
  Threads = {"t1", "t2"}
INVARIANTS
  NoNullCall
  HookCountExact
PROPERTIES
  CallsReturn
\* The process may end.
CHECK_DEADLOCK FALSE

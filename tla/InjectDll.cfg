SPECIFICATION Spec
CONSTANTS
  Pids = {1, 2}
  MaxInjects = 3
INVARIANTS
  KeepsNothing
  PathReadWhole
CHECK_DEADLOCK FALSE

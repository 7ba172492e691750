SPECIFICATION Spec
CONSTANTS
  ImageStart = 900000
  UserEnd = 1000000
  MaxGone = 1
  Memory <- GameMemory
  Calls <- GameCalls
INVARIANTS
  FaultOnlyIfReleased
  TxMessageCaptured
CHECK_DEADLOCK FALSE

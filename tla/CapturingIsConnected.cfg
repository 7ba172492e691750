SPECIFICATION Spec
CONSTANTS
  t1 = t1
  t2 = t2
  GameThreads = {t1}
  MaxInjects = 2
  MaxGames = 1
  MaxCalls = 1
  MAX_RETRIES = 1
  PipeCap = 1
  Oversize <- NoOversize
INVARIANT CapturingIsConnected

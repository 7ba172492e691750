SPECIFICATION FairSpec
CONSTANTS
  t1 = t1
  t2 = t2
  GameThreads = {t1, t2}
  MaxInjects = 2
  MaxGames = 1
  MaxCalls = 2
  MAX_RETRIES = 1
  PipeCap = 1
  Oversize <- MCOversize
PROPERTIES
  NeverFreezesGame
  StoppedServerDrains
  WrittenEventuallyShown

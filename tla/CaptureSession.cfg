SPECIFICATION Spec
CONSTANTS
  t1 = t1
  t2 = t2
  GameThreads = {t1, t2}
  MaxInjects = 2
  MaxGames = 2
  MaxCalls = 2
  MAX_RETRIES = 2
  PipeCap = 2
  Oversize <- MCOversize
INVARIANTS
  NoWriteThroughClosedHandle
  OneLiveServer
  InstanceHasServer
  NeverDropsHealthyConnection
  PerThreadOrder
PROPERTIES
  ChannelSpec

SPECIFICATION PathSpec
CONSTANTS
  Threads = {"a", "b"}
  MaxCalls = 2
  PayloadLen <- LongLen
  MaxTotal = 12
  PipeCap = 9
  Sockets = {s1, s2}
  Buffers <- BufferEnds
  Games = { {}, {"shared", "pending"}, {"shared", "partial"} }
  MaxConns = 2
  MaxBytes = 3
INVARIANTS
  TypesOK
  StreamsReassembled
PROPERTIES
  QueueSpec
  ClosedForCause
  CaptureDelivered
\* The game ends, or has captured all it will.
CHECK_DEADLOCK FALSE

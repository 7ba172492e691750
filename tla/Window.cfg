SPECIFICATION WindowSpec
CONSTANTS
  Sockets = {"aligned", "late", "stale"}
  Wire <- MCWire
  Payloads <- MCPayloads
  FrameEnd <- MCFrameEnd
  Fields <- MCFields
  Services <- MCServices
  MaxSent = 2
  MaxStreams = 2
  ListServices = {5, 7}
  ServiceName <- CutNames
  MessageName <- CutMessages
  Captures <- SomeCaptures
  MaxCaptures = 3
INVARIANTS
  TypesOK
  AlignedStreamDecoded
  ResynchronisesOnFrame
  PlaintextRoundTrip
  SelectionDenotes
  ListedOnceInOrder
  PanicsInNamesOnly
\* Every byte captured and every message sent, or the window ended.
CHECK_DEADLOCK FALSE

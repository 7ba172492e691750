SPECIFICATION LoadSpec
CONSTANTS
  Words <- AllWords
  Files <- MCFiles
  Documents <- MCDocuments
  Events <- MCEvents
  Marks <- MCMarks
  Unreadable = {"junk"}
  MessagesXml <- MCMessagesXml
  Stem <- MCStem
  MaxLoads = 2
  Wads <- MCWads
  Faults = TRUE
  Torn <- MCTorn
  MaxClicks = 2
INVARIANTS
  RegistryWhole
  LookupsAnswered
  OrderIsPosition
  WadTypeOK
  ReturnedAreWhole
  ErrKeepsFiles
\* The last click is over.
CHECK_DEADLOCK FALSE

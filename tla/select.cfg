CONSTANTS
  Socks = {1, 2, 3}
  NoSock = NoSock
  Kind <- SelectKind
  Fresh = {2}
  INVALID_SOCKET = 99
  FdSetSize = 1
  MaxIn = 1
  Overlap = FALSE
  Ops = {o1, o2}
  NoOp = NoOp
SPECIFICATION FairSpec
CHECK_DEADLOCK FALSE
INVARIANTS FirstAcceptTakesOne OnlyEmptyDatagramsGoAstray
PROPERTIES RefusedConnectIsSilent ImplementsAsyncOps ReadinessIsServed

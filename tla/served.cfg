CONSTANTS
  tcp1 = tcp1
  tcp2 = tcp2
  peer1 = peer1
  peer2 = peer2
  listener = listener
  udp = udp
  timer = timer
  signals = signals
  NoOp = NoOp
  NoSock = NoSock
  Kind <- MCKind
  Fresh <- MCFresh
  Socks = {tcp1, timer}
  Ops = {o1, o2, o3}
  Faults = {}
  UserCalls = {"SyncConnect", "Write", "Zero"}
  Overlap = FALSE
  CarefulUser = TRUE
  MaxIn = 1
  MaxEvents = 1
  Errnos = {0}
SPECIFICATION FairSpec
CHECK_DEADLOCK FALSE
PROPERTIES WaitsAreServed ImplementsFairAsyncOps

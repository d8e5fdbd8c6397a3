CONSTANTS
  tcp1 = tcp1
  tcp2 = tcp2
  peer1 = peer1
  peer2 = peer2
  listener = listener
  udp = udp
  timer = timer
  signals = signals
  NoOp = NoOp
  NoSock = NoSock
  Kind <- MCKind
  Fresh <- MCFresh
  Socks = {listener, peer1, tcp1}
  Ops = {o1, o2, o3}
  Faults = {}
  UserCalls = {"Connect", "SyncConnect", "Sync", "Close"}
  Overlap = FALSE
  CarefulUser = TRUE
  MaxIn = 1
  MaxEvents = 2
  Errnos = {0}
SPECIFICATION Spec
CHECK_DEADLOCK FALSE
INVARIANTS Inv NoNullSocket
SYMMETRY OpsSymmetry

CONSTANTS
  tcp1 = tcp1
  tcp2 = tcp2
  peer1 = peer1
  peer2 = peer2
  listener = listener
  udp = udp
  timer = timer
  signals = signals
  NoOp = NoOp
  NoSock = NoSock
  Kind <- MCKind
  Fresh <- MCFresh
  Socks = {tcp1}
  Ops = {o1, o2}
  Faults = {"FIN", "RST", "EAGAIN", "ENETUNREACH"}
  UserCalls = {"Connect", "SyncConnect", "Write", "Sync", "Shutdown", "Close"}
  Overlap = TRUE
  CarefulUser = FALSE
  MaxIn = 2
  MaxEvents = 1
  Errnos = {0, 11}
SPECIFICATION Spec
CHECK_DEADLOCK FALSE
SYMMETRY OpsSymmetry
INVARIANTS NothingDueInWait ExactlyOnce NoLostWakeup TransferErrorIsOpaque ConnectedWhenToldSo
PROPERTIES TransferNeverWaitsAgain

CONSTANTS
  tcp1 = tcp1
  tcp2 = tcp2
  peer1 = peer1
  peer2 = peer2
  listener = listener
  udp = udp
  timer = timer
  signals = signals
  NoOp = NoOp
  NoSock = NoSock
  Kind <- MCKind
  Fresh <- MCFresh
  Socks = {listener, peer1, peer2}
  Ops = {o1, o2, o3}
  Faults = {"FIN", "EMFILE"}
  UserCalls = {"Close"}
  Overlap = FALSE
  CarefulUser = FALSE
  MaxIn = 1
  MaxEvents = 2
  Errnos = {0, 11}
SPECIFICATION Spec
CHECK_DEADLOCK FALSE
SYMMETRY OpsSymmetry
INVARIANTS AcceptedWhenToldSo BlocksOnAcceptedOnly
PROPERTIES ImplementsAsyncOps

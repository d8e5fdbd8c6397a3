CONSTANTS
  tcp1 = tcp1
  tcp2 = tcp2
  peer1 = peer1
  peer2 = peer2
  listener = listener
  udp = udp
  timer = timer
  signals = signals
  NoOp = NoOp
  NoSock = NoSock
  Kind <- MCKind
  Fresh <- MCFresh
  Socks = {listener, peer1, peer2, udp, timer}
  Ops = {o1, o2, o3}
  Faults = {"ICMP"}
  UserCalls = {"Write"}
  Overlap = TRUE
  CarefulUser = FALSE
  MaxIn = 1
  MaxEvents = 1
  Errnos = {0, 11}
SPECIFICATION Spec
CHECK_DEADLOCK FALSE
INVARIANTS ExactlyOnce NothingWaitsForTheFlag
SYMMETRY OpsSymmetry

CONSTANTS
  tcp1 = tcp1
  tcp2 = tcp2
  peer1 = peer1
  peer2 = peer2
  listener = listener
  udp = udp
  timer = timer
  signals = signals
  NoOp = NoOp
  NoSock = NoSock
  Kind <- MCKind
  Fresh <- MCFresh
  Socks = {timer, signals}
  Ops = {o1, o2, o3}
  Faults = {}
  UserCalls = {"End"}
  Overlap = TRUE
  CarefulUser = FALSE
  MaxIn = 2
  MaxEvents = 2
  Errnos = {0}
SPECIFICATION FairSpec
CHECK_DEADLOCK FALSE
PROPERTIES EachWaitHasItsOwnTick SignalIsNotConsumed EndNeedsOneMoreEvent

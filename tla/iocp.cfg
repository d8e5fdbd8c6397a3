CONSTANTS
  Socks = {s1}
  NoSock = NoSock
  Ops = {o1, o2}
  NoOp = NoOp
  MaxLen = 1
SPECIFICATION FairSpec
CHECK_DEADLOCK FALSE
INVARIANTS SeolOutlivesItsCall RefusalLooksLikeBytes
PROPERTIES ImplementsAsyncOps CloseCompletes

CONSTANTS
  s1 = s1
  s2 = s2
  h1 = h1
  h2 = h2
  Signals = {s1, s2}
  NoSignal = NoSignal
  Handlers = {h1, h2}
  NoHandler = NoHandler
  Set <- SignalSets
  Ops = {o1, o2, o3}
  NoOp = NoOp
  Threads = {main, t1, t2}
  main = main
SPECIFICATION Spec
SYMMETRY Interchangeable
CHECK_DEADLOCK FALSE
INVARIANTS WatchedUntilDelivered ResumedAgainOnlyIfArmedAgain FirstWaitDoesNotRace

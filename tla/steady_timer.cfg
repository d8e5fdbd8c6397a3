CONSTANTS
  Timers = {t1, t2}
  NoTimer = NoTimer
  Ops = {o1, o2, o3}
  NoOp = NoOp
SPECIFICATION FairSpec
CHECK_DEADLOCK FALSE
INVARIANTS TimerNeverWaitsForHandler CallbackPerWait
PROPERTIES WaitIsServed

CONSTANTS
  int1 = int1
  int2 = int2
  int3 = int3
  void1 = void1
  NoFrame = NoFrame
  Frames = {int1, int2, int3, void1}
  Ret <- MCRet
  Throws = {int1}
  Takers = {int3}
SPECIFICATION FairSpec
CHECK_DEADLOCK FALSE
INVARIANTS NoReentry AwaiterOfItsOwnTypeIsResumed OnlyVoidFuturesDangle
PROPERTIES EveryCallReturns

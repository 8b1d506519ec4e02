\* The scheduler of test_scheduler.cpp: the caller thread alone.
SPECIFICATION FairSpec
CONSTANTS
  caller = caller
  w1 = w1
  w2 = w2
  root = root
  f1 = f1
  f2 = f2
  f3 = f3
  Thread <- CallerOnly
  Coroutine <- ThreeFibers
  Caller = caller
  Root = root
  Null = Null
  Stale = Stale
  UseCaller = TRUE
  Moves = {"requeue", "pinned", "park", "spawn", "pin", "batch"}
  MaxQueue = 3
INVARIANTS TypeOK StopDrains NeverFails
PROPERTIES ImplementsTaskPool StopReturns

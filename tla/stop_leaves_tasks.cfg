\* Without use_caller start() creates no thread and stop() returns with tasks in the queue.
SPECIFICATION Spec
CONSTANTS
  caller = caller
  w1 = w1
  w2 = w2
  root = root
  f1 = f1
  f2 = f2
  f3 = f3
  Thread <- CallerAndTwo
  Coroutine <- TwoFibers
  Caller = caller
  Root = root
  Null = Null
  Stale = Stale
  UseCaller = FALSE
  Moves = {}
  MaxQueue = 2
INVARIANTS StartStopDrains

\* A task that reschedules itself and yields, as test_scheduler.cpp asks, with two workers.
SPECIFICATION Spec
CONSTANTS
  caller = caller
  w1 = w1
  w2 = w2
  root = root
  f1 = f1
  f2 = f2
  f3 = f3
  Thread <- CallerAndTwo
  Coroutine <- TwoFibers
  Caller = caller
  Root = root
  Null = Null
  Stale = Stale
  UseCaller = FALSE
  Moves = {"requeue"}
  MaxQueue = 2
INVARIANTS NoFiberFails

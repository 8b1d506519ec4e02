\* Two workers, tasks that return to the thread they yielded on.
SPECIFICATION FairSpec
CONSTANTS
  caller = caller
  w1 = w1
  w2 = w2
  root = root
  f1 = f1
  f2 = f2
  f3 = f3
  Thread <- CallerAndTwo
  Coroutine <- TwoFibers
  Caller = caller
  Root = root
  Null = Null
  Stale = Stale
  UseCaller = FALSE
  Moves = {"pinned", "spawn", "pin", "batch"}
  MaxQueue = 2
INVARIANTS NoFiberFails
PROPERTIES DrainedForGood ImplementsTaskPool WorkersLeave QueuedRuns

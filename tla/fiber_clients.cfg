\* Threads that use fibers in every way the code lets them.
SPECIFICATION Spec
CONSTANTS
  t1 = t1
  t2 = t2
  c1 = c1
  c2 = c2
  c3 = c3
  Thread <- MCThreads
  Coroutine <- MCCoroutines
  Null = Null
  Stale = Stale
  Moves = {"nested", "throw", "mainYield", "discard", "careless"}
INVARIANTS TypeOK ThisIsRunning ExecIsRunning WayBack NeverFails

\* Two workers, and clients and tasks that do everything the code lets them do.
SPECIFICATION Spec
CONSTANTS
  caller = caller
  w1 = w1
  w2 = w2
  root = root
  f1 = f1
  f2 = f2
  f3 = f3
  Thread <- CallerAndTwo
  Coroutine <- TwoFibers
  Caller = caller
  Root = root
  Null = Null
  Stale = Stale
  UseCaller = FALSE
  Moves = {"requeue", "park", "spawn", "again", "throw", "late", "restart", "hasty"}
  MaxQueue = 2
SYMMETRY MCSymmetry
INVARIANTS ActiveCountsHolders TaskKnowsItself

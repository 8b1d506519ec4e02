\* Two threads that register, set, load and listen, with listeners that call back.
\* The system may really stop: a knot of threads that wait for each other.
SPECIFICATION FairSpec
CONSTANTS
  t1 = t1
  t2 = t2
  int = int
  list = list
  Thread <- MCThreads
  Name = {1}
  Type <- MCTypes
  Value = {0, 1}
  Default = 0
  Null = Null
  Bad = Bad
  Files <- MCFiles
  Moves = {"lookup", "reread", "throw"}
  MaxListeners = 2
INVARIANTS TypeOK KnotNeedsListener LastHeardIsValue
PROPERTY CallsReturn
CHECK_DEADLOCK FALSE

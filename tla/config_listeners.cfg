\* Two threads that register, walk, add and delete listeners, on two variables of a type.
\* The system may really stop: a race on the registry ends it.
SPECIFICATION Spec
CONSTANTS
  t1 = t1
  t2 = t2
  int = int
  list = list
  Thread <- MCThreads
  Name = {1, 2}
  Type = {int}
  Value = {0}
  Default = 0
  Null = Null
  Bad = Bad
  Files = {}
  Moves = {}
  MaxListeners = 3
INVARIANTS OwnKeys
CHECK_DEADLOCK FALSE

\* Two threads that log to the root, to a logger of the manager and to one of their
\* own, and change them meanwhile. The system may stop: every thread may be idle.
SPECIFICATION FairSpec
CONSTANTS
  t1 = t1
  t2 = t2
  app = app
  own = own
  stdout = stdout
  file = file
  standard = standard
  other = other
  Root = Root
  Null = Null
  Thread <- MCThreads
  Named <- MCNamed
  Own <- MCOwn
  Appender <- MCAppenders
  Stdout = stdout
  Formatter <- MCFormatters
  Standard = standard
  Levels = {1, 2}
  MaxEvents = 2
  MaxChanges = 3
INVARIANTS TypeOK HandedOut SameOrder FailsOnlyWithoutRoot ShownAsFirstAdded
PROPERTIES SilentAfterRemoval LogReturns
CHECK_DEADLOCK FALSE

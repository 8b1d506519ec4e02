\* Appending threads, the backend and stop() in every order, under fairness.
SPECIFICATION FairSpec
CONSTANTS
  short = short
  long = long
  huge = huge
  Message <- MCMessages
  Size <- MCSize
  Cap = 3
  MaxCalls = 5
INVARIANTS TypeOK Conserved BuffersSuffice
PROPERTIES ImplementsLogStream MessagesReachFile StopReturns

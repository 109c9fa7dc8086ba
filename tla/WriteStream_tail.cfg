\* A client that drops once and may subscribe twice, on a transport that
\* loses nothing and with sends that do not throw.
SPECIFICATION FairSpec
CONSTANTS
  Capacity = 1
  MayUnsubscribe = FALSE
  SendMayThrow = FALSE
  Lossy = FALSE
  MaxWrites = 4
  MaxConns = 2
  MaxSubscribes = 2
  MaxRestarts = 0
INVARIANTS CursorIsComplete
PROPERTIES FifoNeverGaps EveryWriteArrives
\* The bounds end every behavior.
CHECK_DEADLOCK FALSE

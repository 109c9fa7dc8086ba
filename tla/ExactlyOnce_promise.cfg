\* One session whose connection drops and comes back, and a server that
\* restarts: the path implements its promise and, under fairness, every write
\* settles.
SPECIFICATION FairSpec
CONSTANTS
  Sessions = {s1}
  Legacy = {}
  Capacity = 2
  MaxSessions = 2
  SendMayThrow = FALSE
  MaxSeq = 3
  MaxConns = 2
  MaxRestarts = 1
  MaxWrites = 3
INVARIANTS AppliedAtMostOnce Inv
PROPERTIES AppliedInOrder KeepingUpIsNeverRefused ImplementsAtMostOnce EveryWriteSettles
\* The bounds end every behavior.
CHECK_DEADLOCK FALSE

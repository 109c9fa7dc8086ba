\* Everything at once: lost messages, throwing sends, an application that
\* unsubscribes for a while, a server that restarts.
SPECIFICATION Spec
CONSTANTS
  Capacity = 2
  MayUnsubscribe = TRUE
  SendMayThrow = TRUE
  Lossy = TRUE
  MaxWrites = 4
  MaxConns = 3
  MaxSubscribes = 2
  MaxRestarts = 1
INVARIANTS NothingElseIsMissing DeliveredInOrder
\* The bounds end every behavior.
CHECK_DEADLOCK FALSE

\* A failed statement that had added an edge, then a write, then another
\* failed statement, in one transaction.
SPECIFICATION StoreSpec
CONSTANTS
  Labels = {A}
  Types = {T}
  Values = {v}
  Null = null
  Absent = absent
  NoIndex = noindex
  Stale = stale
  None = none
  Required = {}
  Unique = {A}
  RearmAfter = 1
  ExtIds = {}
  MaxNodes = 2
  MaxEdges = 1
  MaxLoad = 1
  NewNodes <- Labelled
  A = A
  v = v
  MaxLog = 2
  MaxTxs = 1
INVARIANT CommittedGraphIsValid
\* The bounds end every behavior.
CHECK_DEADLOCK FALSE

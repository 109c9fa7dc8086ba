\* One transaction of up to three logged writes, with statements that fail and
\* schema operations, over a graph that was loaded with up to two elements.
SPECIFICATION StoreSpec
CONSTANTS
  Labels = {A}
  Types = {T}
  Values = {v, null}
  Null = null
  Absent = absent
  NoIndex = noindex
  Stale = stale
  None = none
  Required = {A}
  Unique = {}
  RearmAfter = 2
  ExtIds = {2}
  MaxNodes = 2
  MaxEdges = 2
  MaxLoad = 2
  NewNodes <- Labelled
  A = A
  v = v
  MaxLog = 3
  MaxTxs = 1
INVARIANTS StoreTypeOK NothingDerivedIsStale
  ChangesCoverTheTransaction ChecksCoverTheTransaction
PROPERTIES ImplementsGraphTx
VIEW Seen
CONSTRAINT NotStrayed
\* The bounds end every behavior.
CHECK_DEADLOCK FALSE

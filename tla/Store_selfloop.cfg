\* One node with an edge to itself: deleted, and the delete rolled back.
SPECIFICATION StoreSpec
CONSTANTS
  Labels = {A}
  Types = {T}
  Values = {v}
  Null = null
  Absent = absent
  NoIndex = noindex
  Stale = stale
  None = none
  Required = {}
  Unique = {}
  RearmAfter = 1
  ExtIds = {}
  MaxNodes = 1
  MaxEdges = 1
  MaxLoad = 2
  NewNodes <- Labelled
  A = A
  v = v
  MaxLog = 1
  MaxTxs = 1
INVARIANT MirrorsAgree
\* The bounds end every behavior.
CHECK_DEADLOCK FALSE

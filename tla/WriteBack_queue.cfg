\* Three writes, two attempts each, a snapshot and a crash.
SPECIFICATION FairSpec
CONSTANTS
  MaxPending = 2
  Attempts = 2
  MaxWrites = 3
  MaxSaves = 1
  MaxCrashes = 1
INVARIANTS NoSilentLoss NothingIsStranded UpstreamInOrder
PROPERTIES EveryWriteLeaves
\* The bounds end every behavior.
CHECK_DEADLOCK FALSE

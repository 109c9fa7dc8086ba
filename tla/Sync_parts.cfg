\* The connection manager, the demand-fill and the standing query
SPECIFICATION SyncSpec
CONSTANTS
  MaxAttempt = 2
  MaxDials = 4
  Scopes = {1, 2}
  Wants = {{1}, {1, 2}}
  Priorities = {0, 1}
  LoadAttempts = 2
  MaxConcurrent = 1
  MaxDemands = 2
  Results <- MCResults
  Fails = Fails
  Stored <- MCStored
  Reads = {1}
  MaxVersion = 2
  MaxTurns = 2
INVARIANTS
  OneChain
  UpIsLive
  GateIsSound
  CompleteRowsAreOneVersion
  QuietClientIsCurrent
PROPERTIES
  Reconnects
  EveryDemandEnds
\* A closed manager stops, and so does a part whose bounds are used up.
CHECK_DEADLOCK FALSE

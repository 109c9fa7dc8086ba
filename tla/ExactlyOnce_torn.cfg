\* Two sessions, one of them a legacy client, and a registry with room for
\* one window and one retained id; listeners and fan-out sends may throw.
SPECIFICATION Spec
CONSTANTS
  Sessions = {s1, s2}
  Legacy = {s2}
  Capacity = 1
  MaxSessions = 1
  SendMayThrow = TRUE
  MaxSeq = 2
  MaxConns = 2
  MaxRestarts = 0
  MaxWrites = 3
CONSTRAINT FewWrites
INVARIANTS AckedIsApplied WindowIsBounded
\* The bounds end every behavior.
CHECK_DEADLOCK FALSE

SPECIFICATION Spec
CONSTANTS
  Tails <- MCTails
  Keys = {k1}
  Wants = {1, 3}
  ChunkSize = 2
  MaxCommit = 2
  MaxLen = 6
  MaxRequests = 3
  PoolTokens = 40
  BoundaryKeep = 8
  SessionKeep = 0
  ChatsKept = 1
  HealthProbes = TRUE
  CrashInMatch = FALSE
CHECK_DEADLOCK FALSE
INVARIANT NoFault

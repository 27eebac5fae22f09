SPECIFICATION Spec
CONSTANTS
  Tails <- MCTails
  Keys = {k1}
  Wants = {1, 3}
  ChunkSize = 2
  MaxCommit = 2
  MaxLen = 5
  MaxRequests = 3
  PoolTokens = 40
  BoundaryKeep = 8
  SessionKeep = 2
  ChatsKept = 2
  HealthProbes = FALSE
  CrashInMatch = FALSE
CHECK_DEADLOCK FALSE
INVARIANTS
  NoFault
  PinIsServable
  SavedIsServable

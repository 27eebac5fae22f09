SPECIFICATION FairSpec
CONSTANTS
  Tails <- MCTails
  Keys = {k1, k2}
  Wants = {2}
  ChunkSize = 2
  MaxCommit = 2
  MaxLen = 4
  MaxRequests = 3
  PoolTokens = 40
  BoundaryKeep = 2
  SessionKeep = 1
  ChatsKept = 1
  HealthProbes = TRUE
  CrashInMatch = TRUE
CHECK_DEADLOCK FALSE
INVARIANTS
  TypeOK
  RowsHaveHolders
PROPERTY
  EveryRequestEnds

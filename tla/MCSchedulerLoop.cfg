SPECIFICATION FairSpec
CONSTANTS
  TokenCapacity = 14
  PageSize = 2
  ContextLen = 20
  AllowAutoTruncate = TRUE
  Reqs = {1, 2, 3}
  Lens = {1, 7, 9}
  Wants = {1, 5}
  ChunkSize = 4
  MaxRunning = 3
  Overlaps = {TRUE, FALSE}
INVARIANTS TypeOK ScheduledOnce MiddleChunksCounted NoFault FullFlagHidesNothing
PROPERTY EveryRequestEnds

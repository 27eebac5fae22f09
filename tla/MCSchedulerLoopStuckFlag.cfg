SPECIFICATION Spec
CONSTANTS
  TokenCapacity = 24
  PageSize = 8
  ContextLen = 64
  AllowAutoTruncate = FALSE
  Reqs = {1, 2}
  Lens = {1, 16}
  Wants = {1}
  ChunkSize = 8
  MaxRunning = 2
  Overlaps = {TRUE}
INVARIANT FullFlagHidesNothing

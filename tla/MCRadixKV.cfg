SPECIFICATION FairSpec
CONSTANTS
  Reqs = {1, 2}
  NumPages = 6
  PageSize = 2
  Sampled = {1}
  Sent <- MCSent
  ChunkSize = 6
  Depth = 2
INVARIANTS TypeOK OneOwnerPerPage NoMemoryLeak LocksAreHolders CountersExact SiblingsDiffer KVMatchesTokens NoFault
PROPERTY DrainsWhenQuiet

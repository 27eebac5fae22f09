SPECIFICATION FairSpec
CONSTANTS
  p1 = p1
  p2 = p2
  Prefills = {p1}
  Chunks = 3
  MaxAborts = 2
  NodeFailures = TRUE
PROPERTIES EveryTransferEnds AckTargetsDrain

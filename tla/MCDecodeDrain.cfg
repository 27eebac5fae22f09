SPECIFICATION Spec
CONSTANTS
  p1 = p1
  p2 = p2
  Prefills = {p1, p2}
  Chunks = 2
  MaxAborts = 1
  NodeFailures = TRUE
SYMMETRY Symmetry
INVARIANTS TypeOK DrainedReleaseIsQuiet ServedIsComplete

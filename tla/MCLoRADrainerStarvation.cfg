SPECIFICATION FairSpec
CONSTANTS
  x = x
  y = y
  z = z
  Adapters = {x, y, z}
  Base = none
  Requested = {x, y, z}
  MaxLoras = 1
  MaxRunning = 3
  MaxWaiting = 2
  Threshold = 1
  MinNew = 2
  MaxNew = 3
PROPERTY StarvingIsServed

SPECIFICATION FairSpec
CONSTANTS
  x = x
  y = y
  z = z
  Adapters = {x, y, z}
  Base = none
  Requested = {x, y, z}
  MaxLoras = 2
  MaxRunning = 4
  MaxWaiting = 2
  Threshold = 1
  MinNew = 4
  MaxNew = 4
PROPERTY StarvingIsServed

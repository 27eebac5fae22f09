SPECIFICATION FairSpec
CONSTANTS
  x = x
  y = y
  z = z
  Adapters = {x, y}
  Base = none
  Requested = {x, y}
  MaxLoras = 1
  MaxRunning = 3
  MaxWaiting = 2
  Threshold = 1
  MinNew = 2
  MaxNew = 12
PROPERTY StarvingIsServed

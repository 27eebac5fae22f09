SPECIFICATION FairSpec
CONSTANTS
  x = x
  y = y
  z = z
  Adapters = {x, y}
  Base = none
  Requested = {x, y, none}
  MaxLoras = 1
  MaxRunning = 3
  MaxWaiting = 3
  Threshold = 1
  MinNew = 2
  MaxNew = 3
PROPERTY StarvingIsServed

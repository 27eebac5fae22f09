SPECIFICATION FairSpec
CONSTANTS
  a = a
  b = b
  c = c
  Names = {a, b, c}
  Pinned = {b}
  Startup <- MCStartup
  Ranks = {k1}
  MaxLoaded = 2
  MaxPerBatch = 2
  Sent <- MCSingle
  Client = client
  MaxUpdates = 1
  Answers = {"output", "echo"}
  Updatable = {a, b, c}
  Invalid = {}
  MaxFaults = 0
PROPERTY EverLoadedIsServed
CHECK_DEADLOCK FALSE

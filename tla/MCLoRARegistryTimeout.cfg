SPECIFICATION Spec
CONSTANTS
  a = a
  b = b
  c = c
  Names = {a, b, c}
  Pinned = {b}
  Startup <- MCStartup
  Ranks = {k1}
  MaxLoaded = 2
  MaxPerBatch = 2
  Sent <- MCSingle
  Client = client
  MaxUpdates = 1
  Answers = {"output", "output_status"}
  Updatable = {a, b, c}
  Invalid = {}
  MaxFaults = 0
INVARIANT InUseIsLoaded
CHECK_DEADLOCK FALSE

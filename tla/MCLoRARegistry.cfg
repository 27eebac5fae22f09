SPECIFICATION FairSpec
CONSTANTS
  a = a
  b = b
  c = c
  Names = {a, b, c}
  Pinned = {b}
  Startup <- MCStartup
  Ranks = {k1, k2}
  MaxLoaded = 2
  MaxPerBatch = 2
  Sent <- MCRequests
  Client = client
  MaxUpdates = 1
  Answers = {"output", "echo_status"}
  Updatable = {a, c}
  Invalid = {3}
  MaxFaults = 1
INVARIANTS InUseIsLoaded OfferedIsLoaded NameRegisteredOnce
PROPERTY EverLoadedIsServed
CHECK_DEADLOCK FALSE

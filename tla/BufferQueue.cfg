\* A client that keeps the player fed, and one that also stops and clears it.
SPECIFICATION FairSpec
CONSTANTS
  BQ_SLOTS = 3
  FRAMES = 2
  STEP = 3
  Sizes <- SomeSizes
  DrainCap = 1
  Clients <- BothClients
  MaxBuffers = 5
INVARIANTS NoSlip CountMatchesCallbacks
PROPERTIES KeepsPromise BuffersComeBack

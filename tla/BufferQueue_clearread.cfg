SPECIFICATION Spec
CONSTANTS
  BQ_SLOTS = 3
  FRAMES = 2
  STEP = 3
  Sizes <- SomeSizes
  DrainCap = 1
  Clients <- ClearingClient
  MaxBuffers = 5
INVARIANTS ReadsInsideBuffer

SPECIFICATION Spec
CONSTANTS
  p1 = p1
  p2 = p2
  p3 = p3
  p4 = p4
  c1 = c1
  c2 = c2
  Objects <- Addresses
  Clients <- Threads
  Null = Null
  Mixer = Mixer
  NoOne = NoOne
  MAX_PLAYERS = 2
  SPENT = 1
  MaxPending = 1
  Feeds = FALSE
INVARIANTS ReclaimsOnlyFinished

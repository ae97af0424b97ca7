SPECIFICATION InputSpec
CONSTANTS
  RVE_QUEUE = 10
  MAX_TEXT = 4
  MARGIN = 1
  CHUNK = 2
  FieldMax = 3
  Reopens = FALSE
  MaxSessions = 2
  Pads = {p1, p2}
  NoPad = NoPad
  Burst = 1
  CursorQueue = 5
INVARIANTS ReplacementExact KeyNeverStuck FingersInOrder
PROPERTIES PressHeld QueueDrains TapsArrive

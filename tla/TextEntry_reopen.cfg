\* The game starts text input again while a replacement is still queued.
SPECIFICATION Spec
CONSTANTS
  RVE_QUEUE = 24
  MAX_TEXT = 4
  MARGIN = 1
  CHUNK = 2
  FieldMax = 2
  Reopens = TRUE
  MaxSessions = 2
INVARIANTS ReplacementExact

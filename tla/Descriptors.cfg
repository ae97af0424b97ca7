\* Every table full at one entry or two; fdopen only where nothing is cached.
SPECIFICATION Spec
CONSTANTS
  Threads = {t1, t2}
  MaxFd = 2
  BigFiles = {b1, b2}
  PackedFiles = {p1}
  UsymFiles = {u1}
  PACK_HANDLES = 1
  PACK_FILE_SLOTS = 1
  RA_SLOTS = 1
  RA_PAGES = 1
  MAX_SINK_FDS = 1
  RA_PAGE = 1
  PACK_CACHE_SIZE = 2
  SIZE = 2
  MaxRead = 2
  Seeks <- SomeSeeks
  FdopenAny = FALSE
SYMMETRY Interchangeable
INVARIANTS NumbersInStep
PROPERTIES ReadsAsFiles

\* File maps are shorter than a big map here: a longer one can deadlock.
SPECIFICATION Spec
CONSTANTS
  Threads = {t1, t2}
  Files = {f1}
  PAGES = 4
  STEP = 4
  HEAP = 2
  MMAP_FALLBACK_MAX = 1
  MAPC_N = 1
  WRITABLE_FILE_MAPS = 2
  AnonLens = {1}
  OverLens = {7}
  RoLens = {1}
  SharedLens = {3}
  MaxFails = 1
  MaxMmaps = 3
  Prefixes = {1}
SYMMETRY Interchangeable
\* The clients are done after MaxMmaps maps, all unmapped.
CHECK_DEADLOCK FALSE
INVARIANTS ReservedOnce DataInPlace UnsavedIsTracked

\* Two threads, two values ever set and two keys for them.
SPECIFICATION ThreadsSpec
CONSTANTS
  Threads = {t1, t2}
  NoThread = NoThread
  MAX_SYNC_OBJS = 2
  MaxDepth = 2
  Callers = {t1, t2}
  FAKE_KEYS_MAX = 2
  Rounds = 2
  MaxValues = 2
INVARIANTS HoldersOwn AllAgree ReadsOwnValue CalledOnce
PROPERTIES WaitsReturn

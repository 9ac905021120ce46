SPECIFICATION FairSpec
CONSTANTS
  Timers = {t1, t2, t3}
  Flushers = {}
  None = None
  MaxRetries = 2
  MaxRev = 3
  MaxFailures = 2
INVARIANTS NoLostSave IdleCacheInvalidated
PROPERTIES EverythingSaved
CHECK_DEADLOCK FALSE

SPECIFICATION FairSpec
CONSTANTS
  Timers = {t1, t2}
  Flushers = {f1}
  None = None
  MaxRetries = 1
  MaxRev = 2
  MaxFailures = 2
INVARIANTS OneSaveInFlight IndicatorBacked YieldIsBacked
PROPERTIES IndicatorSettles
CHECK_DEADLOCK FALSE

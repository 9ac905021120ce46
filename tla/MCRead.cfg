SPECIFICATION FairSpec
CONSTANTS
  r1 = r1
  r2 = r2
  r3 = r3
  p1 = p1
  p2 = p2
  bad = bad
  Wants <- MCWants
  Cancellable = {r2}
  Requests = {r1, r2, r3}
  Paths = {p1, p2, bad}
  BadPaths = {bad}
  MaxBatch = 2
  SubmitBuf = 1
  FastPath = TRUE
  MaxChanges = 1
INVARIANTS RepliedOnce OwnFreshAnswer EmptyOnlyIfCancelled EarlyAreDrained
PROPERTIES SubmitsReturn CloseReturns
CHECK_DEADLOCK FALSE

SPECIFICATION Spec
CONSTANTS
  Tunnels = {t1}
  Monitors = {m1, m2}
  NoMonitor = NoMonitor
  Handlers = {h1}
  Requests = {}
  Kinds = {"start", "stop"}
  FailThreshold = 2
  MaxCalls = 2
PROPERTIES StopReturns
CHECK_DEADLOCK FALSE

SPECIFICATION Spec
CONSTANTS
  Tunnels = {t1}
  Monitors = {m1, m2, m3}
  NoMonitor = NoMonitor
  Handlers = {h1}
  Requests = {r1}
  Kinds = {"start", "stop", "restart", "enable", "disable", "allon", "alloff", "checknow"}
  FailThreshold = 2
  MaxCalls = 4
INVARIANTS NoGhost StoppedStaysDown WatchedWhileEnabled
PROPERTIES DisabledStopReturns
CHECK_DEADLOCK FALSE

SPECIFICATION FairSpec
CONSTANTS
  kt = kt
  kb = kb
  nt = nt
  w1 = w1
  w2 = w2
  id1 = id1
  id2 = id2
  AnyWAN = AnyWAN
  NoWAN = NoWAN
  NoTunnel = NoTunnel
  Tunnels = {nt}
  KernelTunnels = {}
  WANs = {w1}
  NdmsID <- MCNdmsID
  ISPInterface <- MCISPInterface
  PingChecked = {}
  MayV6 = {}
  SupportsASC = FALSE
  Handlers = {h1, h2}
  Kinds = {"start", "stop", "restart"}
  BootKind = "warm"
  MaxEvents = 3
  MaxExt = 0
  MaxFails = 0
  MaxGiveUps = 0
INVARIANTS ExclusiveExecution CacheMatchesRouter IntentMatchesRouter RoutesMatchRouter
PROPERTIES HandlersFinish
CHECK_DEADLOCK FALSE

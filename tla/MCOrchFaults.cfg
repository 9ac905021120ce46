SPECIFICATION Spec
CONSTANTS
  kt = kt
  kb = kb
  nt = nt
  w1 = w1
  w2 = w2
  id1 = id1
  id2 = id2
  AnyWAN = AnyWAN
  NoWAN = NoWAN
  NoTunnel = NoTunnel
  Tunnels = {kt}
  KernelTunnels = {kt}
  WANs = {w1}
  NdmsID <- MCNdmsID
  ISPInterface <- MCISPInterface
  PingChecked = {}
  MayV6 = {}
  SupportsASC = FALSE
  Handlers = {h1, h2}
  Kinds = {"stop", "toggle", "delete"}
  BootKind = "warm"
  MaxEvents = 2
  MaxExt = 1
  MaxFails = 1
  MaxGiveUps = 1
INVARIANTS TypeOK HolderHasLock  DeletedIsGone
CHECK_DEADLOCK FALSE

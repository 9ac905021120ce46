SPECIFICATION Spec
CONSTANTS
  kt = kt
  kb = kb
  nt = nt
  w1 = w1
  w2 = w2
  id1 = id1
  id2 = id2
  AnyWAN = AnyWAN
  NoWAN = NoWAN
  NoTunnel = NoTunnel
  Tunnels = {nt}
  KernelTunnels = {}
  WANs = {w1, w2}
  NdmsID <- MCNdmsID
  ISPInterface <- MCISPInterface
  PingChecked = {nt}
  MayV6 = {}
  SupportsASC = FALSE
  Handlers = {h1, h2}
  Kinds = {"start", "stop", "edit", "quiesce", "reboot", "crash", "wan"}
  BootKind = "warm"
  MaxEvents = 3
  MaxExt = 0
  MaxFails = 0
  MaxGiveUps = 0
SYMMETRY HandlerSymmetry
INVARIANTS SuspendedOnlyWhileWANDown
PROPERTIES IntentKept
CHECK_DEADLOCK FALSE

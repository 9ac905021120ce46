SPECIFICATION FairSpec
CONSTANTS
  Ifaces = {i1}
  Keys = {}
  Readers = {}
  Fields = {"conf", "address"}
  Worker = Worker
  Commands = {c1, c2}
  CommandKinds = {"create", "delete", "up", "address", "clear", "read"}
  NoKey = NoKey
  NoEntry = NoEntry
  NoCall = NoCall
  NoResult = NoResult
  Error = Error
  Absent = Absent
  NoOne = NoOne
  MaxChanges = 3
  MaxOutside = 2
  MaxFetchFails = 0
  MaxFaults = 2
INVARIANTS ViewCatchesUp
CHECK_DEADLOCK FALSE
SYMMETRY CommandSymmetry

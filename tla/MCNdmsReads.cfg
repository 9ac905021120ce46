SPECIFICATION FairSpec
CONSTANTS
  Ifaces = {i1}
  Keys = {i1}
  Readers = {r1, r2}
  Fields = {"ipv4"}
  Worker = Worker
  Commands = {}
  CommandKinds = {}
  NoKey = NoKey
  NoEntry = NoEntry
  NoCall = NoCall
  NoResult = NoResult
  Error = Error
  Absent = Absent
  NoOne = NoOne
  MaxChanges = 3
  MaxOutside = 2
  MaxFetchFails = 1
  MaxFaults = 0
INVARIANTS HooksReachStores
PROPERTIES ReadsAreFresh HooksDrain
CHECK_DEADLOCK FALSE

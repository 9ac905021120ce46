SPECIFICATION Spec
CONSTANTS
  Watchdog = w
  Users = {u1}
  Reloaders = {r1}
  NoOne = none
  Budget = 1
  MaxGens = 3
  MaxEvents = 2
INVARIANTS StopSticks OneEngine BlameOnlyCrashes BudgetHonest
PROPERTIES EngineRecovers
CHECK_DEADLOCK FALSE

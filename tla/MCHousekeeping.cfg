SPECIFICATION MCSpec
CONSTANTS
  pidA = pidA
  pidB = pidB
  Pids = {pidA, pidB}
  Hostings <- MCHostings
  Loads <- MCLoads
  NCpus = 8
  MaxTracked = 1
  Capacity = 3
  MaxPoints = 7
  Attempts = 2
  Rooms = {2, 3}
  BaseWait = 1
  MaxWait = 4
  KeeperKills = 2
  Budget = 3
  Trigger = 10
  Release = 8
  Cooldown = 2
  FileSize = 2
  Most = 1
  Writes = 3
  Apps = {"editor", "indexer"}
  SafetyTier <- MCSafetyTier
  ControlGroup <- MCControlGroup
  MaxReclaimed = 1
  Offered = {0, 1, 3}
  Backlog = 2
  MaxActs = 3
INVARIANTS
  HousekeepingTypeOK
  EveryCapIsOnRecord
  SnapshotsAreInOrder
  SwapIsThere
PROPERTIES
  DropGivesBack
  CalmIsReleased
  PlayersLeaveIdle
  PressureIsRelieved
  AppsHearTheEnd
  WorkersMakeRoom
  DashboardConverges

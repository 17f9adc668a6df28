CONSTANTS
  Apps <- QApps
  Units <- QUnits
  Machines <- QMachines
  UnitsOf <- QUnitsOf
  Leader <- QLeader
  MachineOf <- QMachineOf
  PauseKinds <- QPauseKinds
  Groups <- QGroups
  FollowerFirst <- QFollowerFirst
  HasOrigin <- QHasOrigin
  MaxRuns = 3
  NoApp = NoApp
SPECIFICATION FairSpec
INVARIANTS UpgradedUnderLock UnitByUnit SkippedIsUpgraded
PROPERTIES Termination Refinement

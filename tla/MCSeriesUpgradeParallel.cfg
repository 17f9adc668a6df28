CONSTANTS
  Apps <- PApps
  Units <- PUnits
  Machines <- PMachines
  UnitsOf <- PUnitsOf
  Leader <- PLeader
  MachineOf <- PMachineOf
  Groups <- PGroups
  HasOrigin <- PHasOrigin
  SecondaryFirst <- PSecondaryFirst
  PauseKinds <- PPauseKinds
  CharmOf <- PCharmOf
  IsAsync = TRUE
  NoUnit = NoUnit
SPECIFICATION FairSpec
INVARIANTS
  UpgradedOnce
  CompletedIsUpgraded
  PausedWhileLeaderUpgrades
  RoleOrder
PROPERTIES
  Termination
  Refinement

CONSTANTS
  Apps <- SApps
  Units <- SUnits
  Machines <- SMachines
  UnitsOf <- SUnitsOf
  Leader <- SLeader
  MachineOf <- SMachineOf
  Groups <- SGroups
  HasOrigin <- SHasOrigin
  SecondaryFirst <- SSecondaryFirst
  PauseKinds <- SPauseKinds
  CharmOf <- SCharmOf
  IsAsync = FALSE
  NoUnit = NoUnit
SPECIFICATION FairSpec
INVARIANTS
  EarlierGroupsUpgraded
  ResumedWhenDone

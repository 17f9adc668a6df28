CONSTANTS
  Apps <- CApps
  Units <- CUnits
  Machines = {0}
  UnitsOf <- CUnitsOf
  Leader <- CLeader
  MachineOf <- CMachineOf
  Groups <- CGroups
  HasOrigin <- CHasOrigin
  SecondaryFirst <- CSecondaryFirst
  PauseKinds <- CPauseKinds
  CharmOf <- CCharmOf
  IsAsync = TRUE
  NoUnit = NoUnit
SPECIFICATION Spec
INVARIANTS
  UpgradedOnce

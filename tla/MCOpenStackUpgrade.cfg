CONSTANTS
  Apps <- MCApps
  Units <- MCUnits
  UnitsOf <- MCUnitsOf
  Groups <- MCGroups
  Upgradable = {"keystone", "glance", "heat"}
  HA = {"ks0", "ks1", "he0", "he1"}
  MaxRuns = 2
SPECIFICATION FairSpec
INVARIANTS
  UpgradedWhenDone
  PausedUnderHA
PROPERTIES
  Refinement
  Termination

CONSTANTS
  Models <- MCModels
  Names <- MCNames
  Starts <- MCStarts
  Charms = {"percona-cluster", "keystone", "nova-compute", "easyrsa", "custom"}
  MaxRuns = 2
SPECIFICATION Spec
INVARIANTS UpgradedExactlyOnce GroupsInOrder

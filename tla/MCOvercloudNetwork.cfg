CONSTANTS
  Deployments <- MCDeployments
  MachinesOf <- MCMachinesOf
  Requests <- MCRequests
  NoLimit = 9
  MaxMacs = 3
  MaxRuns = 3
SPECIFICATION Spec
INVARIANTS OneExtPort CoversMachines NamedOnce GuestsReachable CharmsConfigured RoutesTakenUp

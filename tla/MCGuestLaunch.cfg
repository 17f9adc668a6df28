CONSTANTS
  Attempts = 3
  ActivePolls = 2
  RemovedPolls = 2
  MaxServers = 8
  MaxLost = 1
  MaxRuns = 2
SPECIFICATION FairSpec
INVARIANTS OneServerPerName NothingLeftBehind CleanAfterPass
PROPERTY Termination

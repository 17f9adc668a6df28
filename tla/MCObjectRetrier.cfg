CONSTANTS
  Configs <- MCConfigs
  Exceptions = {"ConnectFailure", "Conflict", "KeyError"}
  NeverRetry = {"KeyError"}
SPECIFICATION RSpec
INVARIANTS CallsBounded GivesUpOnlyWhenSpent

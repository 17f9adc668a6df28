CONSTANTS
  Services = {"keystone", "glance"}
  Detect = "keystone"
SPECIFICATION OSpec
INVARIANT StopsAtLastRelease
PROPERTY SingleIncrement

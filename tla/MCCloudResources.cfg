CONSTANTS
  Images <- MCImages
  UrlOf <- MCUrlOf
  WithProperties = {"cirros_alt"}
  Flavors = {"m1.tiny", "hugepages", "vtpm-2"}
  WithSpecs = {"hugepages", "vtpm-2"}
  Attempts = 2
  StatusPolls = 2
  MaxRuns = 3
SPECIFICATION Spec
INVARIANTS ResourcesUsable KeyMatches
PROPERTY Termination

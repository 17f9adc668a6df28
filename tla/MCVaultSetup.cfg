CONSTANTS
  Units <- MCUnits
  Polls = 2
  MaxRuns = 3
  MaxRestarts = 1
SPECIFICATION Spec
INVARIANTS OneVault UnsealedWhenDone CaUploaded
PROPERTY Termination

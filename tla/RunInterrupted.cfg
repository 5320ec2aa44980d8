SPECIFICATION Spec
CONSTANTS
  engineA = engineA
  engineB = engineB
  Engines <- MCEngines
  Sweeper = Sweeper
  NoOwner = NoOwner
  MaxToken = 2
  MaxFaults = 0
  Disturbances = {"sweep"}
INVARIANTS
  InterruptedRunResumable
CHECK_DEADLOCK FALSE

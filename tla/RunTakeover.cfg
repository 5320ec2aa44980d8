SPECIFICATION Spec
CONSTANTS
  engineA = engineA
  engineB = engineB
  Engines <- MCEngines
  Sweeper = Sweeper
  NoOwner = NoOwner
  MaxToken = 3
  MaxFaults = 0
  Disturbances = {"sweep"}
SYMMETRY MCSymmetry
INVARIANTS
  
  StageOnce
  OwnersInOrder
  ManifestFollowsOwner
CHECK_DEADLOCK FALSE

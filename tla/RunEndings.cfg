SPECIFICATION Spec
CONSTANTS
  engineA = engineA
  engineB = engineB
  Engines <- MCEngines
  Sweeper = Sweeper
  NoOwner = NoOwner
  MaxToken = 2
  MaxFaults = 1
  Disturbances = {"cancel", "sweep"}
SYMMETRY MCSymmetry
INVARIANTS
  TypeOK
  OneEnding
PROPERTIES
  EndedRunNotRestarted
CHECK_DEADLOCK FALSE

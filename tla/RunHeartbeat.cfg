SPECIFICATION FairSpec
CONSTANTS
  engineA = engineA
  engineB = engineB
  Engines <- MCEngines
  Sweeper = Sweeper
  NoOwner = NoOwner
  MaxToken = 2
  MaxFaults = 0
  Disturbances = {"drain"}
PROPERTIES
  LostOwnerStops
CHECK_DEADLOCK FALSE

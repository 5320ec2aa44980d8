CONSTANTS
  MaxTasks = 3
  MaxMates = 2
  MaxInFlight = 2
  MaxFaults = 1
  MaxLoad = 3
  MaxCarried = 1
  MaxDelivery = 2
SPECIFICATION FairSpec
INVARIANTS
  TypeOK
  CompletedHasResult
  AssignmentReachesTeammate
  StoreFollowsRegistry
PROPERTIES
  CheckpointGivesWayToResult
  TasksEnd
CHECK_DEADLOCK FALSE

SPECIFICATION FairSpec
CONSTANTS
  MaxCalls = 2
  Tasks = {"t"}
  Retention = "remove"
  MaximumTasks = 1
  MaxEpoch = 2
  Faults = {"docker", "stop", "probe", "controller", "api", "takeover", "overlap"}

  
PROPERTIES
  NewestKeepsWorker
  CallsEnd
  UnfinishedGo
CHECK_DEADLOCK FALSE

SPECIFICATION Spec
CONSTANTS
  MaxCalls = 3
  Tasks = {"t"}
  Retention = "remove"
  MaximumTasks = 1
  MaxEpoch = 2
  Faults = {"docker", "rpc", "stop", "probe", "persist", "cancel", "controller",
            "api", "takeover"}
INVARIANTS
  TypeOK
  
CHECK_DEADLOCK FALSE

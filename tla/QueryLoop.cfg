SPECIFICATION Spec
CONSTANTS
  write = write
  topicA = topicA
  topicB = topicB
  update = update
  Calls <- MCCalls
  Unsafe <- MCUnsafe
  Parallel <- MCParallel
  Updates <- MCUpdates
  MaxDelivery = 2
  Candidates = 2
  ContextLimit = 1
  OutputLimit = 1
  ModelAttempts = 2
  CallLimit = 3
  MaxTurns = 2
  MaxWaits = 1
  MaxBoots = 2
  MaxFaults = 1
SYMMETRY MCSymmetry
INVARIANTS
  UpdateShownOnce
  
  SpendWithinLimit
PROPERTIES
  ImplementsOutbox
CHECK_DEADLOCK FALSE

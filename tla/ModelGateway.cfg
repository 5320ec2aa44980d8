CONSTANTS
  report = report
  NoOp = NoOp
  h1 = h1
  h2 = h2
  Ops <- MCOps
  Handlers <- MCHandlers
  MaxFence = 2
  CallLimit = 2
  TransportAttempts = 2
  Models = 2
  MaxFaults = 2
SPECIFICATION FairSpec
INVARIANTS
  TypeOK
  CallsWithinLimit
  AttemptCalledOnce
  CalledIsPaid
PROPERTIES
  NoBlindRepeat
  EveryInvocationEnds
  ImplementsAnswer

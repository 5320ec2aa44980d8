SPECIFICATION FairSpec
CONSTANTS
  engineA = engineA
  poolA = poolA
  engineB = engineB
  ownerA = ownerA
  ownerB = ownerB
  NoOwner = NoOwner
  Managers <- MCManagers
  OwnerIds <- MCOwnerIds
  OwnerOf <- MCOwnerOf
  LeaseSeconds = 2
  MaxToken = 3
  MaxStrays = 1
INVARIANTS
  TypeOK
  EpochHasOneOwner
PROPERTIES
  EpochNeverRevived
  CommitsInEpochOrder
  OnlyOwnerEndsLiveEpoch
  DesertedEpochLapses
  ImplementsEpochLock
CHECK_DEADLOCK FALSE

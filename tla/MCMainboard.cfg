CONSTANTS
  HeaterOutputs = {0, 1, 8}
  Timeout = 2
  WatchDogTime = 2
  HasWatchDog = TRUE
  LossyBus = TRUE
  Garbage = {}
SPECIFICATION FairSpec
INVARIANTS
  TypeOK
  FailSafe
PROPERTIES
  ImplementsLease
  OffTakesEffect
  HungServerIsReset

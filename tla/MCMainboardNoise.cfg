CONSTANTS
  HeaterOutputs = {0, 1}
  Timeout = 3
  WatchDogTime = 2
  HasWatchDog = FALSE
  LossyBus = FALSE
  Garbage <- MCNoise
SPECIFICATION Spec
INVARIANT FailSafe

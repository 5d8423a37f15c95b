CONSTANTS
  THREAD_INTERVAL_SECONDS = 5
  KEEPALIVE_INTERVAL_SECONDS = 10
  RECONNECT_SECONDS = 10
  RoundsPerTick = {6}
  ReceiveTimeout = 36
  Intervals = {0}
  LateCallbacks = TRUE
  MaxEvents = 2
SPECIFICATION FairSpec
PROPERTY StaysConnected

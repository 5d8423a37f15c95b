CONSTANTS
  THREAD_INTERVAL_SECONDS = 5
  KEEPALIVE_INTERVAL_SECONDS = 10
  RECONNECT_SECONDS = 10
  RoundsPerTick = {6}
  ReceiveTimeout = 36
  Intervals = {0, 60}
  LateCallbacks = FALSE
  MaxEvents = 3
SPECIFICATION FairSpec
INVARIANTS
  TypeOK
  NoStrandedObject
  SettingUnderWay
PROPERTIES
  HealthyStays
  StaysConnected
  SettingsReach

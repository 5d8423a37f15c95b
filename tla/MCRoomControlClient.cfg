CONSTANTS
  MinSetTemperature <- MCMin
  MaxSetTemperature <- MCMax
  SetTempDelta = 4
  InitSetTemperature = 320
  InitRoomTemperature = 420
  HalfHysteresis = 5
  Temperatures <- MCTemperatures
  NoTemperature = NoTemperature
  HasThermostat = TRUE
  MaxCalls = 3
SPECIFICATION Spec
INVARIANT ClientShowsTemperature

CONSTANTS
  BASE = 4
  HCM <- MCHeader
  START = 3
  SocketLimit = 8
  SerialLimit = 4
  Links = {"toServer", "toPhone", "fromModem"}
  Frames <- MCFrames
  MaxFrames = 3
  Noise <- Silence
SPECIFICATION Spec
INVARIANTS TypeOK InOrder NothingWaits
PROPERTY ImplementsChannel
CHECK_DEADLOCK FALSE

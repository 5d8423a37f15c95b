CONSTANTS
  Unknown = Unknown
  NoName = NoName
  NoConn = NoConn
  Conns = {c1, c2, c3}
  Names = {phone}
  MaintenanceInterval = 2
  ConnectingTimeout = 1
  ReceiveTimeout = 4
SPECIFICATION Spec
INVARIANT DisconnectsPaired

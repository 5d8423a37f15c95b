CONSTANTS
  Unknown = Unknown
  NoName = NoName
  NoConn = NoConn
  Conns = {c1, c2}
  Names = {phone, NoName}
  MaintenanceInterval = 2
  ConnectingTimeout = 1
  ReceiveTimeout = 4
SPECIFICATION FairSpec
PROPERTY DeadIsReaped

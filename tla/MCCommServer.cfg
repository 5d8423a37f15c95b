CONSTANTS
  Unknown = Unknown
  NoName = NoName
  NoConn = NoConn
  Conns = {c1, c2, c3}
  Names = {phone, NoName}
  MaintenanceInterval = 2
  ConnectingTimeout = 1
  ReceiveTimeout = 4
SYMMETRY Symmetry
SPECIFICATION Spec
INVARIANTS
  TypeOK
  LiveIsConnected
  AcceptorClientAlive
  ReapedIsTakenBack
PROPERTY
  ImplementsPresence

SPECIFICATION Spec
CONSTANTS
  Files <- MCFiles
  Missing <- MCMissing
  Malformed <- MCMalformed
  Extensions <- MCExtensions
  UintRange = 4096
  LongMax = 16383
  PortRange = 65535
  Address <- MCAddress
  Headers <- MCHeaders
INVARIANTS
  TypeOK
  BlocksRead
  SocketsShared
  RightServer
  ListenersStayOpen
CHECK_DEADLOCK FALSE

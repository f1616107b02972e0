SPECIFICATION Spec
CONSTANTS
  Files <- MCFiles
  Missing <- MCMissing
  Malformed <- MCMalformed
  Extensions <- MCExtensions
  UintRange = 4096
  LongMax = 16383
  PortRange = 65535
  Address <- MCAddress
  Headers <- MCHeaders
INVARIANT
  SettingsInAnyOrder
CHECK_DEADLOCK FALSE

SPECIFICATION Spec
CONSTANTS
  BufferSize = 5
  MaxBodySize = 3
  HeaderLengths <- MCHeaderLengths
  ContentLengths <- MCContentLengths
  BodyLengths <- MCBodyLengths
INVARIANTS
  StartOfBody
CHECK_DEADLOCK FALSE

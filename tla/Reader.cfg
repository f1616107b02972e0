SPECIFICATION Spec
CONSTANTS
  BufferSize = 5
  MaxBodySize = 3
  HeaderLengths <- MCHeaderLengths
  ContentLengths <- MCContentLengths
  BodyLengths <- MCBodyLengths
INVARIANTS
  ReaderInv
  BodyExact
  NoNeedlessWait
  BodyBounded
  RejectedForCause
PROPERTIES
  ReadAsTheLoopExpects
CHECK_DEADLOCK FALSE

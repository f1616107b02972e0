SPECIFICATION Spec
CONSTANTS
  Conn = {c1}
  NoConn = NoConn
  MaxFd = 5
  MaxEvents = 3
  HasCgi = TRUE
  KernelMayFail = FALSE
PROPERTIES
  WriteEofIsTheClient
CHECK_DEADLOCK FALSE

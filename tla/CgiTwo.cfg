SPECIFICATION Spec
CONSTANTS
  Conn = {c1, c2}
  NoConn = NoConn
  MaxFd = 5
  MaxEvents = 2
  HasCgi = TRUE
  KernelMayFail = FALSE
SYMMETRY Interchangeable
INVARIANTS
  NoPipeLeak
  NoEarlyAnswer
  AnswerAfterOutput
CHECK_DEADLOCK FALSE

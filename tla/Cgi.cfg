SPECIFICATION FairSpec
CONSTANTS
  Conn = {c1}
  NoConn = NoConn
  MaxFd = 5
  MaxEvents = 4
  HasCgi = TRUE
  KernelMayFail = TRUE
INVARIANTS
  NoPipeLeak
  NoOrphanScript
  NotReadWhenDone
  NothingLeftToRead
  NoEarlyAnswer
  AnswerAfterOutput
PROPERTIES
  EventuallyClosed
CHECK_DEADLOCK FALSE

SPECIFICATION Spec
CONSTANTS
  Conn = {c1, c2}
  NoConn = NoConn
  MaxFd = 2
  MaxEvents = 3
  HasCgi = FALSE
  KernelMayFail = FALSE
SYMMETRY Interchangeable
INVARIANTS
  TypeOK
  NoDanglingFilter
  OnlyTimersGoStale
  DescriptorsOwned
  LiveIsWatched
  OwnSingleResponse
  NobodyForgotten
  StaticInv
PROPERTIES
  AnsweredBeforeDeleted
  ConnectionSpec
CHECK_DEADLOCK FALSE

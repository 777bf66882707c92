SPECIFICATION ShutdownSpec
CONSTANTS
  Posters = {p1, p2}
  Worker = worker
  Messages = {m1, m2, m3}
  NoMsg = NoMsg
  NoOne = NoOne
INVARIANTS
  TypeOK
  NeverAsleepWithWork
  InOrderExactlyOnce
  ExitOnlyWhenDrained
PROPERTIES
  PostedIsHandled
  ImplementsLogicSystem
  ShutdownEnds
CHECK_DEADLOCK FALSE

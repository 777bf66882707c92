SPECIFICATION FairSpec
CONSTANTS
  Posters = {p1, p2}
  Worker = worker
  Messages = {m1, m2, m3}
  NoMsg = NoMsg
  NoOne = NoOne
PROPERTY StopEndsWorker
CHECK_DEADLOCK FALSE

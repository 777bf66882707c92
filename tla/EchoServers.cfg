SPECIFICATION FairSpec
CONSTANTS
  Conns = {c1}
  MaxSendQue = 1
  MaxMessages = 5
  Garbage = Garbage
INVARIANT EchoesInOrder
PROPERTIES
  QueuedIsEchoed
  EndedIsDestroyed
CHECK_DEADLOCK FALSE

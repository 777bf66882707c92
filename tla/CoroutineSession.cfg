SPECIFICATION CoFairSpec
CONSTANTS
  Sessions = {s1, s2}
  NoSession = NoSession
  NumServices = 2
  MaxSendQue = 1
  MaxFrames = 3
INVARIANTS
  TypeOK
  SendChain
  RepliesInOrder
  RegistryMatches
PROPERTY GoneIsReleased
CHECK_DEADLOCK FALSE

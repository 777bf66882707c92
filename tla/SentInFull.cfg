SPECIFICATION Spec
CONSTANTS
  Heads = {2, 5}
  Files = {0, 3}
  Room = 7
  MaxResponses = 2
  MaxCalls = 2
INVARIANT SentInFull
CHECK_DEADLOCK FALSE

SPECIFICATION FairSpec
CONSTANTS
  Conns = {c1, c2}
  NoRequest = NoRequest
  NoReply = NoReply
INVARIANT UnansweredOnlyLate
PROPERTY Released
CHECK_DEADLOCK FALSE

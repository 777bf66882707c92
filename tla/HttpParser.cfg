SPECIFICATION FairSpec
CONSTANTS
  Streams <- MCStreams
  Lengths <- MCLengths
  INT_MAX = 63
  READ_BUFFER_SIZE = 16
INVARIANTS
  TypeOK
  IndexOrder
  CutIndependent
  LingerAsAsked
PROPERTIES
  TerminatorInBounds
  ProcessReadEnds
CHECK_DEADLOCK FALSE

SPECIFICATION Spec
CONSTANTS
  Streams <- WithBody
  Lengths <- MCLengths
  INT_MAX = 63
  READ_BUFFER_SIZE = 16
INVARIANT BodyRecognised
CHECK_DEADLOCK FALSE

SPECIFICATION Spec
CONSTANTS
  Workers = {w1, w2}
  c1 = c1
  c2 = c2
  Conns <- TwoConns
  Fds <- FdsAdjacent
  Chunks <- AllChunks
  Part <- ChunkPart
  MaxSend <- SendLimit
  MaxRequest = 1
  MAX_FD = 16
  BufSize = 3
  NoTask = NoTask
  NoReply = NoReply
  Free = Free
  Other = Other
INVARIANT SockfdMatches
CHECK_DEADLOCK FALSE

SPECIFICATION FairSpec
CONSTANTS
  Kinds = {"socks", "http", "connect", "upgrade", "vnc", "rdp", "terminal"}
  MaxChunks = 3
INVARIANTS NothingTruncated EndedIsClosed
PROPERTIES RelayEnds NoLoopLeft
CHECK_DEADLOCK FALSE

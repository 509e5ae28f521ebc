SPECIFICATION FolderSpec
CONSTANTS
  Roots = {r1, r2}
  Bases = {b}
  MaxSuffix = 2
  MaxMessages = 2
  MaxMoves = 1
  MaxFailures = 1
INVARIANT MovedSessionsKeepAll
CHECK_DEADLOCK FALSE

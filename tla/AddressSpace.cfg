SPECIFICATION MCSpec
CONSTANTS
  Values = {v0, v1}
  NumRegs = 4
  Sessions <- PassingSessions
  NumPages = 6
  PageSize = 2
  Files = {f}
  FilePages = 3
  MaxBrk = 3
  UserPages = 4
  MaxEvents = 4
  Ahead = 2
INVARIANT DebuggerInvisible
INVARIANT WatchpointsFire
INVARIANT MapMatchesKernel
INVARIANT SpacesMatch
CHECK_DEADLOCK FALSE

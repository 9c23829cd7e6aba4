SPECIFICATION MCSpec
CONSTANTS
  Scenarios <- StateScenarios
  OtherWrites = 1
  Restarts = 1
  MPROTECT_RECORD_COUNT = 2
INVARIANT ReplayExact
INVARIANT AsWithoutBuffer
INVARIANT ProtectionsKnown
PROPERTY ImplementsDirectSyscall

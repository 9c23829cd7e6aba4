CONSTANTS
  Kinds = {"MAY_BLOCK", "WONT_BLOCK", "disabled_fd"}
  MaxCalls = 3
  MaxUsr = 2
  MaxSlices = 1
  Capacity = 2
SPECIFICATION LiveSpec
INVARIANT NeverSleepsUnseen
INVARIANT BufferRecorded
INVARIANT HandledOutsideTransaction
PROPERTY SignalReachesHandler
PROPERTY TransactionCompletes

SPECIFICATION MCSpec
CONSTANTS
  MaxSteps = 20
  MaxVariants = 9
  Scenarios <- PassingSessions
  Splits = {"$", "+", "checksum"}
  MaxDiversionSteps = 2
  NumSymbols = 2
  SkidSize = 2
  MaxSkid = 1
  MaxTicksRequest = 4
  BytesCoalesced = 2
INVARIANT DebuggerTold
INVARIANT AnswersExact
PROPERTY FramesAtRecordedPoint
PROPERTY ConditionsHonoured
PROPERTY ReplayFinishes
PROPERTY GdbAnswered

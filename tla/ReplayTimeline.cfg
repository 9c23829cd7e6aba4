CONSTANTS
  LastPos = 14
  KeyOf <- ConstKeyOf
  TimeOf <- ConstTimeOf
  TicksOf <- ConstTicksOf
  TaskOf <- ConstTaskOf
  Silent <- ConstSilent
  Clonable <- ConstClonable
  Attach = 4
  StopLimit = 1
  Sessions <- PassingSessions
SPECIFICATION FairSpec
INVARIANT TimelineIntact
INVARIANT ReverseExact
PROPERTY CheckpointDensity
PROPERTY ReverseEnds

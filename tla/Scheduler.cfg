CONSTANTS
  MaxTasks = 3
  Nice = {1}
  MaxSlice = 1
  Recordings <- SafetyRecordings
SPECIFICATION Spec
INVARIANT ScheduleSound
INVARIANT NoLostEvent
INVARIANT NeverWaitsForUnstable

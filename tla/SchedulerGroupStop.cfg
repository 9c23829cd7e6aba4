CONSTANTS
  MaxTasks = 3
  Nice = {1}
  MaxSlice = 1
  Recordings <- GroupStopRecordings
SPECIFICATION Spec
INVARIANT NoLostEvent

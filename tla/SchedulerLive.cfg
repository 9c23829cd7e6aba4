CONSTANTS
  MaxTasks = 3
  Nice = {1}
  MaxSlice = 1
  Recordings <- LiveRecordings
SPECIFICATION FairSpec
PROPERTY NoStarvation
PROPERTY SIGCONTIsNoticed

CONSTANTS
  TpAllocNum = 8
  TsAllocNum = 8
  NotUpdating = NotUpdating
  MaxObjects = 8
  MaxTimers = 7
  MaxTime = 1
SPECIFICATION Spec
PROPERTIES DueAreCalled
CHECK_DEADLOCK FALSE

CONSTANTS
  TpAllocNum = 1
  TsAllocNum = 1
  NotUpdating = NotUpdating
  MaxObjects = 7
  MaxTimers = 7
  MaxTime = 2
  FewTimers = 5
  FewTime = 1
SPECIFICATION MCSpec
INVARIANTS TypeOK KeysExact TimersApart
PROPERTIES OrderKept CalledNoLater ImplementsTimerSet
CHECK_DEADLOCK FALSE

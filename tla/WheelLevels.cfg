SPECIFICATION Spec
CONSTANTS
  t1 = t1
  t2 = t2
  Tasks = {t1, t2}
  Stopping = {t2}
  WheelSize <- TwoLevels
  Dt = 1
  MaxSleepDt = 2
  TimeMod = 32
  Times = {19, 21, 22, 24, 26}
  Epoch = 20
  MaxTime = 26
  SetBack = 0
  MaxSetBacks = 0
  Scripts <- RepeatedScripts
  CallStates = {"kInit", "kStart", "kShutdown"}
INVARIANTS
  TypeOK
  OdometerInSync
  NearIsPunctual
PROPERTY
  NearTasksOnTime
CHECK_DEADLOCK FALSE

SPECIFICATION FairSpec
CONSTANTS
  t1 = t1
  t2 = t2
  Tasks = {t1, t2}
  Stopping = {}
  WheelSize <- OneLevelOfTwo
  Dt = 2
  MaxSleepDt = 1
  TimeMod = 128
  Times = {35, 39}
  Epoch = 31
  MaxTime = 41
  SetBack = 1
  MaxSetBacks = 1
  Scripts <- ManagerScripts
  CallStates = {"kStart"}
INVARIANTS
  NothingForgotten
  NeverBeforeItsTime
  NowNeverAhead
  AtMostOneRevolutionOff
  NeverCrashes
PROPERTIES
  KeepsLifecycle
  NearTasksRun
  LifecycleCallsReturn
CHECK_DEADLOCK FALSE

SPECIFICATION Spec
CONSTANTS
  t1 = t1
  t2 = t2
  Tasks = {t1, t2}
  Stopping = {}
  WheelSize <- OneLevelOfThree
  Dt = 1
  MaxSleepDt = 1
  TimeMod = 64
  Times = {20, 22, 24, 26}
  Epoch = 20
  MaxTime = 29
  SetBack = 0
  MaxSetBacks = 0
  Scripts <- ManagerScripts
  CallStates = {"kStart"}
INVARIANT
  NeverLate
CHECK_DEADLOCK FALSE

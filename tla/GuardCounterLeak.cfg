SPECIFICATION Spec
CONSTANTS
  c1 = c1
  c2 = c2
  t1 = t1
  t2 = t2
  t3 = t3
  Owner = Owner
  Worker = Worker
  NoThread = NoThread
  NoTask = NoTask
  Callers = {c1}
  Tasks = {t1, t2, t3}
  Throwing = {t1}
  Stopping = {}
  Repeat = {}
  QueueThreshold = 1
  Scripts <- ManagerScripts
  LateCallers = FALSE
PROPERTY RejectsOnlyWhenFull
CHECK_DEADLOCK FALSE

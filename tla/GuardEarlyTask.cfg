SPECIFICATION Spec
CONSTANTS
  c1 = c1
  c2 = c2
  t1 = t1
  t2 = t2
  t3 = t3
  Owner = Owner
  Worker = Worker
  NoThread = NoThread
  NoTask = NoTask
  Callers = {c1}
  Tasks = {t1, t2, t3}
  Throwing = {}
  Stopping = {}
  Repeat = {}
  QueueThreshold = 2
  Scripts <- ManagerScripts
  LateCallers = FALSE
PROPERTY TakesTasksOnlyOnceStarted
CHECK_DEADLOCK FALSE

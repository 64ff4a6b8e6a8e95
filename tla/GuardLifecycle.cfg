SPECIFICATION FairSpec
CONSTANTS
  c1 = c1
  c2 = c2
  t1 = t1
  t2 = t2
  t3 = t3
  Owner = Owner
  Worker = Worker
  NoThread = NoThread
  NoTask = NoTask
  Callers = {c1, c2}
  Tasks = {t1, t2, t3}
  Throwing = {t2}
  Stopping = {}
  Repeat = {}
  QueueThreshold = 2
  Scripts <- ManagerScripts
  LateCallers = FALSE
INVARIANTS ShutdownDrains NeverTerminates
PROPERTIES KeepsLifecycle RunsAllInOrder ShutdownReturns CallsReturn
CHECK_DEADLOCK FALSE

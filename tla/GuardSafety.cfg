SPECIFICATION Spec
CONSTANTS
  c1 = c1
  c2 = c2
  t1 = t1
  t2 = t2
  t3 = t3
  Owner = Owner
  Worker = Worker
  NoThread = NoThread
  NoTask = NoTask
  Callers = {c1, c2}
  Tasks = {t1, t2, t3}
  Throwing = {t2}
  Stopping = {t3}
  Repeat = {t1}
  QueueThreshold = 2
  Scripts <- LooseScripts
  LateCallers = TRUE
INVARIANTS TypeOK CounterCovers BoundedBacklog NoLostWakeup
PROPERTY RunsInOrder
SYMMETRY CallerSymmetry
CHECK_DEADLOCK FALSE

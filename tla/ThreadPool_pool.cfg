SPECIFICATION FairSpec
CONSTANTS
  w1 = w1
  w2 = w2
  w3 = w3
  t1 = t1
  t2 = t2
  NoOne = NoOne
  NoTask = NoTask
  Workers = {w1, w2, w3}
  Tasks = {t1, t2}
  Blocking = {}
INVARIANTS
  TasksConserved
  NeverAllAsleep
PROPERTIES
  ImplementsTaskPool
  EveryTaskRuns
CHECK_DEADLOCK FALSE

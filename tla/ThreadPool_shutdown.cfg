SPECIFICATION FairSpec
CONSTANTS
  w1 = w1
  w2 = w2
  t1 = t1
  NoOne = NoOne
  NoTask = NoTask
  Workers = {w1, w2}
  Tasks = {t1}
  Blocking = {}
PROPERTY ShutdownReturns
CHECK_DEADLOCK FALSE

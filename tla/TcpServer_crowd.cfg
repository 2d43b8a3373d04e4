SPECIFICATION CrowdSpec
CONSTANTS
  acc = acc
  c1 = c1
  c2 = c2
  lfd = lfd
  f1 = f1
  f2 = f2
  NoEvent = NoEvent
  AppTask = AppTask
  Events = {acc, c1, c2}
  Fds = {lfd, f1, f2}
  Acc = acc
  ListenFd = lfd
  OneShot = {}
  Signals = {"IN", "PRI", "OUT", "ERR", "HUP"}
  AlwaysReady = {}
  InitialEntries = 16
  MaxTasks = 2
INVARIANT AssertsHold
CHECK_DEADLOCK FALSE

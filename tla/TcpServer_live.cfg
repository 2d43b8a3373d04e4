SPECIFICATION TurnSpec
CONSTANTS
  acc = acc
  c1 = c1
  lfd = lfd
  f1 = f1
  NoEvent = NoEvent
  AppTask = AppTask
  Events = {acc, c1}
  Fds = {lfd, f1}
  Acc = acc
  ListenFd = lfd
  OneShot = {}
  Signals = {"IN", "PRI", "OUT", "ERR", "HUP"}
  AlwaysReady = {}
  InitialEntries = 16
  MaxTasks = 1
PROPERTIES
  LostIsFreed
  SentOrLost
CHECK_DEADLOCK FALSE

SPECIFICATION TimerSpec
CONSTANTS
  t1 = t1
  t2 = t2
  f1 = f1
  f2 = f2
  NoEvent = NoEvent
  NoFd = NoFd
  AppTask = AppTask
  Events = {t1, t2}
  Fds = {f1, f2}
  OneShot = {t2}
  Signals = {"IN"}
  AlwaysReady = {}
  InitialEntries = 16
  MaxTasks = 1
INVARIANTS
  TimersSound
PROPERTIES
  OneShotOnce
  StartedFires

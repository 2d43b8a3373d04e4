SPECIFICATION ClientSpec
CONSTANTS
  a1 = a1
  a2 = a2
  c1 = c1
  c2 = c2
  f1 = f1
  f2 = f2
  NoEvent = NoEvent
  NoFd = NoFd
  AppTask = AppTask
  Events = {a1, a2, c1, c2}
  Attempts = {a1, a2}
  Fds = {f1, f2}
  OneShot = {}
  Signals = {"IN", "OUT", "HUP"}
  AlwaysReady = {}
  InitialEntries = 16
  MaxTasks = 3
INVARIANTS
  OneConnection
  FaultsExplained
  ClientRegistryAgrees
PROPERTIES
  AttemptDecided
  LossIsHandled
CHECK_DEADLOCK FALSE

SPECIFICATION SerialSpec
CONSTANTS
  e1 = e1
  f1 = f1
  f2 = f2
  NoEvent = NoEvent
  NoFd = NoFd
  AppTask = AppTask
  Events = {e1}
  Fds = {f1, f2}
  OneShot = {}
  Signals = {"IN", "OUT", "HUP"}
  AlwaysReady = {}
  InitialEntries = 16
  MaxTasks = 2
  FlushBytes = 2
  MaxRead = 2
  Traffics = {"in", "out", "set"}
  MaxSent = 3
  MaxArrived = 3
INVARIANTS
  PortFaultsExplained
  PortAgrees
  BytesInOrder
  LineAsAsked
PROPERTIES
  BufferedIsFlushed
CHECK_DEADLOCK FALSE

SPECIFICATION FairSpec
CONSTANTS
  e1 = e1
  e2 = e2
  f1 = f1
  f2 = f2
  NoEvent = NoEvent
  AppTask = AppTask
  Events = {e1, e2}
  Fds = {f1, f2}
  OneShot = {e2}
  Signals = {"IN", "OUT"}
  AlwaysReady = {f1, f2}
  InitialEntries = 1
  MaxTasks = 2
INVARIANTS
  TypeOK
  NoUseAfterFree
  RegistryAgrees
  AssertsHold
  RemovedStaysOut
PROPERTIES
  DeletionRuns
  ReadyIsRead
CHECK_DEADLOCK FALSE

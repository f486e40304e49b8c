SPECIFICATION Spec
CONSTANTS
  Threads = {m, t, u}
  Main = m
  NoThread = NoThread
  Fds = {f}
  NoFd = NoFd
  Restart = {t, u}
  Killable = {"run", "at", "fd", "none"}
  Faults = {"gc", "drop", "badYield", "error", "quit", "interrupt"}
  MaxTime = 2
INVARIANTS
  TypeOK
  FdTables
  QueuedOnce
  DatesInOrder
PROPERTIES
  PendingEventsKeepThread
SYMMETRY Symmetry
CHECK_DEADLOCK FALSE

SPECIFICATION FairSpec
CONSTANTS
  Threads = {m, t, u}
  Main = m
  NoThread = NoThread
  Fds = {f}
  NoFd = NoFd
  Restart = {}
  Killable = {"at"}
  Faults = {}
  MaxTime = 2
PROPERTIES
  JoinersResumed
  DueThreadsRun
  PassEnds
CHECK_DEADLOCK FALSE

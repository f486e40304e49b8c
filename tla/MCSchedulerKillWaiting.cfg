SPECIFICATION FairSpec
CONSTANTS
  Threads = {m, t, u}
  Main = m
  NoThread = NoThread
  Fds = {f}
  NoFd = NoFd
  Restart = {}
  Killable = {"fd"}
  Faults = {}
  MaxTime = 1
PROPERTIES
  JoinersResumed
CHECK_DEADLOCK FALSE
